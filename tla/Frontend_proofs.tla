--------------------------- MODULE Frontend_proofs ---------------------------
(***************************************************************************)
(* Theorems about the browser application: the session of a page with the  *)
(* service behind it, its chat, the draft it edits and its voice input,    *)
(* for any accounts, requests, threads and starts.                         *)
(***************************************************************************)
EXTENDS SessionClient, Workbench, EditorDraft, VoiceInput,
        FiniteSetTheorems, SequenceTheorems, TLAPS

-----------------------------------------------------------------------------
(* Accounts, passwords and refresh tokens.                                 *)

(* The fields of a message follow from its kind and from where it is.      *)
LEMMA LoginMessage ==
    ASSUME NEW m \in Messages, m.kind = "login", m.at \in {"sent", "checked"}
    PROVE  /\ m \in [kind : {"login"}, at : {"sent", "checked"}, user : Users, pw : 0..(MaxResets + 1)]
           /\ "token" \notin DOMAIN m
BY DEF Messages, Quiet

(* A login that a reset cannot see is still a message.                     *)
LEMMA UnseenLogin ==
    ASSUME AuthAssumption, NEW m \in Messages, m.kind = "login", m.at = "checked"
    PROVE  LET n == [m EXCEPT !.pw = NoPassword]
           IN  n \in Messages /\ n # Quiet /\ m # Quiet /\ n.pw = NoPassword
<1> DEFINE n == [m EXCEPT !.pw = NoPassword]
<1>1. m \in [kind : {"login"}, at : {"sent", "checked"}, user : Users, pw : 0..(MaxResets + 1)]
    BY LoginMessage
<1>2. n \in [kind : {"login"}, at : {"sent", "checked"}, user : Users, pw : {NoPassword}]
    BY <1>1
<1>3. NoPassword \in 0..(MaxResets + 1)
    BY AuthAssumption DEF NoPassword
<1>4. n \in [kind : {"login"}, at : {"sent", "checked"}, user : Users, pw : 0..(MaxResets + 1)]
    BY <1>2, <1>3
<1> HIDE DEF n
<1>5. n \in Messages /\ n.pw = NoPassword
    BY <1>2, <1>4 DEF Messages
<1>6. n # Quiet /\ m # Quiet
    BY <1>1, <1>4 DEF Quiet
<1> QED BY <1>5, <1>6 DEF n

(* A login that was granted carries a token and a row.                     *)
LEMMA LoginAnswer ==
    ASSUME NEW m \in Messages, m.kind = "login", m.at = "granted"
    PROVE  m.token \in AccessTokens /\ m.session \in 1..MaxSessions
BY DEF Messages, Quiet

(* What goes by the cookie names a row, or none.                           *)
LEMMA CookieMessage ==
    ASSUME NEW m \in Messages, m.kind \in {"refresh", "logout"}, m.at = "sent"
    PROVE  m.session \in 0..MaxSessions
BY DEF Messages, Quiet

(* A refresh that was granted carries a token.                             *)
LEMMA RefreshMessage ==
    ASSUME NEW m \in Messages, m.kind = "refresh", m.at = "granted"
    PROVE  m.token \in AccessTokens
BY DEF Messages, Quiet

(* A call carries the token of the page, which may have none.              *)
LEMMA CallMessage ==
    ASSUME NEW m \in Messages, m.kind = "call", m.at = "sent"
    PROVE  m.token \in AccessTokens \cup {NoToken}
BY DEF Messages, Quiet

(* A call that was granted names an account.                               *)
LEMMA UserMessage ==
    ASSUME NEW m \in Messages, m.kind = "call", m.at = "granted"
    PROVE  m.user \in Users
BY DEF Messages, Quiet

(* Any request may be refused.                                             *)
LEMMA DeniedMessage ==
    ASSUME NEW k \in {"login", "refresh", "logout", "call"}
    PROVE  [kind |-> k, at |-> "denied"] \in Messages
BY DEF Messages

(* A token that expires speaks for the same account.                       *)
LEMMA ExpiredToken ==
    ASSUME NEW t \in AccessTokens \cup {NoToken}
    PROVE  /\ Expired(t) \in AccessTokens \cup {NoToken} /\ Expired(t).user = t.user
           /\ t \in AccessTokens => Expired(t) \in AccessTokens
           /\ t = NoToken => Expired(t) = NoToken
<1>1. ASSUME t \in AccessTokens PROVE Expired(t) \in AccessTokens /\ Expired(t).user = t.user
    BY <1>1 DEF AccessTokens, Expired
<1>2. ASSUME t = NoToken PROVE Expired(t) = NoToken
  <2>1. t \in [user : {Nobody}, live : {FALSE}]
      BY <1>2 DEF NoToken
  <2>2. Expired(t) \in [user : {Nobody}, live : {FALSE}]
      BY <2>1 DEF Expired
  <2> QED BY <2>2 DEF NoToken
<1> QED BY <1>1, <1>2

(* A message with an expired token is still a message.                     *)
LEMMA ExpiredMessage ==
    ASSUME NEW m \in Messages, "token" \in DOMAIN m
    PROVE  LET e == [m EXCEPT !.token = Expired(@)]
           IN  e \in Messages /\ e.kind = m.kind /\ e.at = m.at /\ e # Quiet /\ m # Quiet
<1>1. m \in [kind : {"login"}, at : {"granted"}, token : AccessTokens, session : 1..MaxSessions] \cup
            [kind : {"refresh"}, at : {"granted"}, token : AccessTokens] \cup
            [kind : {"call"}, at : {"sent"}, token : AccessTokens \cup {NoToken}]
    BY DEF Messages, Quiet
<1>2. m.token \in AccessTokens \cup {NoToken}
    BY <1>1
<1>3. CASE m \in [kind : {"login"}, at : {"granted"}, token : AccessTokens, session : 1..MaxSessions]
    BY <1>3, ExpiredToken DEF Messages, Quiet
<1>4. CASE m \in [kind : {"refresh"}, at : {"granted"}, token : AccessTokens]
    BY <1>4, ExpiredToken DEF Messages, Quiet
<1>5. CASE m \in [kind : {"call"}, at : {"sent"}, token : AccessTokens \cup {NoToken}]
    BY <1>5, ExpiredToken DEF Messages, Quiet
<1> QED BY <1>1, <1>3, <1>4, <1>5

(* An exchange changes on its own channel only.                            *)
LEMMA AnswerOn ==
    ASSUME exch \in [Channels -> Messages], NEW c \in Channels, NEW m \in Messages, Answer(c, m)
    PROVE  /\ exch' \in [Channels -> Messages] /\ exch'[c] = m
           /\ \A d \in Channels \ {c} : exch'[d] = exch[d]
BY DEF Answer

(* Rows that are revoked leave the table as long as it was.                *)
LEMMA RevokedRows ==
    ASSUME sessions \in Seq(Rows \cup {Revoked}), NEW R
    PROVE  /\ RevokeRows(R) \in Seq(Rows \cup {Revoked}) /\ Len(RevokeRows(R)) = Len(sessions)
           /\ DOMAIN RevokeRows(R) = DOMAIN sessions
           /\ \A s \in DOMAIN sessions : RevokeRows(R)[s] = IF s \in R THEN Revoked ELSE sessions[s]
<1>1. \A s \in 1..Len(sessions) : sessions[s] \in Rows \cup {Revoked}
    OBVIOUS
<1> QED BY <1>1 DEF RevokeRows

(* A row that is opened is the last of a table that is not full.           *)
LEMMA OpenedRow ==
    ASSUME sessions \in Seq(Rows \cup {Revoked}), Len(sessions) <= MaxSessions, AuthAssumption,
           NEW u \in Users, NEW p \in 0..(MaxResets + 1), NewSession(u, p)
    PROVE  /\ sessions' \in Seq(Rows \cup {Revoked}) /\ Len(sessions') <= MaxSessions
           /\ Len(sessions) + 1 \in 1..MaxSessions
           /\ DOMAIN sessions' = DOMAIN sessions \cup {Len(sessions) + 1}
           /\ \A s \in DOMAIN sessions : sessions'[s] = sessions[s]
           /\ sessions'[Len(sessions) + 1] = [user |-> u, pw |-> p]
<1>1. [user |-> u, pw |-> p] \in Rows \cup {Revoked}
    BY DEF Rows
<1>2. PICK l \in Nat : l = Len(sessions)
    OBVIOUS
<1>3. l < MaxSessions /\ MaxSessions \in Nat
    BY <1>2, AuthAssumption DEF NewSession
<1> QED BY <1>1, <1>2, <1>3 DEF NewSession

(* A password that is still the account's, which no reset is replacing.    *)
Current(u, p) == p = password[u] /\ resetting[u] = NoReset

(* Steps that leave passwords and resets alone, remove no account, and open*)
(* no row and admit no login but with a current password, or none.         *)
LEMMA RowsKept ==
    ASSUME ResetInv, UNCHANGED <<password, resetting>>,
           \A u \in Users : account'[u] = "absent" => account[u] = "absent",
           \A s \in DOMAIN sessions' :
              sessions'[s] # Revoked /\ sessions'[s].pw # NoPassword =>
                 \/ s \in DOMAIN sessions /\ sessions'[s] = sessions[s]
                 \/ Current(sessions'[s].user, sessions'[s].pw),
           \A c \in Channels :
              Checked(c)' /\ exch'[c].pw # NoPassword =>
                 exch'[c] = exch[c] \/ Current(exch'[c].user, exch'[c].pw)
    PROVE  ResetInv'
<1>1. \A c \in Channels : exch'[c] = exch[c] /\ Checked(c)' => Checked(c)
    BY DEF Checked
<1>2. \A s \in DOMAIN sessions' :
        Live(s)' => /\ sessions'[s] # Revoked
                    /\ s \in DOMAIN sessions /\ sessions'[s] = sessions[s] => Live(s)
    BY DEF Live
<1>3. \A s \in DOMAIN sessions' :
        Live(s)' /\ sessions'[s].pw # NoPassword =>
           LET u == sessions'[s].user
           IN  sessions'[s].pw = password[u] /\ (resetting[u] = NoReset \/ s \in resetting[u])
    BY <1>2 DEF ResetInv, Current
<1>4. \A c \in Channels :
        Checked(c)' /\ exch'[c].pw # NoPassword =>
           LET u == exch'[c].user
           IN  exch'[c].pw = password[u] /\ resetting[u] = NoReset
    BY <1>1 DEF ResetInv, Current
<1> QED BY <1>3, <1>4 DEF ResetInv

(* The same of steps that leave the accounts alone.                        *)
LEMMA ResetKept ==
    ASSUME ResetInv, UNCHANGED accountVars,
           \A s \in DOMAIN sessions' :
              sessions'[s] # Revoked /\ sessions'[s].pw # NoPassword =>
                 \/ s \in DOMAIN sessions /\ sessions'[s] = sessions[s]
                 \/ Current(sessions'[s].user, sessions'[s].pw),
           \A c \in Channels :
              Checked(c)' /\ exch'[c].pw # NoPassword =>
                 exch'[c] = exch[c] \/ Current(exch'[c].user, exch'[c].pw)
    PROVE  ResetInv'
<1>1. UNCHANGED <<password, resetting>> /\ account' = account
    BY DEF accountVars
<1> QED BY <1>1, RowsKept

-----------------------------------------------------------------------------
(* What the server does.                                                   *)
AuthTypes == AccountTypeOK /\ ResetInv

(* A step of the server leaves quiet channels quiet, and those only.       *)
QuietKept == \A c \in Channels : exch'[c] = Quiet <=> exch[c] = Quiet

(* An answer replaces a message by another.                                *)
LEMMA QuietAnswer ==
    ASSUME exch \in [Channels -> Messages], NEW c \in Channels, NEW m \in Messages, Answer(c, m),
           exch[c].kind # "none", m.kind # "none"
    PROVE  QuietKept
BY AnswerOn DEF QuietKept, Quiet

(* register: the account had no session and no login under way.            *)
LEMMA RegisterStep ==
    ASSUME AuthAssumption, AuthTypes, NEW u \in Users, Register(u) PROVE AuthTypes' /\ QuietKept
<1> USE DEF Register, RegisterUser, AuthTypes, AccountTypeOK
<1>1. AccountTypeOK'
    BY AuthAssumption
<1>2. password[u] = 0 /\ resetting[u] = NoReset
    BY DEF ResetInv
<1>3. \A s \in DOMAIN sessions : Live(s) => sessions[s] \in Rows
    BY DEF Live
<1>4. \A s \in DOMAIN sessions :
        Live(s) /\ sessions[s].pw # NoPassword => sessions[s].user # u /\ sessions[s].user \in Users
    BY <1>2, <1>3 DEF ResetInv, NoPassword, Rows
<1>5. \A c \in Channels : Checked(c) => exch[c].user \in Users
    BY LoginMessage DEF Checked
<1>6. \A c \in Channels : Checked(c) /\ exch[c].pw # NoPassword => exch[c].user # u
    BY <1>2 DEF ResetInv, NoPassword
<1>7. \A v \in Users : /\ account'[v] = "absent" => password'[v] = 0
                       /\ resetting[v] # NoReset => account'[v] # "absent" /\ password'[v] <= MaxResets
    BY <1>2 DEF ResetInv
<1>8. \A v \in Users \ {u} : password'[v] = password[v]
    OBVIOUS
<1>9. ResetInv'
    BY <1>4, <1>5, <1>6, <1>7, <1>8 DEF ResetInv, Checked, Live
<1> QED BY <1>1, <1>9 DEF QuietKept

(* verify_email changes no password.                                       *)
LEMMA VerifyStep ==
    ASSUME AuthTypes, NEW u \in Users, VerifyEmail(u) PROVE AuthTypes' /\ QuietKept
<1> USE DEF VerifyEmail, VerifyEmailToken, AuthTypes, AccountTypeOK
<1>1. AccountTypeOK'
    OBVIOUS
<1>2. ResetInv'
    BY DEF ResetInv, Checked, Live
<1> QED BY <1>1, <1>2 DEF QuietKept

(* reset_password selects every session of the account, and the logins it  *)
(* cannot select lose their claim to a current password.                   *)
LEMMA SelectStep ==
    ASSUME AuthAssumption, AuthTypes, NEW u \in Users, ResetSelect(u) PROVE AuthTypes' /\ QuietKept
<1> USE DEF AuthTypes, AccountTypeOK
<1>1. /\ account[u] # "absent" /\ \A v \in Users : resetting[v] = NoReset /\ password[v] <= MaxResets
      /\ resetting' = [resetting EXCEPT ![u] = OfUser(u)]
      /\ UNCHANGED <<account, password, sessions>>
    BY DEF ResetSelect, ResetLink
<1>2. OfUser(u) \in SUBSET (0..MaxSessions) /\ OfUser(u) \subseteq DOMAIN sessions
  <2>1. PICK l \in Nat : l = Len(sessions) /\ DOMAIN sessions = 1..l
      OBVIOUS
  <2> QED BY <2>1, AuthAssumption DEF OfUser
<1>3. ASSUME NEW c \in Channels
      PROVE  /\ exch'[c] \in Messages /\ (exch'[c] = Quiet <=> exch[c] = Quiet)
             /\ \/ exch'[c] = exch[c] /\ (Checked(c) => exch[c].user # u)
                \/ Checked(c) /\ exch'[c].pw = NoPassword /\ exch[c].user = u
  <2>1. CASE Checked(c) /\ exch[c].user = u
    <3>1. exch'[c] = [exch[c] EXCEPT !.pw = NoPassword]
        BY <2>1 DEF ResetSelect, Checked
    <3>2. exch[c] \in Messages /\ exch[c].kind = "login" /\ exch[c].at = "checked"
        BY <2>1 DEF Checked
    <3>3. /\ exch'[c] \in Messages /\ exch'[c] # Quiet /\ exch[c] # Quiet
          /\ exch'[c].pw = NoPassword
        BY <3>1, <3>2, UnseenLogin, AuthAssumption
    <3> QED BY <2>1, <3>3
  <2>2. CASE ~(Checked(c) /\ exch[c].user = u)
      BY <2>2 DEF ResetSelect, Checked
  <2> QED BY <2>1, <2>2
<1>4. AccountTypeOK'
  <2>1. exch' \in [Channels -> Messages]
      BY <1>3 DEF ResetSelect
  <2> QED BY <1>1, <1>2, <2>1
<1>5. \A s \in DOMAIN sessions : sessions[s].user = u => s \in OfUser(u)
    BY DEF OfUser
<1>6. ResetInv'
  <2>1. \A v \in Users : /\ account[v] = "absent" => password[v] = 0
                         /\ resetting'[v] # NoReset => account[v] # "absent" /\ password[v] <= MaxResets
      BY <1>1 DEF ResetInv
  <2>2. \A s \in DOMAIN sessions :
          Live(s) /\ sessions[s].pw # NoPassword =>
             /\ sessions[s].user \in Users
             /\ sessions[s].pw = password[sessions[s].user]
             /\ resetting'[sessions[s].user] = NoReset \/ s \in resetting'[sessions[s].user]
    <3>1. \A s \in DOMAIN sessions : Live(s) => sessions[s].user \in Users
        BY DEF Live, Rows
    <3> QED BY <1>1, <1>5, <3>1 DEF ResetInv
  <2>3. \A c \in Channels :
          Checked(c)' /\ exch'[c].pw # NoPassword =>
             /\ exch'[c].user \in Users
             /\ exch'[c].pw = password[exch'[c].user] /\ resetting'[exch'[c].user] = NoReset
    <3>1. \A c \in Channels : Checked(c)' /\ exch'[c].pw # NoPassword =>
                                 exch'[c] = exch[c] /\ Checked(c) /\ exch[c].user # u
        BY <1>3 DEF Checked
    <3>2. \A c \in Channels : Checked(c) => exch[c].user \in Users
        BY LoginMessage DEF Checked
    <3> QED BY <1>1, <3>1, <3>2 DEF ResetInv
  <2> QED BY <1>1, <2>1, <2>2, <2>3 DEF ResetInv, Live
<1>7. QuietKept
    BY <1>3 DEF QuietKept
<1> QED BY <1>4, <1>6, <1>7

(* Its commit revokes what it selected, so that no session is left with    *)
(* the password it replaces.                                               *)
LEMMA CommitStep ==
    ASSUME AuthAssumption, AuthTypes, NEW u \in Users, ResetCommit(u) PROVE AuthTypes' /\ QuietKept
<1> USE DEF AuthTypes, AccountTypeOK
<1>1. /\ resetting[u] # NoReset /\ password[u] <= MaxResets /\ account[u] # "absent"
      /\ password' = [password EXCEPT ![u] = @ + 1]
      /\ resetting' = [resetting EXCEPT ![u] = NoReset]
      /\ UNCHANGED <<account, exch>>
    BY DEF ResetCommit, ResetInv
<1>2. /\ sessions' \in Seq(Rows \cup {Revoked}) /\ Len(sessions') = Len(sessions)
      /\ DOMAIN sessions' = DOMAIN sessions
      /\ \A s \in DOMAIN sessions : sessions'[s] = IF s \in resetting[u] THEN Revoked ELSE sessions[s]
    BY RevokedRows DEF ResetCommit
<1>3. AccountTypeOK'
    BY <1>1, <1>2, AuthAssumption DEF NoReset
<1>4. \A s \in DOMAIN sessions : sessions'[s] # Revoked => /\ sessions'[s] = sessions[s] /\ Live(s)
                                                           /\ s \notin resetting[u]
                                                           /\ sessions[s].user \in Users
    BY <1>2 DEF Live, Rows
<1>5. \A s \in DOMAIN sessions : sessions'[s] # Revoked /\ sessions[s].pw # NoPassword => sessions[s].user # u
    BY <1>1, <1>4 DEF ResetInv
<1>6. \A c \in Channels : Checked(c) /\ exch[c].pw # NoPassword => exch[c].user # u /\ exch[c].user \in Users
    BY <1>1, LoginMessage DEF ResetInv, Checked
<1>7. \A v \in Users : /\ account[v] = "absent" => password'[v] = 0
                       /\ resetting'[v] # NoReset => account[v] # "absent" /\ password'[v] <= MaxResets
                       /\ v # u => password'[v] = password[v] /\ resetting'[v] = resetting[v]
    BY <1>1 DEF ResetInv
<1>8. ResetInv'
    BY <1>1, <1>2, <1>4, <1>5, <1>6, <1>7 DEF ResetInv, Checked, Live
<1> QED BY <1>1, <1>3, <1>8 DEF QuietKept

(* login, the check: the password is current unless a reset is under way.  *)
LEMMA CheckStep ==
    ASSUME AuthTypes, NEW c \in Channels, LoginCheck(c) PROVE AuthTypes' /\ QuietKept
<1> USE DEF AuthTypes, AccountTypeOK
<1>1. PICK u \in Users : u = exch[c].user
    BY LoginMessage DEF LoginCheck, Pending
<1>2. exch[c].kind = "login" /\ UNCHANGED <<accountVars, sessions>>
    BY DEF LoginCheck, Pending
<1>3. OpenedWith(u) \in 0..(MaxResets + 1) /\ (OpenedWith(u) # NoPassword => Current(u, OpenedWith(u)))
    BY AuthAssumption DEF OpenedWith, Current, NoPassword
<1>4. PICK m \in Messages : /\ Answer(c, m) /\ m.kind = "login"
                            /\ m.at = "checked" => m.user = u /\ m.pw = OpenedWith(u)
  <2>1. /\ [kind |-> "login", at |-> "checked", user |-> u, pw |-> OpenedWith(u)] \in Messages
        /\ [kind |-> "login", at |-> "denied"] \in Messages
      BY <1>3 DEF Messages
  <2> QED BY <1>1, <1>2, <2>1 DEF LoginCheck, Deny
<1>5. /\ exch' \in [Channels -> Messages] /\ exch'[c] = m
      /\ \A d \in Channels \ {c} : exch'[d] = exch[d]
    BY <1>4, AnswerOn
<1>6. ResetInv'
  <2>1. \A d \in Channels : Checked(d)' /\ exch'[d].pw # NoPassword =>
                               exch'[d] = exch[d] \/ Current(exch'[d].user, exch'[d].pw)
      BY <1>3, <1>4, <1>5 DEF Checked
  <2> QED BY <1>2, <2>1, ResetKept
<1>7. QuietKept
    BY <1>2, <1>4, QuietAnswer
<1> QED BY <1>2, <1>5, <1>6, <1>7 DEF accountVars

(* login, the row: its password is still current.                          *)
LEMMA LoginStep ==
    ASSUME AuthAssumption, AuthTypes, NEW c \in Channels, LoginCommit(c) PROVE AuthTypes' /\ QuietKept
<1> USE DEF AuthTypes, AccountTypeOK
<1>1. PICK u \in Users, p \in 0..(MaxResets + 1) : u = exch[c].user /\ p = exch[c].pw
    BY LoginMessage DEF LoginCommit
<1>2. Checked(c) /\ UNCHANGED accountVars /\ NewSession(u, p)
    BY <1>1 DEF LoginCommit, LoginUser, Checked
<1>3. /\ sessions' \in Seq(Rows \cup {Revoked}) /\ Len(sessions') <= MaxSessions
      /\ Len(sessions) + 1 \in 1..MaxSessions
      /\ DOMAIN sessions' = DOMAIN sessions \cup {Len(sessions) + 1}
      /\ \A s \in DOMAIN sessions : sessions'[s] = sessions[s]
      /\ sessions'[Len(sessions) + 1] = [user |-> u, pw |-> p]
    BY <1>2, OpenedRow
<1>4. PICK m \in Messages : Answer(c, m) /\ m.kind = "login" /\ m.at = "granted"
  <2>1. [kind |-> "login", at |-> "granted", token |-> Fresh(u), session |-> Len(sessions) + 1] \in Messages
      BY <1>3 DEF Messages, Fresh, AccessTokens
  <2> QED BY <1>1, <2>1 DEF LoginCommit, LoginUser
<1>5. /\ exch' \in [Channels -> Messages] /\ exch'[c] = m
      /\ \A d \in Channels \ {c} : exch'[d] = exch[d]
    BY <1>4, AnswerOn
<1>6. p # NoPassword => Current(u, p)
    BY <1>1, <1>2 DEF ResetInv, Current
<1>7. ResetInv'
  <2>1. \A d \in Channels : Checked(d)' /\ exch'[d].pw # NoPassword =>
                               exch'[d] = exch[d] \/ Current(exch'[d].user, exch'[d].pw)
      BY <1>4, <1>5 DEF Checked
  <2>2. \A s \in DOMAIN sessions' :
           sessions'[s] # Revoked /\ sessions'[s].pw # NoPassword =>
              \/ s \in DOMAIN sessions /\ sessions'[s] = sessions[s]
              \/ Current(sessions'[s].user, sessions'[s].pw)
      BY <1>3, <1>6
  <2> QED BY <1>2, <2>1, <2>2, ResetKept
<1>8. QuietKept
    BY <1>2, <1>4, QuietAnswer DEF Checked
<1> QED BY <1>2, <1>3, <1>5, <1>7, <1>8 DEF accountVars

(* An answer to anything but a login leaves rows as they are, or revoked.  *)
LEMMA OtherAnswer ==
    ASSUME AuthTypes, NEW c \in Channels, NEW m \in Messages, Answer(c, m), UNCHANGED accountVars,
           exch[c].kind # "none", m.kind \notin {"none", "login"}, NEW R,
           sessions' = sessions \/ sessions' = RevokeRows(R)
    PROVE  AuthTypes' /\ QuietKept
<1> USE DEF AuthTypes, AccountTypeOK
<1>1. /\ exch' \in [Channels -> Messages] /\ exch'[c] = m
      /\ \A d \in Channels \ {c} : exch'[d] = exch[d]
    BY AnswerOn
<1>2. /\ sessions' \in Seq(Rows \cup {Revoked}) /\ Len(sessions') = Len(sessions)
      /\ DOMAIN sessions' = DOMAIN sessions
      /\ \A s \in DOMAIN sessions : sessions'[s] # Revoked => sessions'[s] = sessions[s]
    BY RevokedRows
<1>3. \A d \in Channels : Checked(d)' => exch'[d] = exch[d]
    BY <1>1 DEF Checked
<1>4. ResetInv'
    BY <1>2, <1>3, ResetKept
<1>5. QuietKept
    BY QuietAnswer
<1> QED BY <1>1, <1>2, <1>4, <1>5 DEF accountVars

(* refresh, logout and the calls.                                          *)
LEMMA AnswerStep ==
    ASSUME AuthTypes, NEW c \in Channels, RefreshAnswer(c) \/ LogoutAnswer(c) \/ CallAnswer(c)
    PROVE  AuthTypes' /\ QuietKept
<1> USE DEF AuthTypes, AccountTypeOK
<1>1. CASE RefreshAnswer(c)
  <2>1. exch[c].kind = "refresh" /\ UNCHANGED <<accountVars, sessions>>
      BY <1>1 DEF RefreshAnswer, Pending
  <2>2. PICK m \in Messages : Answer(c, m) /\ m.kind = "refresh"
    <3>1. CASE Deny(c)
        BY <2>1, <3>1, DeniedMessage DEF Deny
    <3>2. CASE RefreshAccessToken(c, exch[c].session)
      <4>1. PICK s \in DOMAIN sessions : s = exch[c].session /\ sessions[s] \in Rows
          BY <3>2 DEF RefreshAccessToken, Live
      <4>2. [kind |-> "refresh", at |-> "granted", token |-> Fresh(sessions[s].user)] \in Messages
          BY <4>1 DEF Messages, Fresh, AccessTokens, Rows
      <4> QED BY <3>2, <4>1, <4>2 DEF RefreshAccessToken
    <3> QED BY <1>1, <3>1, <3>2 DEF RefreshAnswer
  <2> QED BY <2>1, <2>2, OtherAnswer
<1>2. CASE LogoutAnswer(c)
  <2>1. exch[c].kind = "logout" /\ UNCHANGED accountVars
      BY <1>2 DEF LogoutAnswer, Pending
  <2>2. PICK m \in Messages : Answer(c, m) /\ m.kind = "logout"
      BY <1>2, <2>1, DeniedMessage DEF LogoutAnswer, Deny, Messages
  <2>3. sessions' = sessions \/ sessions' = RevokeRows({exch[c].session})
      BY <1>2 DEF LogoutAnswer, LogoutUser
  <2> QED BY <2>1, <2>2, <2>3, OtherAnswer
<1>3. CASE CallAnswer(c)
  <2>1. exch[c].kind = "call" /\ exch[c].at = "sent" /\ UNCHANGED <<accountVars, sessions>>
      BY <1>3 DEF CallAnswer, Pending
  <2>2. PICK m \in Messages : Answer(c, m) /\ m.kind = "call"
    <3>1. CASE Deny(c)
        BY <2>1, <3>1, DeniedMessage DEF Deny
    <3>2. CASE Authenticated(exch[c].token)
      <4>1. exch[c].token \in AccessTokens
          BY <2>1, <3>2, CallMessage DEF Authenticated, NoToken
      <4>2. [kind |-> "call", at |-> "granted", user |-> exch[c].token.user] \in Messages
          BY <4>1 DEF Messages, AccessTokens
      <4> QED BY <1>3, <3>2, <4>2 DEF CallAnswer
    <3> QED BY <1>3, <3>1, <3>2 DEF CallAnswer
  <2> QED BY <2>1, <2>2, OtherAnswer
<1> QED BY <1>1, <1>2, <1>3

(* The server keeps its types, and the passwords of its sessions current,  *)
(* in each of its steps.                                                   *)
LEMMA ServerKeeps == AuthAssumption /\ AuthTypes /\ ServerStep => AuthTypes' /\ QuietKept
BY RegisterStep, VerifyStep, SelectStep, CommitStep, CheckStep, LoginStep, AnswerStep
   DEF ServerStep, ServerAnswer

(* The access tokens expire, on their way too.                             *)
LEMMA ExpireStep ==
    ASSUME AuthTypes, Expire, UNCHANGED <<accountVars, sessions>> PROVE AuthTypes' /\ QuietKept
<1> USE DEF AuthTypes, AccountTypeOK
<1>1. ASSUME NEW c \in Channels
      PROVE  /\ exch'[c] \in Messages /\ (exch'[c] = Quiet <=> exch[c] = Quiet)
             /\ Checked(c)' => exch'[c] = exch[c]
  <2>1. CASE "token" \in DOMAIN exch[c]
    <3>1. exch'[c] = [exch[c] EXCEPT !.token = Expired(@)]
        BY <2>1 DEF Expire
    <3>2. ~Checked(c)
        BY <2>1, LoginMessage DEF Checked
    <3> QED BY <2>1, <3>1, <3>2, ExpiredMessage DEF Checked
  <2>2. CASE "token" \notin DOMAIN exch[c]
      BY <2>2 DEF Expire
  <2> QED BY <2>1, <2>2
<1>2. exch' \in [Channels -> Messages]
    BY <1>1 DEF Expire
<1>3. ResetInv'
    BY <1>1, ResetKept
<1> QED BY <1>1, <1>2, <1>3 DEF QuietKept, accountVars

-----------------------------------------------------------------------------
(* What the page does.                                                     *)
LEMMA ChannelNames ==
    ASSUME ChannelsAssumption
    PROVE  /\ Calls \subseteq Channels /\ {"init", "form", "refresh"} \subseteq Channels
           /\ {"init", "form", "refresh"} \cap Calls = {} /\ {"me_init", "me_page"} \subseteq Calls
           /\ Data \subseteq Calls /\ "me_init" \notin Data /\ "me_page" \notin Data
BY DEF ChannelsAssumption, Calls

(* What the page sends is a message, and no login that was checked.        *)
LEMMA Requests ==
    ASSUME AuthAssumption
    PROVE  /\ Quiet \in Messages /\ Quiet.kind = "none"
           /\ \A t \in AccessTokens \cup {NoToken} : Call(t) \in Messages /\ Call(t).kind = "call"
           /\ \A s \in 0..MaxSessions : /\ Refresh(s) \in Messages /\ Refresh(s).kind = "refresh"
                                        /\ Logout(s) \in Messages /\ Logout(s).kind = "logout"
           /\ \A u \in Users : password[u] \in 0..(MaxResets + 1) =>
                 Login(u) \in Messages /\ Login(u).at = "sent"
BY DEF Messages, Quiet, Call, Refresh, Logout, Login

(* A step of the page that leaves the server alone.                        *)
LEMMA PageKeeps ==
    ASSUME AuthTypes, UNCHANGED <<accountVars, sessions>>, exch' = [c \in Channels |-> exch'[c]],
           \A c \in Channels : exch'[c] \in Messages /\ (Checked(c)' => exch'[c] = exch[c])
    PROVE  AuthTypes'
<1> USE DEF AuthTypes, AccountTypeOK
<1>1. exch' \in [Channels -> Messages]
    OBVIOUS
<1>2. ResetInv'
    BY ResetKept
<1> QED BY <1>1, <1>2 DEF accountVars

(* A step of the page on one channel.                                      *)
LEMMA PageAnswers ==
    ASSUME AuthTypes, UNCHANGED <<accountVars, sessions>>, NEW c \in Channels, NEW m \in Messages,
           Answer(c, m), m.kind = "none" \/ m.kind # "login" \/ m.at = "sent"
    PROVE  /\ AuthTypes' /\ exch'[c] = m
           /\ \A d \in Channels \ {c} : exch'[d] = exch[d]
<1> USE DEF AuthTypes, AccountTypeOK
<1>1. /\ exch' \in [Channels -> Messages] /\ exch'[c] = m
      /\ \A d \in Channels \ {c} : exch'[d] = exch[d]
    BY AnswerOn
<1>2. \A d \in Channels : Checked(d)' => exch'[d] = exch[d]
    BY <1>1 DEF Checked
<1>3. exch' = [d \in Channels |-> exch'[d]]
    BY <1>1
<1> HIDE DEF AuthTypes
<1> QED BY <1>1, <1>2, <1>3, PageKeeps

Assumed == AuthAssumption /\ ChannelsAssumption

(* What follows a GET /auth/me leaves the page's variables in their types, *)
(* and ends the loading only of the one AuthProvider sent.                 *)
LEMMA MeTypes ==
    ASSUME SessionTypeOK, NEW c \in Calls, NEW ok \in BOOLEAN, NEW u \in Users \cup {Nobody},
           MeArrives(c, ok, u)
    PROVE  /\ shown' \in Users \cup {Nobody} /\ loading' \in BOOLEAN
           /\ token' \in AccessTokens \cup {NoToken}
           /\ c # "me_init" => loading' = loading
BY DEF MeArrives, SessionTypeOK

(* A request that is settled leaves the page's variables in their types.   *)
LEMMA FragmentTypes ==
    ASSUME SessionTypeOK, NEW c, NEW D, Settle(c, D)
    PROVE  /\ fragment' \in AccessTokens \cup {NoToken} /\ retried' \subseteq Calls
           /\ req' \in [Calls -> Statuses]
BY DEF Settle, SessionTypeOK, Statuses

(* The server, and time.                                                   *)
LEMMA ServerPage ==
    ASSUME Assumed, SInv, ServerStep, ServerOnly PROVE SInv'
<1>1. AuthTypes' /\ QuietKept
    BY ServerKeeps DEF Assumed, SInv, SessionTypeOK, AuthTypes
<1>2. PageInv'
    BY <1>1, ChannelNames DEF Assumed, SInv, PageInv, ServerOnly, pageVars, QuietKept, Origin
<1> QED BY <1>1, <1>2 DEF SInv, SessionTypeOK, AuthTypes, ServerOnly, pageVars

(* The tokens of the page expire with the others.                          *)
LEMMA ExpirePage ==
    ASSUME Assumed, SInv, TokensExpire PROVE SInv'
<1>1. AuthTypes' /\ QuietKept
    BY ExpireStep DEF TokensExpire, SInv, SessionTypeOK, AuthTypes
<1>2. PageInv'
    BY <1>1, ChannelNames DEF Assumed, SInv, PageInv, TokensExpire, QuietKept, Origin
<1>3. token' \in AccessTokens \cup {NoToken} /\ fragment' \in AccessTokens \cup {NoToken}
    BY ExpiredToken DEF TokensExpire, SInv, SessionTypeOK
<1> QED BY <1>1, <1>2, <1>3 DEF SInv, SessionTypeOK, AuthTypes, TokensExpire

(* A view sends a request.                                                 *)
LEMMA SendPage ==
    ASSUME Assumed, SInv, NEW d \in Data, Send(d) PROVE SInv'
<1> USE ChannelNames DEF Assumed
<1>1. token \in AccessTokens \cup {NoToken} /\ d \in Channels
    BY DEF SInv, SessionTypeOK
<1>2. PICK m \in Messages : m = Call(token) /\ m.kind = "call"
    BY <1>1, Requests
<1>3. /\ AuthTypes' /\ exch'[d] = m
      /\ \A c \in Channels \ {d} : exch'[c] = exch[c]
    BY <1>1, <1>2, PageAnswers DEF Send, SInv, SessionTypeOK, AuthTypes
<1>4. /\ req' = [req EXCEPT ![d] = "sent"] /\ req[d] \in {"idle", "lost"}
      /\ UNCHANGED <<cookie, place, loading, shown, token, fragment, retried, refreshing, waiting>>
    BY DEF Send
<1>5. /\ req' \in [Calls -> Statuses] /\ req'[d] = "sent"
      /\ \A c \in Calls : c # d => req'[c] = req[c]
    BY <1>4 DEF SInv, SessionTypeOK, Statuses
<1>6. waiting' \subseteq {c \in Calls : req'[c] = "waiting"}
    BY <1>4, <1>5 DEF SInv, SessionTypeOK
<1>7. PageInv'
    BY <1>3, <1>4, <1>5 DEF SInv, PageInv, Origin
<1> QED BY <1>3, <1>4, <1>5, <1>6, <1>7 DEF SInv, SessionTypeOK, AuthTypes

(* A request of the page settles: its answer arrives, or a 401 is final.   *)
LEMMA SettledPage ==
    ASSUME Assumed, SInv, NEW c \in Calls, exch[c] # Quiet, Settle(c, {}), Answer(c, Quiet),
           NEW ok \in BOOLEAN, NEW u \in Users \cup {Nobody}, MeArrives(c, ok, u),
           UNCHANGED <<accountVars, sessions, cookie, place, refreshing, waiting>>
    PROVE  SInv'
<1> USE ChannelNames DEF Assumed
<1>1. /\ AuthTypes' /\ exch'[c] = Quiet
      /\ \A d \in Channels \ {c} : exch'[d] = exch[d]
    BY Requests, PageAnswers DEF SInv, SessionTypeOK, AuthTypes
<1>2. /\ shown' \in Users \cup {Nobody} /\ loading' \in BOOLEAN
      /\ token' \in AccessTokens \cup {NoToken}
      /\ c # "me_init" => loading' = loading
    BY MeTypes DEF SInv
<1>3. /\ fragment' \in AccessTokens \cup {NoToken} /\ retried' \subseteq Calls
      /\ req' \in [Calls -> Statuses]
    BY FragmentTypes DEF SInv
<1>4. req'[c] = "idle" /\ \A d \in Calls : d # c => req'[d] = req[d]
    BY DEF Settle
<1>5. req[c] = "sent"
    BY DEF SInv, PageInv
<1>6. waiting' \subseteq {d \in Calls : req'[d] = "waiting"}
    BY <1>4, <1>5 DEF SInv, SessionTypeOK
<1>7. PageInv'
    BY <1>1, <1>2, <1>4, <1>5 DEF SInv, PageInv, Origin
<1> QED BY <1>1, <1>2, <1>3, <1>6, <1>7 DEF SInv, SessionTypeOK, AuthTypes

(* An answer arrives: it is delivered, rejected, waits for a refresh, or   *)
(* starts one.                                                             *)
LEMMA ArrivesPage ==
    ASSUME Assumed, SInv, NEW c \in Calls, Arrives(c) PROVE SInv'
<1> USE ChannelNames DEF Assumed
<1>1. exch[c] # Quiet /\ exch[c].kind = "call" /\ req[c] = "sent" /\ exch[c] \in Messages
  <2>1. exch[c].kind = "call"
      BY DEF Arrives, Delivered, Rejected, Subscribe, StartRefresh, Granted, Answered
  <2> QED BY <2>1, Requests DEF SInv, PageInv, SessionTypeOK, AccountTypeOK
<1>2. CASE Delivered(c)
  <2>1. exch[c].user \in Users
      BY <1>1, <1>2, UserMessage DEF Delivered, Granted
  <2> QED BY <1>1, <1>2, <2>1, SettledPage DEF Delivered
<1>3. CASE Rejected(c)
    BY <1>1, <1>3, SettledPage DEF Rejected
<1>4. CASE Subscribe(c)
  <2>1. /\ AuthTypes' /\ exch'[c] = Quiet
        /\ \A d \in Channels \ {c} : exch'[d] = exch[d]
      BY <1>4, Requests, PageAnswers DEF Subscribe, SInv, SessionTypeOK, AuthTypes
  <2>2. /\ req' = [req EXCEPT ![c] = "waiting"] /\ waiting' = waiting \cup {c}
        /\ UNCHANGED <<cookie, place, loading, shown, token, fragment, retried, refreshing>>
      BY <1>4 DEF Subscribe
  <2>3. /\ req' \in [Calls -> Statuses] /\ req'[c] = "waiting"
        /\ \A d \in Calls : d # c => req'[d] = req[d]
      BY <2>2 DEF SInv, SessionTypeOK, Statuses
  <2>4. waiting' \subseteq {d \in Calls : req'[d] = "waiting"}
      BY <2>2, <2>3 DEF SInv, SessionTypeOK
  <2>5. PageInv'
      BY <1>1, <2>1, <2>2, <2>3 DEF SInv, PageInv, Origin
  <2> QED BY <2>1, <2>2, <2>3, <2>4, <2>5 DEF SInv, SessionTypeOK, AuthTypes
<1>5. CASE StartRefresh(c)
  <2>1. PICK m \in Messages : m = Refresh(cookie) /\ m.kind = "refresh"
      BY Requests DEF SInv, SessionTypeOK
  <2>2. exch' = [exch EXCEPT ![c] = Quiet, !["refresh"] = m]
      BY <1>5, <2>1 DEF StartRefresh
  <2>3. /\ exch' = [d \in Channels |-> exch'[d]] /\ exch'[c] = Quiet /\ exch'["refresh"] = m
        /\ \A d \in Channels \ {c, "refresh"} : exch'[d] = exch[d]
      BY <2>2 DEF SInv, SessionTypeOK, AccountTypeOK
  <2>4. \A d \in Channels : exch'[d] \in Messages /\ (Checked(d)' => exch'[d] = exch[d])
      BY <2>1, <2>3, Requests DEF SInv, SessionTypeOK, AccountTypeOK, Checked
  <2>5. AuthTypes'
      BY <1>5, <2>3, <2>4, PageKeeps DEF StartRefresh, SInv, SessionTypeOK, AuthTypes
  <2>6. /\ req' = [req EXCEPT ![c] = "refreshing"] /\ retried' = retried \cup {c}
        /\ ~refreshing /\ refreshing' = TRUE
        /\ UNCHANGED <<cookie, place, loading, shown, token, fragment, waiting>>
      BY <1>5 DEF StartRefresh, SInv, SessionTypeOK
  <2>7. /\ req' \in [Calls -> Statuses] /\ req'[c] = "refreshing"
        /\ \A d \in Calls : d # c => req'[d] = req[d]
      BY <2>6 DEF SInv, SessionTypeOK, Statuses
  <2>8. waiting' \subseteq {d \in Calls : req'[d] = "waiting"} /\ retried' \subseteq Calls
      BY <1>1, <2>6, <2>7 DEF SInv, SessionTypeOK
  <2>9. PageInv'
      BY <1>1, <2>3, <2>6, <2>7 DEF SInv, PageInv, Origin
  <2> QED BY <2>5, <2>6, <2>7, <2>8, <2>9 DEF SInv, SessionTypeOK, AuthTypes
<1> QED BY <1>2, <1>3, <1>4, <1>5 DEF Arrives

(* A refresh ends: the requests that waited are sent again, or lost.       *)
LEMMA RefreshedPage ==
    ASSUME Assumed, SInv, Refreshed PROVE SInv'
<1> USE ChannelNames DEF Assumed
<1> DEFINE again == waiting \cup {c \in Calls : Origin(c)}
<1>1. exch["refresh"] \in Messages /\ exch["refresh"].kind = "refresh" /\ exch["refresh"].at = "granted"
    BY DEF Refreshed, Granted, SInv, SessionTypeOK, AccountTypeOK
<1>2. PICK t \in AccessTokens : t = exch["refresh"].token
    BY <1>1, RefreshMessage
<1>3. PICK m \in Messages : m = Call(t) /\ m.kind = "call"
    BY <1>2, Requests
<1>4. again \subseteq Calls /\ \A c \in again : req[c] \in {"waiting", "refreshing"}
    BY DEF SInv, SessionTypeOK, Origin
<1>5. /\ exch' = [c \in Channels |-> IF c = "refresh" THEN Quiet ELSE IF c \in again THEN m ELSE exch[c]]
      /\ req' = [c \in Calls |-> IF c \in again THEN "sent" ELSE req[c]]
      /\ token' = t /\ refreshing' = FALSE /\ waiting' = {}
      /\ UNCHANGED <<accountVars, sessions, cookie, place, loading, shown, fragment, retried>>
    BY <1>2, <1>3 DEF Refreshed
<1> HIDE DEF again
<1>6. /\ exch' = [d \in Channels |-> exch'[d]]
      /\ \A d \in Channels : exch'[d] \in Messages /\ (Checked(d)' => exch'[d] = exch[d])
    BY <1>3, <1>5, Requests DEF SInv, SessionTypeOK, AccountTypeOK, Checked
<1>7. AuthTypes'
    BY <1>5, <1>6, PageKeeps DEF SInv, SessionTypeOK, AuthTypes
<1>8. req' \in [Calls -> Statuses] /\ \A c \in Calls : ~Origin(c)'
    BY <1>5 DEF SInv, SessionTypeOK, Statuses, Origin, again
<1>9. PageInv'
  <2>1. \A c \in Calls : exch'[c] # Quiet => req'[c] = "sent"
      BY <1>4, <1>5 DEF SInv, PageInv
  <2>2. req'["me_init"] # "idle" => req["me_init"] # "idle"
      BY <1>4, <1>5
  <2>3. exch'["init"] = exch["init"]
      BY <1>4, <1>5
  <2> QED BY <1>5, <1>8, <2>1, <2>2, <2>3 DEF SInv, PageInv
<1> QED BY <1>5, <1>7, <1>8, <1>9 DEF SInv, SessionTypeOK, AuthTypes

(* A refresh fails: the one request that began it is rejected.             *)
LEMMA RefreshFailedPage ==
    ASSUME Assumed, SInv, RefreshFailed PROVE SInv'
<1> USE ChannelNames DEF Assumed
<1>1. PICK c \in Calls : Origin(c) /\ Settle(c, waiting)
    BY DEF RefreshFailed
<1>2. /\ AuthTypes' /\ exch'["refresh"] = Quiet
      /\ \A d \in Channels \ {"refresh"} : exch'[d] = exch[d]
    BY Requests, PageAnswers DEF RefreshFailed, SInv, SessionTypeOK, AuthTypes
<1>3. /\ fragment' \in AccessTokens \cup {NoToken} /\ retried' \subseteq Calls
      /\ req' \in [Calls -> Statuses]
    BY <1>1, FragmentTypes DEF SInv
<1>4. /\ refreshing' = FALSE /\ waiting' = {} /\ UNCHANGED <<cookie, place>>
      /\ shown' \in Users \cup {Nobody} /\ loading' \in BOOLEAN
      /\ token' \in AccessTokens \cup {NoToken}
      /\ c # "me_init" => loading' = loading
  <2>1. CASE Origin("me_init")
    <3>1. c = "me_init"
        BY <1>1, <2>1 DEF SInv, PageInv
    <3>2. MeArrives("me_init", FALSE, Nobody) /\ SessionTypeOK
        BY <2>1 DEF RefreshFailed, SInv
    <3> QED BY <3>1, <3>2, MeTypes DEF RefreshFailed
  <2>2. CASE ~Origin("me_init")
      BY <2>2 DEF RefreshFailed, SInv, SessionTypeOK
  <2> QED BY <2>1, <2>2 DEF RefreshFailed
<1>5. \A d \in Calls : /\ d = c => req'[d] = "idle"
                       /\ d \in waiting /\ d # c => req[d] = "waiting" /\ req'[d] = "lost"
                       /\ d \notin waiting /\ d # c => req'[d] = req[d]
    BY <1>1 DEF Settle, SInv, SessionTypeOK
<1>6. PageInv'
  <2>1. \A d \in Calls : exch'[d] # Quiet => req'[d] = "sent"
      BY <1>1, <1>2, <1>5 DEF SInv, PageInv, Origin
  <2>2. \A d \in Calls : ~Origin(d)'
      BY <1>1, <1>5 DEF SInv, PageInv, Origin
  <2>3. exch'["init"] = exch["init"]
      BY <1>2
  <2>4. req'["me_init"] # "idle" => c # "me_init" /\ req["me_init"] # "idle"
      BY <1>5
  <2>5. exch["init"] # Quiet => c # "me_init"
      BY <1>1 DEF SInv, PageInv, Origin
  <2> QED BY <1>4, <2>1, <2>2, <2>3, <2>4, <2>5 DEF SInv, PageInv
<1> QED BY <1>2, <1>3, <1>4, <1>6 DEF SInv, SessionTypeOK, AuthTypes

(* The refresh AuthProvider sends at its start.                            *)
LEMMA InitPage ==
    ASSUME Assumed, SInv, InitArrives PROVE SInv'
<1> USE ChannelNames DEF Assumed
<1>1. /\ exch["init"] \in Messages /\ exch["init"].kind = "refresh" /\ exch["init"] # Quiet
      /\ loading /\ req["me_init"] = "idle"
    BY DEF InitArrives, Answered, Quiet, SInv, SessionTypeOK, AccountTypeOK, PageInv
<1>2. CASE Granted("init", "refresh")
  <2>1. PICK t \in AccessTokens : t = exch["init"].token
      BY <1>1, <1>2, RefreshMessage DEF Granted
  <2>2. PICK m \in Messages : m = Call(t) /\ m.kind = "call"
      BY <2>1, Requests
  <2>3. /\ exch' = [exch EXCEPT !["init"] = Quiet, !["me_init"] = m]
        /\ req' = [req EXCEPT !["me_init"] = "sent"] /\ token' = t
        /\ UNCHANGED <<accountVars, sessions, cookie, place, loading, shown, fragment, retried,
                       refreshing, waiting>>
      BY <1>2, <2>1, <2>2 DEF InitArrives
  <2>4. /\ exch' = [d \in Channels |-> exch'[d]] /\ exch'["init"] = Quiet /\ exch'["me_init"] = m
        /\ \A d \in Channels \ {"init", "me_init"} : exch'[d] = exch[d]
      BY <2>3 DEF SInv, SessionTypeOK, AccountTypeOK
  <2>5. \A d \in Channels : exch'[d] \in Messages /\ (Checked(d)' => exch'[d] = exch[d])
      BY <2>2, <2>4, Requests DEF SInv, SessionTypeOK, AccountTypeOK, Checked
  <2>6. AuthTypes'
      BY <2>3, <2>4, <2>5, PageKeeps DEF SInv, SessionTypeOK, AuthTypes
  <2>7. /\ req' \in [Calls -> Statuses] /\ req'["me_init"] = "sent"
        /\ \A d \in Calls : d # "me_init" => req'[d] = req[d]
      BY <2>3 DEF SInv, SessionTypeOK, Statuses
  <2>8. waiting' \subseteq {d \in Calls : req'[d] = "waiting"}
      BY <1>1, <2>3, <2>7 DEF SInv, SessionTypeOK
  <2>9. PageInv'
    <3>1. \A d \in Calls : exch'[d] # Quiet => req'[d] = "sent"
        BY <2>4, <2>7 DEF SInv, PageInv
    <3>2. \A d \in Calls : Origin(d)' => Origin(d)
        BY <2>7 DEF Origin
    <3> QED BY <1>1, <2>3, <2>4, <3>1, <3>2 DEF SInv, PageInv
  <2> QED BY <2>3, <2>6, <2>7, <2>8, <2>9 DEF SInv, SessionTypeOK, AuthTypes
<1>3. CASE ~Granted("init", "refresh")
  <2>1. /\ AuthTypes' /\ exch'["init"] = Quiet
        /\ \A d \in Channels \ {"init"} : exch'[d] = exch[d]
      BY <1>3, Requests, PageAnswers DEF InitArrives, SInv, SessionTypeOK, AuthTypes
  <2>2. /\ UNCHANGED <<req, cookie, place, fragment, retried, refreshing, waiting>>
        /\ MeArrives("me_init", FALSE, Nobody)
      BY <1>3 DEF InitArrives
  <2>3. /\ shown' \in Users \cup {Nobody} /\ loading' \in BOOLEAN
        /\ token' \in AccessTokens \cup {NoToken}
      BY <2>2, MeTypes DEF SInv
  <2>4. PageInv'
      BY <1>1, <2>1, <2>2 DEF SInv, PageInv, Origin
  <2> QED BY <2>1, <2>2, <2>3, <2>4 DEF SInv, SessionTypeOK, AuthTypes
<1> QED BY <1>2, <1>3

(* The login form and the logout button.                                   *)
LEMMA FormPage ==
    ASSUME Assumed, SInv, NEW m \in Messages, Answer("form", m),
           m.kind = "none" \/ m.kind # "login" \/ m.at = "sent",
           UNCHANGED <<accountVars, sessions, place, loading, fragment, req, retried, refreshing, waiting>>,
           cookie' \in 0..MaxSessions, shown' \in Users \cup {Nobody},
           token' \in AccessTokens \cup {NoToken}
    PROVE  SInv'
<1> USE ChannelNames DEF Assumed
<1>1. /\ AuthTypes' /\ \A d \in Channels \ {"form"} : exch'[d] = exch[d]
    BY PageAnswers DEF SInv, SessionTypeOK, AuthTypes
<1>2. PageInv'
    BY <1>1 DEF SInv, PageInv, Origin
<1> QED BY <1>1, <1>2 DEF SInv, SessionTypeOK, AuthTypes

(* The answer to a login or to a logout.                                   *)
LEMMA FormArrivesPage ==
    ASSUME Assumed, SInv, FormArrives PROVE SInv'
<1>1. /\ cookie \in 0..MaxSessions /\ shown \in Users \cup {Nobody}
      /\ token \in AccessTokens \cup {NoToken} /\ NoSession \in 0..MaxSessions
      /\ Quiet \in Messages /\ Quiet.kind = "none"
    BY Requests DEF SInv, SessionTypeOK, Assumed, AuthAssumption, NoSession
<1>2. CASE SignedIn
  <2>1. exch["form"] \in Messages /\ exch["form"].kind = "login"
      BY <1>2, ChannelNames DEF SignedIn, Answered, SInv, SessionTypeOK, AccountTypeOK, Assumed
  <2>2. Granted("form", "login") =>
          /\ exch["form"].token \in AccessTokens /\ exch["form"].session \in 0..MaxSessions
          /\ exch["form"].token.user \in Users
      BY <2>1, LoginAnswer DEF Granted, AccessTokens, Assumed, AuthAssumption
  <2>3. /\ cookie' \in 0..MaxSessions /\ shown' \in Users \cup {Nobody}
        /\ token' \in AccessTokens \cup {NoToken}
      BY <1>1, <1>2, <2>2 DEF SignedIn
  <2> QED BY <1>1, <1>2, <2>3, FormPage DEF SignedIn
<1>3. CASE SignedOut
    BY <1>1, <1>3, FormPage DEF SignedOut
<1> QED BY <1>2, <1>3 DEF FormArrives

(* A form is submitted.                                                    *)
LEMMA SubmitPage ==
    ASSUME Assumed, SInv, (\E u \in Users : SubmitLogin(u)) \/ SubmitLogout PROVE SInv'
<1>1. /\ cookie \in 0..MaxSessions /\ shown \in Users \cup {Nobody}
      /\ token \in AccessTokens \cup {NoToken}
      /\ \A u \in Users : password[u] \in 0..(MaxResets + 1)
    BY DEF SInv, SessionTypeOK, AccountTypeOK
<1>2. CASE \E u \in Users : SubmitLogin(u)
  <2>1. PICK u \in Users : SubmitLogin(u)
      BY <1>2
  <2>2. PICK m \in Messages : m = Login(u) /\ m.at = "sent"
      BY <1>1, Requests DEF Assumed
  <2> QED BY <1>1, <2>1, <2>2, FormPage DEF SubmitLogin, pageVars
<1>3. CASE SubmitLogout
  <2>1. PICK m \in Messages : m = Logout(cookie) /\ m.kind = "logout"
      BY <1>1, Requests DEF Assumed
  <2> QED BY <1>1, <1>3, <2>1, FormPage DEF SubmitLogout, pageVars
<1> QED BY <1>2, <1>3

(* OAuth and the other tab.                                                *)
LEMMA AuthorizePage ==
    ASSUME Assumed, SInv, OAuthAuthorize PROVE SInv'
<1>1. /\ exch' = [d \in Channels |-> exch'[d]] /\ \A d \in Channels : exch'[d] = Quiet
    BY DEF OAuthAuthorize
<1>2. AuthTypes'
  <2>1. \A d \in Channels : exch'[d] \in Messages /\ ~Checked(d)'
      BY <1>1, Requests DEF Assumed, Checked
  <2> QED BY <1>1, <2>1, PageKeeps DEF OAuthAuthorize, SInv, SessionTypeOK, AuthTypes
<1>3. PageInv'
    BY <1>1, ChannelNames DEF Assumed, OAuthAuthorize, PageInv, Origin
<1> QED BY <1>2, <1>3 DEF SInv, SessionTypeOK, AuthTypes, OAuthAuthorize, Statuses

(* A page that has just loaded is in order, whatever was under way.        *)
LEMMA LoadsPage ==
    ASSUME Assumed, NEW c \in 0..MaxSessions, NEW t \in AccessTokens \cup {NoToken}, PageLoads(c, t)
    PROVE  /\ PageInv' /\ exch' = [d \in Channels |-> exch'[d]]
           /\ \A d \in Channels : exch'[d] \in Messages /\ ~Checked(d)'
           /\ place' \in {"app", "provider"} /\ shown' \in Users \cup {Nobody}
           /\ {token', fragment'} \subseteq AccessTokens \cup {NoToken}
           /\ req' \in [Calls -> Statuses] /\ retried' \subseteq Calls
           /\ waiting' = {} /\ {loading', refreshing'} \subseteq BOOLEAN
<1> USE ChannelNames DEF Assumed
<1>1. PICK m \in Messages : m = Refresh(c) /\ m.kind = "refresh"
    BY Requests
<1>2. PICK n \in Messages : n = Call(t) /\ n.kind = "call"
    BY Requests
<1>3. exch' = [d \in Channels |-> CASE d = "init" -> m
                                    [] d = "me_page" /\ t # NoToken -> n
                                    [] OTHER -> Quiet]
    BY <1>1, <1>2 DEF PageLoads
<1>4. /\ exch' = [d \in Channels |-> exch'[d]] /\ exch'["init"] = m
      /\ exch'["me_page"] = IF t # NoToken THEN n ELSE Quiet
      /\ \A d \in Channels \ {"init", "me_page"} : exch'[d] = Quiet
    BY <1>3
<1>5. \A d \in Channels : exch'[d] \in Messages /\ ~Checked(d)'
    BY <1>1, <1>2, <1>4, Requests DEF Checked
<1>6. /\ req' = [d \in Calls |-> IF d = "me_page" /\ t # NoToken THEN "sent" ELSE "idle"]
      /\ loading' = TRUE
    BY DEF PageLoads
<1>7. PageInv'
  <2>1. \A d \in Calls : exch'[d] # Quiet => req'[d] = "sent"
      BY <1>4, <1>6
  <2>2. \A d \in Calls : ~Origin(d)'
      BY <1>6 DEF Origin
  <2>3. req'["me_init"] = "idle"
      BY <1>6
  <2> QED BY <1>6, <2>1, <2>2, <2>3 DEF PageInv
<1>8. req' \in [Calls -> Statuses]
    BY <1>6 DEF Statuses
<1>9. /\ place' = "app" /\ shown' = Nobody /\ token' = t /\ fragment' = t
      /\ retried' = {} /\ refreshing' = FALSE /\ waiting' = {}
    BY DEF PageLoads
<1> QED BY <1>4, <1>5, <1>6, <1>7, <1>8, <1>9

(* oauth_callback opens a row, and the page loads with its token.          *)
LEMMA CallbackPage ==
    ASSUME Assumed, SInv, NEW u \in Users, OAuthCallback(u) PROVE SInv'
<1> USE DEF Assumed
<1>1. NewSession(u, NoPassword) /\ NoPassword \in 0..(MaxResets + 1)
    BY DEF OAuthCallback, OAuthAccount, AuthAssumption, NoPassword
<1>2. /\ sessions' \in Seq(Rows \cup {Revoked}) /\ Len(sessions') <= MaxSessions
      /\ Len(sessions) + 1 \in 1..MaxSessions
      /\ DOMAIN sessions' = DOMAIN sessions \cup {Len(sessions) + 1}
      /\ \A s \in DOMAIN sessions : sessions'[s] = sessions[s]
      /\ sessions'[Len(sessions) + 1] = [user |-> u, pw |-> NoPassword]
    BY <1>1, OpenedRow DEF SInv, SessionTypeOK, AccountTypeOK
<1>3. PICK c \in 0..MaxSessions : c = cookie' /\ PageLoads(c, Fresh(u))
  <2>1. Len(sessions) + 1 \in 0..MaxSessions
      BY <1>2, AuthAssumption DEF AuthAssumption
  <2> QED BY <2>1 DEF OAuthCallback
<1>4. Fresh(u) \in AccessTokens
    BY DEF Fresh, AccessTokens
<1>5. /\ PageInv' /\ exch' = [d \in Channels |-> exch'[d]]
      /\ \A d \in Channels : exch'[d] \in Messages /\ ~Checked(d)'
      /\ place' \in {"app", "provider"} /\ shown' \in Users \cup {Nobody}
      /\ {token', fragment'} \subseteq AccessTokens \cup {NoToken}
      /\ req' \in [Calls -> Statuses] /\ retried' \subseteq Calls
      /\ waiting' = {} /\ {loading', refreshing'} \subseteq BOOLEAN
    BY <1>3, <1>4, LoadsPage
<1>6. /\ account' = [account EXCEPT ![u] = "verified"] /\ UNCHANGED <<password, resetting>>
    BY DEF OAuthCallback, OAuthAccount
<1>7. AccountTypeOK'
    BY <1>2, <1>5, <1>6 DEF SInv, SessionTypeOK, AccountTypeOK
<1>8. ResetInv'
  <2>1. \A v \in Users : account'[v] = "absent" => account[v] = "absent"
      BY <1>6 DEF SInv, SessionTypeOK, AccountTypeOK
  <2>2. \A s \in DOMAIN sessions' :
           sessions'[s] # Revoked /\ sessions'[s].pw # NoPassword =>
              s \in DOMAIN sessions /\ sessions'[s] = sessions[s]
      BY <1>2
  <2> QED BY <1>5, <1>6, <2>1, <2>2, RowsKept DEF SInv
<1> QED BY <1>3, <1>5, <1>7, <1>8 DEF SInv, SessionTypeOK

(* The page loads without a token.                                         *)
LEMMA ReturnsPage ==
    ASSUME Assumed, SInv, PageReturns PROVE SInv'
<1>1. /\ cookie \in 0..MaxSessions /\ UNCHANGED <<accountVars, sessions, cookie>>
      /\ PageLoads(cookie, NoToken)
    BY DEF PageReturns, SInv, SessionTypeOK
<1>2. /\ PageInv' /\ exch' = [d \in Channels |-> exch'[d]]
      /\ \A d \in Channels : exch'[d] \in Messages /\ ~Checked(d)'
      /\ place' \in {"app", "provider"} /\ shown' \in Users \cup {Nobody}
      /\ {token', fragment'} \subseteq AccessTokens \cup {NoToken}
      /\ req' \in [Calls -> Statuses] /\ retried' \subseteq Calls
      /\ waiting' = {} /\ {loading', refreshing'} \subseteq BOOLEAN
    BY <1>1, LoadsPage
<1>3. AuthTypes'
    BY <1>1, <1>2, PageKeeps DEF SInv, SessionTypeOK, AuthTypes
<1> QED BY <1>1, <1>2, <1>3 DEF SInv, SessionTypeOK, AuthTypes

(* The other tab opens a row or revokes one.                               *)
LEMMA OtherPage ==
    ASSUME Assumed, SInv, (\E u \in Users : OtherSignsIn(u)) \/ OtherSignsOut PROVE SInv'
<1> USE DEF Assumed
<1>1. UNCHANGED <<accountVars, exch, pageVars>>
    BY DEF OtherSignsIn, OtherSignsOut
<1>2. PageInv'
    BY <1>1 DEF SInv, PageInv, Origin, pageVars
<1>3. \A d \in Channels : Checked(d)' => exch'[d] = exch[d]
    BY <1>1
<1>4. CASE \E u \in Users : OtherSignsIn(u)
  <2>1. PICK u \in Users : OtherSignsIn(u)
      BY <1>4
  <2>2. PICK p \in 0..(MaxResets + 1) : p = OpenedWith(u) /\ (p # NoPassword => Current(u, p))
      BY DEF OpenedWith, Current, NoPassword, SInv, SessionTypeOK, AccountTypeOK, AuthAssumption
  <2>3. NewSession(u, p) /\ cookie' = Len(sessions) + 1
      BY <2>1, <2>2 DEF OtherSignsIn
  <2>4. /\ sessions' \in Seq(Rows \cup {Revoked}) /\ Len(sessions') <= MaxSessions
        /\ Len(sessions) + 1 \in 1..MaxSessions
        /\ DOMAIN sessions' = DOMAIN sessions \cup {Len(sessions) + 1}
        /\ \A s \in DOMAIN sessions : sessions'[s] = sessions[s]
        /\ sessions'[Len(sessions) + 1] = [user |-> u, pw |-> p]
      BY <2>3, OpenedRow DEF SInv, SessionTypeOK, AccountTypeOK
  <2>5. \A s \in DOMAIN sessions' :
           sessions'[s] # Revoked /\ sessions'[s].pw # NoPassword =>
              \/ s \in DOMAIN sessions /\ sessions'[s] = sessions[s]
              \/ Current(sessions'[s].user, sessions'[s].pw)
      BY <2>2, <2>4
  <2>6. ResetInv'
      BY <1>1, <1>3, <2>5, ResetKept DEF SInv
  <2>7. cookie' \in 0..MaxSessions
      BY <2>3, <2>4 DEF AuthAssumption
  <2> QED BY <1>1, <1>2, <2>4, <2>6, <2>7
          DEF SInv, SessionTypeOK, AccountTypeOK, accountVars, pageVars
<1>5. CASE OtherSignsOut
  <2>1. sessions' = RevokeRows({cookie}) /\ cookie' = NoSession
      BY <1>5 DEF OtherSignsOut, LogoutUser
  <2>2. /\ sessions' \in Seq(Rows \cup {Revoked}) /\ Len(sessions') = Len(sessions)
        /\ DOMAIN sessions' = DOMAIN sessions
        /\ \A s \in DOMAIN sessions : sessions'[s] # Revoked => sessions'[s] = sessions[s]
      BY <2>1, RevokedRows DEF SInv, SessionTypeOK, AccountTypeOK
  <2>3. ResetInv'
      BY <1>1, <1>3, <2>2, ResetKept DEF SInv
  <2>4. cookie' \in 0..MaxSessions
      BY <2>1 DEF AuthAssumption, NoSession
  <2> QED BY <1>1, <1>2, <2>2, <2>3, <2>4
          DEF SInv, SessionTypeOK, AccountTypeOK, accountVars, pageVars
<1> QED BY <1>4, <1>5

-----------------------------------------------------------------------------
(* SessionSpec keeps the types of AuthService and of the page, that        *)
(* sessions go by a current password unless a reset could not see them     *)
(* (reset_password's select), and that each request of the page is in one  *)
(* place (the interceptors of api.ts).                                     *)
THEOREM SessionInvariance == SessionSpec => []SInv
<1> USE AuthAssumption, ChannelsAssumption DEF Assumed
<1>1. SessionInit => SInv
  <2> SUFFICES ASSUME SessionInit PROVE SInv
      OBVIOUS
  <2> USE DEF SessionInit, AuthInit
  <2>1. AccountTypeOK
    <3>1. 0 \in 0..MaxSessions /\ {0, 1} \subseteq 0..(MaxResets + 1)
        BY DEF AuthAssumption
    <3>2. exch \in [Channels -> Messages]
        BY Requests
    <3>3. sessions \in Seq(Rows \cup {Revoked}) /\ Len(sessions) <= MaxSessions
        BY DEF AuthAssumption
    <3> QED BY <3>1, <3>2, <3>3 DEF AccountTypeOK, NoReset
  <2>2. SessionTypeOK
    <3>1. NoSession \in 0..MaxSessions
        BY DEF AuthAssumption, NoSession
    <3>2. req \in [Calls -> Statuses]
        BY DEF Statuses
    <3> QED BY <2>1, <3>1, <3>2 DEF SessionTypeOK
  <2>3. ResetInv
    <3>1. \A c \in Channels : ~Checked(c)
        BY Requests DEF Checked
    <3>2. DOMAIN sessions = {}
        OBVIOUS
    <3> QED BY <3>1, <3>2 DEF ResetInv
  <2>4. PageInv
      BY ChannelNames DEF PageInv, Origin
  <2> QED BY <2>2, <2>3, <2>4 DEF SInv
<1>2. SInv /\ [SessionNext]_sessionVars => SInv'
  <2> SUFFICES ASSUME SInv, [SessionNext]_sessionVars PROVE SInv'
      OBVIOUS
  <2>1. CASE UNCHANGED sessionVars
      BY <2>1 DEF sessionVars, serverVars, pageVars, SInv, SessionTypeOK, AccountTypeOK, ResetInv,
                  PageInv, Checked, Live, Origin
  <2>2. CASE SessionNext
      BY <2>2, ServerPage, ExpirePage, SendPage, ArrivesPage, RefreshedPage, RefreshFailedPage,
         InitPage, FormArrivesPage, SubmitPage, AuthorizePage, CallbackPage, ReturnsPage, OtherPage
         DEF SessionNext, RefreshArrives
  <2> QED BY <2>1, <2>2
<1> QED BY <1>1, <1>2, PTL DEF SessionSpec

(* A session that outlives a reset of its account's password was opened    *)
(* with the new one, or by a login that overlapped the reset.              *)
THEOREM SurvivorsOverlap == SessionSpec => []SurvivorsOverlapReset
<1>1. SInv => SurvivorsOverlapReset
    BY DEF SInv, ResetInv, SurvivorsOverlapReset
<1> QED BY <1>1, SessionInvariance, PTL

(* One step of a page that has loaded.                                     *)
LEMMA MixedStep ==
    ASSUME Assumed, SInv, SessionNext, Loaded, ~Mixed, Mixed'
    PROVE  Granted("refresh", "refresh") /\ exch["refresh"].token = token'
<1> USE ChannelNames DEF Assumed
<1>1. /\ req["me_init"] = "idle" /\ exch["init"] = Quiet
      /\ exch["me_init"] = Quiet /\ exch["me_page"] = Quiet
    BY DEF Loaded, SInv, PageInv
<1>2. ASSUME token' = token, shown' = shown PROVE FALSE
    BY <1>2 DEF Mixed
<1>3. token' # NoToken /\ shown' # Nobody /\ token'.user # shown'
    BY DEF Mixed
<1>4. CASE TokensExpire
  <2>1. token \in AccessTokens \cup {NoToken}
      BY DEF SInv, SessionTypeOK
  <2>2. token'.user = token.user /\ token # NoToken
      BY <1>3, <1>4, <2>1, ExpiredToken DEF TokensExpire
  <2> QED BY <1>3, <1>4, <2>2 DEF TokensExpire, Mixed
<1>5. ASSUME NEW c \in Calls, Arrives(c) PROVE FALSE
  <2>1. exch[c] # Quiet
    <3>1. exch[c].kind = "call"
        BY <1>5 DEF Arrives, Delivered, Rejected, Subscribe, StartRefresh, Granted, Answered
    <3> QED BY <3>1, Requests
  <2>2. c # "me_init" /\ c # "me_page"
      BY <1>1, <2>1
  <2>3. token' = token /\ shown' = shown
      BY <1>5, <2>2 DEF Arrives, Delivered, Rejected, Subscribe, StartRefresh, MeArrives
  <2> QED BY <1>2, <2>3
<1>6. CASE RefreshArrives
  <2>1. ~Origin("me_init")
      BY <1>1 DEF Origin
  <2>2. ~RefreshFailed
      BY <1>3, <2>1 DEF RefreshFailed
  <2> QED BY <1>6, <2>2 DEF RefreshArrives, Refreshed
<1>7. ~InitArrives
    BY <1>1 DEF InitArrives, Answered, Quiet
<1>8. ~FormArrives
    BY <1>2, <1>3 DEF FormArrives, SignedIn, SignedOut
<1>9. ~(OAuthAuthorize \/ PageReturns \/ \E u \in Users : OAuthCallback(u))
    BY <1>3 DEF OAuthAuthorize, PageReturns, OAuthCallback, PageLoads
<1>10. CASE \/ ServerStep /\ ServerOnly
            \/ \E d \in Data : Send(d)
            \/ \E u \in Users : SubmitLogin(u) \/ OtherSignsIn(u)
            \/ SubmitLogout \/ OtherSignsOut
  <2>1. token' = token /\ shown' = shown
      BY <1>10 DEF ServerOnly, Send, SubmitLogin, OtherSignsIn, SubmitLogout, OtherSignsOut, pageVars
  <2> QED BY <1>2, <2>1
<1> QED BY <1>4, <1>5, <1>6, <1>7, <1>8, <1>9, <1>10 DEF SessionNext

(* A page that has loaded comes to show one account and to act for another *)
(* only by the answer to a refresh (the interceptor of api.ts).            *)
THEOREM OnlyRefreshMixes == SessionSpec => OnlyRefreshMixesUsers
<1>1. SInv /\ [SessionNext]_sessionVars =>
         [Loaded /\ ~Mixed /\ Mixed' =>
            Granted("refresh", "refresh") /\ exch["refresh"].token = token']_sessionVars
    BY MixedStep, AuthAssumption, ChannelsAssumption DEF Assumed
<1> QED BY <1>1, SessionInvariance, PTL DEF SessionSpec, OnlyRefreshMixesUsers

-----------------------------------------------------------------------------
(* The chat of a page.                                                     *)

(* The largest element of a finite set of numbers.                         *)
LEMMA LargestIn ==
    ASSUME NEW S, IsFiniteSet(S), S \subseteq Nat, S # {}
    PROVE  Max(S) \in S /\ \A y \in S : Max(S) >= y
<1> DEFINE Above(x) == {y \in S : y > x}
<1> DEFINE T == {Above(x) : x \in S}
<1>1. IsWellFoundedOn(StrictSubsetOrdering(S), SUBSET S)
    BY FS_StrictSubsetOrderingWellFounded, FS_FiniteSubsetsOfFinite
<1>2. T \subseteq SUBSET S /\ T # {}
    OBVIOUS
<1>3. PICK U \in T : \A V \in T : ~(<<V, U>> \in StrictSubsetOrdering(S))
  <2> HIDE DEF T
  <2> QED BY <1>1, <1>2, WFMin
<1>4. PICK x \in S : U = Above(x)
    OBVIOUS
<1>5. ASSUME NEW y \in S PROVE x >= y
  <2> SUFFICES ASSUME ~(x >= y) PROVE FALSE
      OBVIOUS
  <2>1. x \in Nat /\ y \in Nat /\ y > x
      OBVIOUS
  <2>2. Above(y) \in T
      OBVIOUS
  <2>3. Above(y) \subseteq Above(x)
    <3> SUFFICES ASSUME NEW z \in Above(y) PROVE z \in Above(x)
        OBVIOUS
    <3>1. z \in S /\ z \in Nat /\ z > y
        OBVIOUS
    <3> QED BY <2>1, <3>1
  <2>4. y \in Above(x) /\ y \notin Above(y)
      BY <2>1
  <2>5. <<Above(y), U>> \in StrictSubsetOrdering(S)
      BY <1>4, <2>3, <2>4 DEF StrictSubsetOrdering
  <2> QED BY <1>3, <2>2, <2>5
<1> HIDE DEF Above, T
<1> QED BY <1>5 DEF Max

(* What is empty, idle or absent is told from what is not.                 *)
LEMMA ChatAbsent ==
    /\ NoStream.at = "none" /\ NoFetch.at = "none" /\ Idle.kind = "idle" /\ NoCard.run = NoRun
    /\ \A e \in {NoStream} \cup Streams : e # NoStream => e \in Streams /\ e.at # "none"
    /\ \A q \in {Idle} \cup RequestRecords : q.kind # "idle" => q \in RequestRecords
    /\ \A f \in {NoFetch} \cup [at : {"sent"}] \cup [at : {"read"}, data : Knowledge] :
          f.at = "read" => f.data \in Knowledge
BY DEF NoStream, NoFetch, Idle, NoCard, NoRun, Streams, RequestRecords

(* A table of runs only grows, its runs stay in their threads and past     *)
(* their interrupts.                                                       *)
ChatGrows ==
    /\ DOMAIN runs \subseteq DOMAIN runs'
    /\ \A r \in DOMAIN runs : runs'[r].thread = runs[r].thread /\ (Past(r) => Past(r)')

(* A run is known by its place in the table, which is bounded.             *)
LEMMA ChatRunIds ==
    ASSUME RowsInv, WorkbenchAssumption PROVE DOMAIN runs \subseteq RunIds /\ NoRun \notin DOMAIN runs
<1>1. PICK l \in Nat : l = Len(runs) /\ DOMAIN runs = 1..l
    BY DEF RowsInv
<1> QED BY <1>1 DEF RowsInv, RunIds, WorkbenchAssumption, NoRun

(* What is known of a thread stays true.                                   *)
LEMMA KnowsKept ==
    ASSUME ChatGrows, NEW k, NEW t, Knows(k, t) PROVE Knows(k, t)'
BY DEF ChatGrows, Knows, RunOf

(* A run stays in its thread.                                              *)
LEMMA RunOfKept ==
    ASSUME ChatGrows, NEW r, NEW t, RunOf(r, t) PROVE RunOf(r, t)'
BY DEF ChatGrows, RunOf

(* A run that is past its interrupt stays so.                              *)
LEMMA PastKept ==
    ASSUME ChatGrows, NEW r, Past(r) PROVE Past(r)'
BY DEF ChatGrows, Past

(* One row changes.                                                        *)
WithRow(r, x) == [runs EXCEPT ![r] = x]

(* The table stays in order if the row does.                               *)
LEMMA RowChanges ==
    ASSUME RowsInv, NEW r \in DOMAIN runs, NEW x \in RunRecords, x.thread = runs[r].thread,
           Past(r) \/ x.row = "interrupted" => x.queue \in {"over", "gone"},
           runs' = [runs EXCEPT ![r] = x]
    PROVE  RowsInv' /\ ChatGrows /\ runs'[r] = x
<1>1. /\ runs' \in Seq(RunRecords) /\ Len(runs') = Len(runs) /\ DOMAIN runs' = DOMAIN runs
      /\ runs'[r] = x /\ \A s \in DOMAIN runs : s # r => runs'[s] = runs[s]
    BY DEF RowsInv
<1>2. \A s \in DOMAIN runs : Past(s) => Past(s)'
    BY <1>1 DEF Past
<1>3. \A s \in DOMAIN runs : runs'[s].row = "interrupted" => Past(s)'
    BY <1>1, <1>2 DEF Past, RowsInv
<1> QED BY <1>1, <1>2, <1>3 DEF RowsInv, ChatGrows

(* What the finally clause of a stream writes.                             *)
LEMMA SavedRow ==
    ASSUME RowsInv, NEW r \in DOMAIN runs, NEW saw, saw => Past(r)
    PROVE  \E x \in RunRecords : /\ Saved(r, saw) = WithRow(r, x)
                                 /\ x.thread = runs[r].thread /\ x.queue = runs[r].queue
                                 /\ x.row = "interrupted" => Past(r)
<1>1. runs[r] \in RunRecords
    BY DEF RowsInv
<1>2. PICK w \in {"cancelled", "interrupted", "completed"} :
         /\ Saved(r, saw) = [runs EXCEPT ![r] = [runs[r] EXCEPT !.row = w]]
         /\ w = "interrupted" => Past(r)
    BY DEF Saved
<1>3. PICK x : x = [runs[r] EXCEPT !.row = w]
    OBVIOUS
<1>4. x \in RunRecords /\ x.thread = runs[r].thread /\ x.queue = runs[r].queue /\ x.row = w
    BY <1>1, <1>3 DEF RunRecords
<1>5. Saved(r, saw) = WithRow(r, x)
    BY <1>2, <1>3 DEF WithRow
<1> QED BY <1>2, <1>4, <1>5

(* A stream that is left is saved as interrupted only if it saw the        *)
(* interrupt.                                                              *)
LEMMA LeaveRows ==
    ASSUME RowsInv, StreamInv, LeaveStream PROVE RowsInv' /\ ChatGrows
<1>1. CASE UNCHANGED runs
    BY <1>1 DEF RowsInv, ChatGrows, Past
<1>2. CASE es # NoStream /\ runs' = Saved(es.run, es.saw)
  <2>1. PICK r \in DOMAIN runs : r = es.run /\ (es.saw => Past(r))
      BY <1>2, ChatAbsent DEF StreamInv, Streams, RunIds, NoRun
  <2>2. PICK s : s = es.saw /\ (s => Past(r))
      BY <2>1
  <2>3. PICK x \in RunRecords : /\ Saved(r, s) = WithRow(r, x)
                                /\ x.thread = runs[r].thread /\ x.queue = runs[r].queue
                                /\ x.row = "interrupted" => Past(r)
      BY <2>1, <2>2, SavedRow
  <2>4. runs' = [runs EXCEPT ![r] = x]
      BY <1>2, <2>1, <2>2, <2>3 DEF WithRow
  <2> QED BY <2>3, <2>4, RowChanges DEF Past
<1> QED BY <1>1, <1>2 DEF LeaveStream

(* So is one that is left for another.                                     *)
LEMMA FollowRows ==
    ASSUME RowsInv, StreamInv, NEW t, NEW r, Follow(t, r) PROVE RowsInv' /\ ChatGrows
<1>1. UNCHANGED runs => LeaveStream
    BY DEF LeaveStream
<1> QED BY <1>1, LeaveRows DEF Follow, OpenStream

(* The rows of the runs, in every step.                                    *)
LEMMA ChatRowsStep ==
    ASSUME WorkbenchAssumption, WInv, [ChatNext]_chatVars PROVE RowsInv' /\ ChatGrows
<1> USE DEF WInv
<1>1. CASE UNCHANGED runs
    BY <1>1 DEF RowsInv, ChatGrows, Past
<1>2. ASSUME NEW t, NEW r, Follow(t, r) PROVE RowsInv' /\ ChatGrows
    BY <1>2, FollowRows
<1>3. CASE LeaveStream
    BY <1>3, LeaveRows
<1>4. ASSUME NEW m \in Slots, StartRun(m) PROVE RowsInv' /\ ChatGrows
  <2>1. PICK t \in Threads : t = request[m].thread
    <3>1. request[m].kind = "run" \/ request[m].kind = "resume"
        BY <1>4 DEF StartRun, Sent
    <3> QED BY <3>1 DEF RequestInv
  <2>2. PICK x \in RunRecords : x = NewRun(t) /\ x.row = "running"
    <3>1. NewRun(t) \in RunRecords /\ NewRun(t).row = "running"
        BY <2>1 DEF NewRun, RunRecords
    <3> QED BY <3>1
  <2>3. PICK l \in Nat : l = Len(runs) /\ DOMAIN runs = 1..l
      BY DEF RowsInv
  <2>4. runs' = Append(runs, x) /\ l < MaxRuns
      BY <1>4, <2>1, <2>2, <2>3 DEF StartRun
  <2>5. /\ runs' \in Seq(RunRecords) /\ Len(runs') = l + 1 /\ DOMAIN runs' = 1..(l + 1)
        /\ runs'[l + 1] = x /\ \A r \in DOMAIN runs : runs'[r] = runs[r]
      BY <2>3, <2>4 DEF RowsInv
  <2>6. l + 1 <= MaxRuns /\ \A r \in DOMAIN runs' : r \in DOMAIN runs \/ r = l + 1
      BY <2>3, <2>4, <2>5 DEF WorkbenchAssumption
  <2>7. DOMAIN runs \subseteq DOMAIN runs'
      BY <2>3, <2>5
  <2> QED BY <2>2, <2>5, <2>6, <2>7 DEF RowsInv, ChatGrows, Past
<1>5. ASSUME NEW m \in Slots, StopRun(m) PROVE RowsInv' /\ ChatGrows
  <2>1. CASE request[m].of \in DOMAIN runs
    <3>1. PICK r \in DOMAIN runs : r = request[m].of
        BY <2>1
    <3>2. PICK x : x = [runs[r] EXCEPT !.row = "cancelled", !.queue = "gone"]
        OBVIOUS
    <3>3. runs[r] \in RunRecords
        BY DEF RowsInv
    <3>4. x \in RunRecords /\ x.thread = runs[r].thread /\ x.queue = "gone"
        BY <3>2, <3>3 DEF RunRecords
    <3>5. runs' = [runs EXCEPT ![r] = x]
        BY <1>5, <3>1, <3>2 DEF StopRun
    <3> QED BY <3>4, <3>5, RowChanges
  <2>2. CASE request[m].of \notin DOMAIN runs
      BY <1>1, <1>5, <2>2 DEF StopRun, RowsInv
  <2> QED BY <2>1, <2>2
<1>6. ASSUME NEW r \in DOMAIN runs, TaskEnds(r) PROVE RowsInv' /\ ChatGrows
  <2>1. PICK q \in {"over", "asks"} : runs' = [runs EXCEPT ![r].queue = q]
      BY <1>6 DEF TaskEnds
  <2>2. runs[r] \in RunRecords /\ ~Past(r) /\ runs[r].row # "interrupted"
      BY <1>6 DEF TaskEnds, RowsInv, Past
  <2>3. PICK x : x = [runs[r] EXCEPT !.queue = q]
      OBVIOUS
  <2>4. x \in RunRecords /\ x.thread = runs[r].thread /\ x.row = runs[r].row
      BY <2>2, <2>3 DEF RunRecords
  <2> QED BY <2>1, <2>2, <2>3, <2>4, RowChanges
<1>7. CASE StreamEnds
  <2>1. PICK r \in DOMAIN runs : r = es.run /\ (es.saw => Past(r))
      BY <1>7, ChatAbsent DEF StreamEnds, StreamInv, Streams, RunIds, NoRun
  <2>2. PICK s : s = es.saw /\ (s => Past(r))
      BY <2>1
  <2>3. PICK x \in RunRecords : Saved(r, s) = WithRow(r, x) /\ x.thread = runs[r].thread
      BY <2>1, <2>2, SavedRow
  <2>4. PICK y : y = [x EXCEPT !.queue = "gone"]
      OBVIOUS
  <2>5. y \in RunRecords /\ y.thread = runs[r].thread /\ y.queue = "gone"
      BY <2>3, <2>4 DEF RunRecords
  <2>6. runs' = [runs EXCEPT ![r] = y]
    <3>1. runs' = [[runs EXCEPT ![r] = x] EXCEPT ![r].queue = "gone"]
        BY <1>7, <2>1, <2>3, <2>2 DEF StreamEnds, WithRow
    <3> QED BY <2>4, <3>1 DEF RowsInv
  <2> QED BY <2>5, <2>6, RowChanges
<1>8. ASSUME es # NoStream, InterruptArrives PROVE RowsInv' /\ ChatGrows
  <2>1. PICK r \in DOMAIN runs : r = es.run
      BY <1>8, ChatAbsent DEF StreamInv, Streams, RunIds, NoRun
  <2>2. runs[r] \in RunRecords
      BY DEF RowsInv
  <2>3. PICK x : x = [runs[r] EXCEPT !.queue = "over"]
      OBVIOUS
  <2>4. x \in RunRecords /\ x.thread = runs[r].thread /\ x.queue = "over"
      BY <2>2, <2>3 DEF RunRecords
  <2>5. runs' = [runs EXCEPT ![r] = x]
      BY <1>8, <2>1, <2>3 DEF InterruptArrives
  <2> QED BY <2>4, <2>5, RowChanges
<1>9. CASE StreamStep
    BY <1>1, <1>3, <1>8, <1>9 DEF StreamStep, EventArrives, ConnectionLost, Reconnects
<1>10. ASSUME NEW m \in Slots, AnswerArrives(m) PROVE RowsInv' /\ ChatGrows
    BY <1>1, <1>2, <1>3, <1>10
    DEF AnswerArrives, ThreadCreated, RunCreated, Resumed, Cancelled, OpenStream, RequestFails, server
<1>11. ASSUME NEW t, QueryReads(t) \/ QueryArrives(t) PROVE RowsInv' /\ ChatGrows
    BY <1>1, <1>2, <1>11 DEF QueryReads, QueryArrives, server
<1>12. ASSUME NEW t, SwitchThread(t) PROVE RowsInv' /\ ChatGrows
    BY <1>2, <1>12 DEF SwitchThread
<1>13. ASSUME NEW m, NEW t, SendMessage(m) \/ ResumeInterrupt(m) \/ CancelRun(m) \/ CreateThread(m, t)
       PROVE  RowsInv' /\ ChatGrows
    BY <1>1, <1>13 DEF SendMessage, ResumeInterrupt, CancelRun, CreateThread, server
<1>14. CASE UNCHANGED chatVars
    BY <1>1, <1>14 DEF chatVars, server
<1>15. CASE ChatNext
  <2>1. CASE \E m \in Slots : SendMessage(m) \/ ResumeInterrupt(m) \/ CancelRun(m)
                              \/ \E t \in Threads : CreateThread(m, t)
      BY <1>13, <2>1
  <2> QED BY <1>4, <1>5, <1>6, <1>7, <1>9, <1>10, <1>11, <1>12, <1>15, <2>1 DEF ChatNext
<1> QED BY <1>14, <1>15

(* What the server reads of a thread is of that thread.                    *)
LEMMA NewestRow ==
    ASSUME WorkbenchAssumption, RowsInv, NEW S, S \subseteq DOMAIN runs
    PROVE  Max(S \cup {NoRun}) \in S \cup {NoRun}
<1>1. PICK l \in Nat : l = Len(runs) /\ DOMAIN runs = 1..l
    BY DEF RowsInv
<1>2. IsFiniteSet(1..l)
    BY FS_Interval
<1>3. IsFiniteSet(S)
    BY <1>1, <1>2, FS_Subset
<1>4. IsFiniteSet(S \cup {NoRun})
    BY <1>3, FS_AddElement
<1>5. S \cup {NoRun} \subseteq Nat /\ S \cup {NoRun} # {}
    BY <1>1 DEF NoRun
<1> QED BY <1>4, <1>5, LargestIn

(* get_thread and get_thread_messages: a run that waits is past its        *)
(* interrupt, as its queue is.                                             *)
LEMMA ServerKnows ==
    ASSUME WorkbenchAssumption, RowsInv, NEW t \in Threads
    PROVE  LET k == [active |-> ActiveRow(t), pending |-> PendingRow(t)]
           IN  k \in Knowledge /\ Knows(k, t)
<1> DEFINE R == {r \in DOMAIN runs : runs[r].thread = t /\ runs[r].row = "running"}
           L == {r \in DOMAIN runs : runs[r].thread = t}
<1>1. R \subseteq DOMAIN runs /\ L \subseteq DOMAIN runs
    OBVIOUS
<1>2. ActiveRow(t) = Max(R \cup {NoRun}) /\ Last(t) = Max(L \cup {NoRun})
    BY DEF ActiveRow, Last
<1> HIDE DEF R, L
<1>3. ActiveRow(t) \in R \cup {NoRun} /\ Last(t) \in L \cup {NoRun}
    BY <1>1, <1>2, NewestRow
<1>4. ActiveRow(t) # NoRun => RunOf(ActiveRow(t), t)
    BY <1>3 DEF R, RunOf
<1>5. PendingRow(t) # NoRun => RunOf(PendingRow(t), t) /\ Past(PendingRow(t))
    BY <1>3 DEF L, RunOf, PendingRow, RowsInv
<1>6. ActiveRow(t) \in RunIds \cup {NoRun} /\ PendingRow(t) \in RunIds \cup {NoRun}
    BY <1>4, <1>5, ChatRunIds DEF RunOf
<1> QED BY <1>4, <1>5, <1>6 DEF Knowledge, Knows

Fetches == {NoFetch} \cup [at : {"sent"}] \cup [at : {"read"}, data : Knowledge]

(* The cache and the answers under way, in every step.                     *)
LEMMA CacheKeeps ==
    ASSUME CacheInv, ChatGrows, cached' \in [Threads -> Knowledge], fetch' \in [Threads -> Fetches],
           \A t \in Threads :
              /\ cached'[t] = cached[t] \/ Knows(cached'[t], t)
              /\ fetch'[t].at = "read" => fetch'[t] = fetch[t] \/ Knows(fetch'[t].data, t)
    PROVE  CacheInv'
<1>1. ASSUME NEW t \in Threads PROVE Knows(cached[t], t)'
  <2>1. PICK k : k = cached'[t] /\ Knows(k, t)
      BY <1>1 DEF CacheInv
  <2>2. Knows(k, t)'
      BY <2>1, KnowsKept
  <2> QED BY <2>1, <2>2 DEF Knows
<1>2. ASSUME NEW t \in Threads, fetch'[t].at = "read" PROVE Knows(fetch[t].data, t)'
  <2>1. PICK k : k = fetch'[t].data /\ Knows(k, t)
      BY <1>2 DEF CacheInv
  <2>2. Knows(k, t)'
      BY <2>1, KnowsKept
  <2> QED BY <2>1, <2>2 DEF Knows
<1> QED BY <1>1, <1>2 DEF CacheInv, Fetches

(* The cache, in every step.                                               *)
LEMMA CacheStep ==
    ASSUME WorkbenchAssumption, WInv, [ChatNext]_chatVars PROVE CacheInv'
<1> USE DEF WInv
<1>1. ChatGrows /\ threads \subseteq Threads /\ fetch \in [Threads -> Fetches] /\ cached \in [Threads -> Knowledge]
    BY ChatRowsStep DEF ChatTypeOK, CacheInv, Fetches
<1>2. CASE UNCHANGED queries
    BY <1>1, <1>2, CacheKeeps DEF queries
<1>3. ASSUME NEW t \in Threads \cup {NoThread}, Refetch(t), cached' = cached PROVE CacheInv'
  <2>1. fetch' \in [Threads -> Fetches] /\ \A s \in Threads : fetch'[s].at = "read" => fetch'[s] = fetch[s]
      BY <1>1, <1>3 DEF Refetch, Fetches
  <2> QED BY <1>1, <1>3, <2>1, CacheKeeps
<1>4. ASSUME NEW t \in threads, QueryReads(t) PROVE CacheInv'
  <2>1. PICK k \in Knowledge : k = [active |-> ActiveRow(t), pending |-> PendingRow(t)] /\ Knows(k, t)
      BY <1>1, ServerKnows
  <2>2. fetch' = [fetch EXCEPT ![t] = [at |-> "read", data |-> k]] /\ cached' = cached
      BY <1>4, <2>1 DEF QueryReads
  <2>3. /\ fetch' \in [Threads -> Fetches] /\ fetch'[t].data = k
        /\ \A s \in Threads : s # t => fetch'[s] = fetch[s]
      BY <1>1, <2>2 DEF Fetches
  <2> QED BY <1>1, <2>1, <2>2, <2>3, CacheKeeps
<1>5. ASSUME NEW t \in threads, QueryArrives(t) PROVE CacheInv'
  <2>1. PICK k \in Knowledge : k = fetch[t].data /\ Knows(k, t)
      BY <1>1, <1>5, ChatAbsent DEF QueryArrives, CacheInv
  <2>2. fetch' = [fetch EXCEPT ![t] = NoFetch] /\ cached' = [cached EXCEPT ![t] = k]
      BY <1>5, <2>1 DEF QueryArrives
  <2>3. fetch' \in [Threads -> Fetches] /\ \A s \in Threads : fetch'[s].at = "read" => fetch'[s] = fetch[s]
      BY <1>1, <2>2, ChatAbsent DEF Fetches
  <2>4. cached' \in [Threads -> Knowledge] /\ \A s \in Threads : cached'[s] = cached[s] \/ Knows(cached'[s], s)
      BY <1>1, <2>1, <2>2
  <2> QED BY <1>1, <2>3, <2>4, CacheKeeps
<1>6. ASSUME NEW t \in threads \cup {NoThread}, SwitchThread(t) PROVE CacheInv'
    BY <1>1, <1>3, <1>6 DEF SwitchThread
<1>7. ASSUME NEW m \in Slots, ThreadCreated(m) PROVE CacheInv'
  <2>1. request[m].thread \in threads
      BY <1>7 DEF ThreadCreated, Applied, RequestInv
  <2> QED BY <1>1, <1>3, <1>7, <2>1 DEF ThreadCreated
<1>8. ASSUME NEW m, RunCreated(m) \/ Resumed(m) \/ Cancelled(m) \/ RequestFails(m) \/ StartRun(m) \/ StopRun(m)
      PROVE  CacheInv'
    BY <1>2, <1>8 DEF RunCreated, Resumed, Cancelled, RequestFails, StartRun, StopRun
<1>9. ASSUME NEW m, NEW t, SendMessage(m) \/ ResumeInterrupt(m) \/ CancelRun(m) \/ CreateThread(m, t)
      PROVE  CacheInv'
    BY <1>2, <1>9 DEF SendMessage, ResumeInterrupt, CancelRun, CreateThread
<1>10. ASSUME NEW r, TaskEnds(r) PROVE CacheInv'
    BY <1>2, <1>10 DEF TaskEnds
<1>11. CASE StreamEnds \/ StreamStep
    BY <1>2, <1>11 DEF StreamEnds, StreamStep, EventArrives, InterruptArrives, ConnectionLost, Reconnects, StreamOnly
<1>12. CASE UNCHANGED chatVars
    BY <1>2, <1>12 DEF chatVars
<1>13. CASE ChatNext
  <2>1. CASE \E m \in Slots : SendMessage(m) \/ ResumeInterrupt(m) \/ CancelRun(m)
                              \/ \E t \in Threads : CreateThread(m, t)
      BY <1>9, <2>1
  <2> QED BY <1>4, <1>5, <1>6, <1>7, <1>8, <1>10, <1>11, <1>13, <2>1 DEF ChatNext, AnswerArrives
<1> QED BY <1>12, <1>13

-----------------------------------------------------------------------------
(* The stream that is followed is that of the active run, of a page at a   *)
(* thread.                                                                 *)
LEMMA StreamKeeps ==
    ASSUME WorkbenchAssumption, RowsInv, ChatGrows, StreamInv, activeRun' = activeRun, thread' = thread,
           es' \in {NoStream} \cup Streams, es' # NoStream => es # NoStream /\ es'.run = es.run,
           es' # NoStream => (es'.saw => es.saw \/ Past(es.run)')
    PROVE  StreamInv'
<1>1. ASSUME es' # NoStream, es'.saw PROVE Past(es.run)'
  <2>1. PICK r : r = es.run /\ (es.saw => Past(r)) /\ (es'.saw => es.saw \/ Past(r)')
      BY <1>1 DEF StreamInv, Past
  <2>2. Past(r)'
      BY <1>1, <2>1, PastKept
  <2> QED BY <1>1, <2>1, <2>2 DEF Past
<1> QED BY <1>1 DEF StreamInv, ChatGrows

(* A page turns to a run it knows, or to none.                             *)
LEMMA OpenKeeps ==
    ASSUME WorkbenchAssumption, RowsInv, ChatGrows,
           NEW t \in Threads \cup {NoThread}, thread' = t,
           NEW r \in DOMAIN runs \cup {NoRun}, activeRun' = r, es' = Stream(t, r)
    PROVE  StreamInv'
<1>1. r \in RunIds \cup {NoRun} /\ (r # NoRun => r \in DOMAIN runs')
    BY ChatRunIds DEF ChatGrows
<1>2. es' \in {NoStream} \cup Streams
    BY <1>1 DEF Stream, Streams
<1>3. es' # NoStream => t # NoThread /\ es'.run = r /\ ~es'.saw
    BY DEF Stream
<1> QED BY <1>1, <1>2, <1>3 DEF StreamInv

(* useSSE follows a run of the table, or nothing.                          *)
LEMMA FollowKeeps ==
    ASSUME WorkbenchAssumption, RowsInv, ChatGrows, StreamInv,
           NEW t \in Threads \cup {NoThread}, thread' = t,
           NEW r \in DOMAIN runs \cup {NoRun}, Follow(t, r)
    PROVE  StreamInv'
<1>1. CASE es' = Stream(t, r)
    BY <1>1, OpenKeeps DEF Follow
<1>2. CASE es' = es /\ es = NoStream
  <2>1. r \in RunIds \cup {NoRun} /\ (r # NoRun => r \in DOMAIN runs')
      BY ChatRunIds DEF ChatGrows
  <2> QED BY <1>2, <2>1 DEF Follow, StreamInv
<1>3. CASE es' = es /\ es # NoStream /\ es.run = r /\ t # NoThread
  <2>1. r \in RunIds \cup {NoRun} /\ (r # NoRun => r \in DOMAIN runs')
      BY ChatRunIds DEF ChatGrows
  <2>2. es.saw => Past(r) /\ Past(r)'
      BY <1>3, PastKept DEF StreamInv
  <2> QED BY <1>3, <2>1, <2>2 DEF Follow, StreamInv, Past
<1> QED BY <1>1, <1>2, <1>3 DEF Follow, OpenStream, Stream

(* What the page takes up of a thread is a run of the thread.              *)
LEMMA RestoredRun ==
    ASSUME WorkbenchAssumption, NEW t \in Threads \cup {NoThread}, NEW r \in DOMAIN runs \cup {NoRun},
           NEW c, \A s \in Threads : Knows(c[s], s)
    PROVE  /\ Restored(t, r, c) \in DOMAIN runs \cup {NoRun}
           /\ r # NoRun => Restored(t, r, c) = r
           /\ r = NoRun => Restored(t, r, c) = NoRun \/ RunOf(Restored(t, r, c), t)
BY DEF Restored, Knows, RunOf

(* What is known of the threads once the answer for one has arrived.       *)
LEMMA ArrivedKnown ==
    ASSUME CacheInv, threads \subseteq Threads, NEW t \in threads, QueryArrives(t)
    PROVE  \A s \in Threads : Knows(cached'[s], s)
<1>1. PICK k : k = fetch[t].data /\ Knows(k, t)
    BY DEF CacheInv, QueryArrives
<1>2. cached' = [cached EXCEPT ![t] = k]
    BY <1>1 DEF QueryArrives
<1> QED BY <1>1, <1>2 DEF CacheInv

(* A stream is that of the active run.                                     *)
LEMMA FollowedRun ==
    ASSUME StreamInv, es # NoStream
    PROVE  es \in Streams /\ es.run \in DOMAIN runs /\ es.run = activeRun
<1>1. es \in Streams
    BY ChatAbsent DEF StreamInv
<1>2. es.run # NoRun
    BY <1>1 DEF Streams, RunIds, NoRun
<1> QED BY <1>1, <1>2 DEF StreamInv

(* What a queue is set to is all that changes of its run.                  *)
LEMMA QueueSet ==
    ASSUME RowsInv, NEW r \in DOMAIN runs, NEW q, runs' = [runs EXCEPT ![r].queue = q]
    PROVE  r \in DOMAIN runs' /\ runs'[r].queue = q /\ runs'[r].thread = runs[r].thread
<1>1. runs[r] \in RunRecords
    BY DEF RowsInv
<1>2. PICK x : x = [runs[r] EXCEPT !.queue = q]
    OBVIOUS
<1>3. x.queue = q /\ x.thread = runs[r].thread
    BY <1>1, <1>2 DEF RunRecords
<1>4. r \in DOMAIN runs' /\ runs'[r] = x
    BY <1>2 DEF RowsInv
<1> QED BY <1>3, <1>4

(* The stream, in every step.                                              *)
LEMMA FollowedStep ==
    ASSUME WorkbenchAssumption, WInv, [ChatNext]_chatVars PROVE StreamInv'
<1> USE DEF WInv
<1>1. /\ ChatGrows /\ threads \subseteq Threads /\ thread \in threads \cup {NoThread}
      /\ activeRun \in DOMAIN runs \cup {NoRun}
    BY ChatRowsStep DEF ChatTypeOK
<1>2. CASE UNCHANGED <<thread, activeRun, es>>
    BY <1>1, <1>2, StreamKeeps DEF StreamInv
<1>3. \A s \in Threads : Knows(cached[s], s)
    BY DEF CacheInv
<1>4. ASSUME NEW t \in threads \cup {NoThread}, SwitchThread(t) PROVE StreamInv'
  <2>1. PICK c : c = cached
      OBVIOUS
  <2>2. PICK r \in DOMAIN runs \cup {NoRun} : r = Restored(t, NoRun, c)
      BY <1>1, <1>3, <2>1, RestoredRun
  <2> QED BY <1>1, <1>4, <2>1, <2>2, FollowKeeps DEF SwitchThread
<1>5. ASSUME NEW m \in Slots, ThreadCreated(m) PROVE StreamInv'
  <2>1. PICK t \in threads : t = request[m].thread
      BY <1>5 DEF ThreadCreated, Applied, RequestInv
  <2>2. PICK c : c = cached
      OBVIOUS
  <2>3. PICK r \in DOMAIN runs \cup {NoRun} : r = Restored(t, activeRun, c)
    <3>1. PICK a \in DOMAIN runs \cup {NoRun} : a = activeRun
        BY <1>1
    <3> QED BY <1>1, <1>3, <2>2, <3>1, RestoredRun
  <2> QED BY <1>1, <1>5, <2>1, <2>2, <2>3, FollowKeeps DEF ThreadCreated
<1>6. ASSUME NEW m \in Slots, RunCreated(m) \/ Resumed(m) PROVE StreamInv'
  <2>1. PICK r \in DOMAIN runs : r = request[m].run
      BY <1>6 DEF RunCreated, Resumed, Applied, RequestInv, RunOf
  <2>2. PICK t \in Threads \cup {NoThread} : t = thread
      BY <1>1
  <2>3. Follow(t, r) /\ thread' = t
      BY <1>6, <2>1, <2>2 DEF RunCreated, Resumed
  <2> QED BY <1>1, <2>3, FollowKeeps
<1>7. ASSUME NEW m \in Slots, Cancelled(m) PROVE StreamInv'
  <2>1. PICK c : c = cached
      OBVIOUS
  <2>2. PICK t \in Threads \cup {NoThread} : t = thread
      BY <1>1
  <2>3. PICK r \in DOMAIN runs \cup {NoRun} : r = Restored(t, NoRun, c)
      BY <1>3, <2>1, <2>2, RestoredRun
  <2>4. thread' = t /\ activeRun' = r /\ es' = Stream(t, r)
      BY <1>7, <2>1, <2>2, <2>3 DEF Cancelled, OpenStream
  <2> QED BY <1>1, <2>4, OpenKeeps
<1>8. ASSUME NEW t \in threads, QueryArrives(t) PROVE StreamInv'
  <2>1. CASE t = thread /\ cached' # cached
    <3>1. PICK c : c = cached'
        OBVIOUS
    <3>2. PICK a \in DOMAIN runs \cup {NoRun} : a = activeRun
        BY <1>1
    <3>3. PICK r \in DOMAIN runs \cup {NoRun} : r = Restored(t, a, c)
        BY <1>1, <1>8, <3>1, ArrivedKnown, RestoredRun
    <3> QED BY <1>1, <1>8, <2>1, <3>1, <3>2, <3>3, FollowKeeps DEF QueryArrives
  <2>2. CASE ~(t = thread /\ cached' # cached)
      BY <1>2, <1>8, <2>2 DEF QueryArrives
  <2> QED BY <2>1, <2>2
<1>9. ASSUME es # NoStream, NEW a \in {"open", "backoff", "closed"}, NEW s \in BOOLEAN,
             es' = [es EXCEPT !.at = a, !.saw = s], s => es.saw \/ Past(es.run)',
             UNCHANGED <<thread, activeRun>>
      PROVE  StreamInv'
  <2>1. es \in Streams
      BY <1>9, ChatAbsent DEF StreamInv
  <2>2. es' \in Streams /\ es'.run = es.run /\ es'.saw = s
      BY <1>9, <2>1 DEF Streams
  <2> QED BY <1>1, <1>9, <2>2, StreamKeeps
<1>10. ASSUME es # NoStream, NEW a \in {"open", "backoff", "closed"}, es' = [es EXCEPT !.at = a],
              UNCHANGED <<thread, activeRun>>
       PROVE  StreamInv'
  <2>1. es \in Streams
      BY <1>10, ChatAbsent DEF StreamInv
  <2>2. es' \in Streams /\ es'.run = es.run /\ es'.saw = es.saw
      BY <1>10, <2>1 DEF Streams
  <2> QED BY <1>1, <1>10, <2>2, StreamKeeps
<1>11. CASE StreamEnds
    BY <1>10, <1>11 DEF StreamEnds
<1>12. ASSUME es # NoStream, InterruptArrives PROVE StreamInv'
  <2>1. PICK r \in DOMAIN runs : r = es.run /\ runs' = [runs EXCEPT ![r].queue = "over"]
      BY <1>12, FollowedRun DEF InterruptArrives
  <2>2. es \in Streams
      BY <1>12, ChatAbsent DEF StreamInv
  <2>3. es' = [es EXCEPT !.saw = TRUE] /\ UNCHANGED <<thread, activeRun>>
      BY <1>12 DEF InterruptArrives, StreamOnly
  <2>4. es' \in Streams /\ es'.run = r
      BY <2>1, <2>2, <2>3 DEF Streams
  <2>5. r \in DOMAIN runs' /\ runs'[r].queue = "over"
      BY <2>1, QueueSet
  <2> QED BY <1>1, <1>12, <2>1, <2>3, <2>4, <2>5, StreamKeeps DEF Past
<1>13. CASE StreamStep
  <2>1. Reconnects => es # NoStream /\ es' = [es EXCEPT !.at = "open", !.saw = FALSE] /\ UNCHANGED <<thread, activeRun>>
      BY <1>13 DEF StreamStep, Reconnects, StreamOnly
  <2>2. ConnectionLost => \E a \in {"open", "backoff", "closed"} :
                              es # NoStream /\ es' = [es EXCEPT !.at = a] /\ UNCHANGED <<thread, activeRun>>
      BY <1>13 DEF StreamStep, ConnectionLost, StreamOnly
  <2>3. EventArrives => StreamInv'
      BY <1>2 DEF EventArrives, StreamOnly
  <2>4. Reconnects => StreamInv'
      BY <1>9, <2>1
  <2> QED BY <1>10, <1>12, <1>13, <2>2, <2>3, <2>4 DEF StreamStep
<1>14. ASSUME NEW m, NEW t, SendMessage(m) \/ ResumeInterrupt(m) \/ CancelRun(m) \/ CreateThread(m, t)
                            \/ RequestFails(m) \/ StartRun(m) \/ StopRun(m) \/ QueryReads(t) \/ TaskEnds(t)
       PROVE  StreamInv'
    BY <1>2, <1>14 DEF SendMessage, ResumeInterrupt, CancelRun, CreateThread, RequestFails, StartRun, StopRun,
                       QueryReads, TaskEnds, view
<1>15. CASE UNCHANGED chatVars
    BY <1>2, <1>15 DEF chatVars, view
<1>16. CASE ChatNext
  <2>1. CASE \E m \in Slots : SendMessage(m) \/ ResumeInterrupt(m) \/ CancelRun(m) \/ StartRun(m) \/ StopRun(m)
                              \/ RequestFails(m) \/ \E t \in Threads : CreateThread(m, t)
      BY <1>14, <2>1
  <2>2. CASE (\E r \in DOMAIN runs : TaskEnds(r)) \/ \E t \in threads : QueryReads(t)
      BY <1>14, <2>2
  <2> QED BY <1>4, <1>5, <1>6, <1>7, <1>8, <1>11, <1>13, <1>16, <2>1, <2>2 DEF ChatNext, AnswerArrives
<1> QED BY <1>15, <1>16

-----------------------------------------------------------------------------
(* The card.                                                               *)
LEMMA CardKeeps ==
    ASSUME ChatGrows, CardInv, told' = told,
           card' = card \/ card' = NoCard \/
              (card' \in Cards /\ RunOf(card'.run, card'.thread) /\ Past(card'.run) /\ card'.from = "cache"),
           card' # NoCard => thread' # NoThread
    PROVE  CardInv'
<1>1. \A r \in told' : Past(r)'
    BY PastKept DEF CardInv
<1>2. card' \in {NoCard} \cup Cards /\ AnsweredCardIsCached'
    BY DEF CardInv, AnsweredCardIsCached
<1>3. ASSUME card' # NoCard PROVE RunOf(card.run, card.thread)' /\ Past(card.run)'
  <2>1. PICK r, t : r = card'.run /\ t = card'.thread /\ RunOf(r, t) /\ Past(r)
      BY <1>3 DEF CardInv
  <2>2. RunOf(r, t)' /\ Past(r)'
      BY <2>1, RunOfKept, PastKept
  <2> QED BY <2>1, <2>2 DEF RunOf, Past
<1> QED BY <1>1, <1>2, <1>3 DEF CardInv

(* What the cache restores is a run past its interrupt.                    *)
LEMMA RestoreKeeps ==
    ASSUME WorkbenchAssumption, RowsInv, ChatGrows, CardInv, told' = told,
           NEW t \in Threads \cup {NoThread}, thread' = t,
           NEW c, \A s \in Threads : Knows(c[s], s), NEW old, RestoreCard(t, old, c),
           old = NoCard \/ (old = card /\ t = thread)
    PROVE  CardInv'
<1>1. CASE card' = old
    BY <1>1, CardKeeps DEF CardInv
<1>2. CASE card' # old
  <2>1. PICK r : r = c[t].pending /\ r # NoRun /\ t \in Threads /\ card' = [run |-> r, thread |-> t, from |-> "cache"]
      BY <1>2 DEF RestoreCard
  <2>2. RunOf(r, t) /\ Past(r)
      BY <2>1 DEF Knows
  <2>3. r \in RunIds /\ t # NoThread
      BY <2>1, <2>2, ChatRunIds DEF RunOf, WorkbenchAssumption, NoThread
  <2> QED BY <2>1, <2>2, <2>3, CardKeeps DEF Cards
<1> QED BY <1>1, <1>2

(* The card and the answers the page knows of, in every step.  A card that *)
(* a stream brings is of a run that asks, and none of those was answered.  *)
LEMMA CardStep ==
    ASSUME WorkbenchAssumption, WInv, [ChatNext]_chatVars PROVE CardInv'
<1> USE DEF WInv
<1>1. ChatGrows /\ threads \subseteq Threads /\ thread \in threads \cup {NoThread} /\ NoThread \notin Threads
    BY ChatRowsStep DEF ChatTypeOK, WorkbenchAssumption, NoThread
<1>2. CASE UNCHANGED <<thread, card, told>>
    BY <1>1, <1>2, CardKeeps DEF CardInv
<1>3. \A s \in Threads : Knows(cached[s], s)
    BY DEF CacheInv
<1>4. ASSUME NEW t \in threads \cup {NoThread}, SwitchThread(t) PROVE CardInv'
  <2>1. PICK c : c = cached
      OBVIOUS
  <2>2. PICK old : old = NoCard /\ RestoreCard(t, old, c) /\ thread' = t /\ told' = told
      BY <1>4, <2>1 DEF SwitchThread
  <2>3. t \in Threads \cup {NoThread} /\ \A s \in Threads : Knows(c[s], s)
      BY <1>1, <1>3, <2>1
  <2> QED BY <1>1, <2>2, <2>3, RestoreKeeps
<1>5. ASSUME NEW m \in Slots, ThreadCreated(m) PROVE CardInv'
  <2>1. request[m].thread \in threads
      BY <1>5 DEF ThreadCreated, Applied, RequestInv
  <2>2. thread' # NoThread /\ card' = card /\ told' = told
      BY <1>1, <1>5, <2>1 DEF ThreadCreated
  <2> QED BY <1>1, <2>2, CardKeeps
<1>6. ASSUME NEW m \in Slots, Resumed(m) PROVE CardInv'
  <2>1. PICK r : r = request[m].of /\ Past(r) /\ told' = told \cup {r} /\ card' = NoCard
      BY <1>6 DEF Resumed, Applied, RequestInv
  <2>2. \A s \in told' : Past(s)'
      BY <1>1, <2>1, PastKept DEF CardInv
  <2> QED BY <2>1, <2>2 DEF CardInv, AnsweredCardIsCached
<1>7. ASSUME NEW t \in threads, QueryArrives(t) PROVE CardInv'
  <2>1. CASE t = thread /\ cached' # cached
    <3>1. PICK c, old : c = cached' /\ old = card
        OBVIOUS
    <3>2. RestoreCard(t, old, c) /\ thread' = t /\ told' = told
        BY <1>7, <2>1, <3>1 DEF QueryArrives
    <3>3. \A s \in Threads : Knows(c[s], s)
        BY <1>1, <1>7, <3>1, ArrivedKnown
    <3> QED BY <1>1, <2>1, <3>1, <3>2, <3>3, RestoreKeeps
  <2>2. CASE ~(t = thread /\ cached' # cached)
      BY <1>2, <1>7, <2>2 DEF QueryArrives
  <2> QED BY <2>1, <2>2
<1>8. ASSUME es # NoStream, InterruptArrives PROVE CardInv'
  <2>1. PICK r \in DOMAIN runs : /\ r = es.run /\ runs[r].queue = "asks" /\ thread # NoThread
                                 /\ runs' = [runs EXCEPT ![r].queue = "over"]
      BY <1>8, FollowedRun DEF InterruptArrives, StreamInv
  <2>2. PICK t \in Threads : t = runs[r].thread /\ card' = [run |-> r, thread |-> t, from |-> "stream"]
    <3>1. runs[r].thread \in Threads
      <4>1. runs[r] \in RunRecords
          BY DEF RowsInv
      <4> QED BY <4>1 DEF RunRecords
    <3> QED BY <1>8, <2>1, <3>1 DEF InterruptArrives
  <2>3. UNCHANGED <<thread, told>>
      BY <1>8 DEF InterruptArrives, StreamOnly
  <2>4. r \notin told
      BY <2>1 DEF CardInv, Past
  <2>5. RunOf(r, t)' /\ Past(r)'
    <3>1. r \in DOMAIN runs' /\ runs'[r].queue = "over" /\ runs'[r].thread = t
        BY <2>1, <2>2, QueueSet
    <3> QED BY <3>1 DEF RunOf, Past
  <2>6. r \in RunIds
      BY ChatRunIds
  <2>7. card' \in Cards /\ card'.run = r /\ card'.thread = t
      BY <2>2, <2>6 DEF Cards
  <2>8. \A s \in told' : Past(s)'
      BY <1>1, <2>3, PastKept DEF CardInv
  <2> QED BY <2>1, <2>3, <2>4, <2>5, <2>7, <2>8 DEF CardInv, AnsweredCardIsCached, RunOf, Past
<1>9. CASE StreamEnds \/ StreamStep
    BY <1>2, <1>8, <1>9 DEF StreamEnds, StreamStep, EventArrives, ConnectionLost, Reconnects, StreamOnly
<1>10. ASSUME NEW m, SendMessage(m) PROVE CardInv'
    BY <1>1, <1>10, CardKeeps DEF SendMessage
<1>11. ASSUME NEW m, NEW t, ResumeInterrupt(m) \/ CancelRun(m) \/ CreateThread(m, t) \/ RunCreated(m) \/ Cancelled(m)
                            \/ RequestFails(m) \/ StartRun(m) \/ StopRun(m) \/ QueryReads(t) \/ TaskEnds(t)
       PROVE  CardInv'
    BY <1>2, <1>11 DEF ResumeInterrupt, CancelRun, CreateThread, RunCreated, Cancelled, RequestFails, StartRun,
                       StopRun, QueryReads, TaskEnds, view
<1>12. CASE UNCHANGED chatVars
    BY <1>2, <1>12 DEF chatVars, view
<1>13. CASE ChatNext
  <2>1. CASE \E m \in Slots : ResumeInterrupt(m) \/ CancelRun(m) \/ StartRun(m) \/ StopRun(m) \/ RunCreated(m)
                              \/ Cancelled(m) \/ RequestFails(m) \/ \E t \in Threads : CreateThread(m, t)
      BY <1>11, <2>1
  <2>2. CASE (\E r \in DOMAIN runs : TaskEnds(r)) \/ \E t \in threads : QueryReads(t)
      BY <1>11, <2>2
  <2> QED BY <1>4, <1>5, <1>6, <1>7, <1>9, <1>10, <1>13, <2>1, <2>2 DEF ChatNext, AnswerArrives
<1> QED BY <1>12, <1>13

-----------------------------------------------------------------------------
(* The requests of the page: what RequestInv says of one.                  *)
WellAsked(q) ==
    /\ q.kind = "create" => q.page = NoThread /\ (q.at = "applied" => q.thread \in threads)
    /\ q.kind = "run" => q.page = q.thread /\ q.thread \in Threads
    /\ q.kind = "resume" => q.page # NoThread /\ q.thread \in Threads /\ Past(q.of)
    /\ q.kind \in {"run", "resume"} /\ q.at = "applied" => RunOf(q.run, q.thread)

(* A request that is in order stays so.                                    *)
LEMMA WellAskedKept ==
    ASSUME ChatGrows, threads \subseteq threads', NEW q, WellAsked(q) PROVE WellAsked(q)'
BY RunOfKept, PastKept DEF WellAsked

(* The slots stay in order if what is put in them is.                      *)
LEMMA RequestsKept ==
    ASSUME ChatGrows, threads \subseteq threads', RequestInv,
           request' \in [Slots -> {Idle} \cup RequestRecords],
           \A m \in Slots : request'[m] = request[m] \/ WellAsked(request'[m]) \/ WellAsked(request[m])'
    PROVE  RequestInv'
<1>1. ASSUME NEW m \in Slots PROVE WellAsked(request[m])'
  <2>1. CASE WellAsked(request[m])'
      BY <2>1
  <2>2. CASE request'[m] = request[m] \/ WellAsked(request'[m])
    <3>1. PICK q : q = request'[m] /\ WellAsked(q)
        BY <2>2 DEF RequestInv, WellAsked
    <3>2. WellAsked(q)'
        BY <3>1, WellAskedKept
    <3> QED BY <3>1, <3>2 DEF WellAsked
  <2> QED BY <1>1, <2>1, <2>2
<1> QED BY <1>1 DEF RequestInv, WellAsked

(* A slot is freed, or used.                                               *)
LEMMA RequestPut ==
    ASSUME ChatGrows, threads \subseteq threads', RequestInv,
           NEW m \in Slots, NEW q \in {Idle} \cup RequestRecords, request' = [request EXCEPT ![m] = q],
           WellAsked(q) \/ WellAsked(q)'
    PROVE  RequestInv'
<1>1. /\ request' \in [Slots -> {Idle} \cup RequestRecords] /\ request'[m] = q
      /\ \A n \in Slots : n # m => request'[n] = request[n]
    BY DEF RequestInv
<1>2. WellAsked(q)' => WellAsked(request[m])'
    BY <1>1 DEF WellAsked
<1> QED BY <1>1, <1>2, RequestsKept

(* A free slot is in order.                                                *)
LEMMA IdleAsked == Idle \in {Idle} \cup RequestRecords /\ WellAsked(Idle)
BY ChatAbsent DEF WellAsked

(* The requests, in every step.                                            *)
LEMMA RequestStep ==
    ASSUME WorkbenchAssumption, WInv, [ChatNext]_chatVars PROVE RequestInv'
<1> USE DEF WInv
<1>1. /\ ChatGrows /\ threads \subseteq Threads /\ thread \in threads \cup {NoThread} /\ NoThread \notin Threads
      /\ RowsInv' /\ DOMAIN runs \subseteq RunIds /\ NoRun \notin DOMAIN runs
    BY ChatRowsStep, ChatRunIds DEF ChatTypeOK, WorkbenchAssumption, NoThread
<1>2. CASE UNCHANGED <<threads, request>>
    BY <1>1, <1>2, RequestsKept DEF RequestInv
<1>3. ASSUME NEW m \in Slots, Done(m), threads' = threads PROVE RequestInv'
    BY <1>1, <1>3, IdleAsked, RequestPut DEF Done
<1>4. ASSUME NEW m \in Slots, NEW k \in {"create", "run", "resume", "cancel"},
             NEW t \in Threads \cup {NoThread}, NEW of \in RunIds \cup {NoRun},
             NEW p \in Threads \cup {NoThread}, Ask(m, k, t, of, p), threads' = threads,
             k = "create" => p = NoThread, k = "run" => p = t /\ t \in Threads,
             k = "resume" => p # NoThread /\ t \in Threads /\ Past(of)
      PROVE  RequestInv'
  <2>1. PICK q : q = [kind |-> k, thread |-> t, of |-> of, page |-> p, run |-> NoRun, at |-> "sent"]
      OBVIOUS
  <2>2. q \in RequestRecords
      BY <2>1 DEF RequestRecords
  <2>3. WellAsked(q)
      BY <1>4, <2>1 DEF WellAsked
  <2>4. request' = [request EXCEPT ![m] = q]
      BY <1>4, <2>1 DEF Ask
  <2> QED BY <1>1, <1>4, <2>2, <2>3, <2>4, RequestPut
<1>5. ASSUME NEW m \in Slots, SendMessage(m) PROVE RequestInv'
  <2>1. CASE thread = NoThread
    <3>1. Ask(m, "create", NoThread, NoRun, NoThread) /\ threads' = threads
        BY <1>5, <2>1 DEF SendMessage, server
    <3> QED BY <1>4, <3>1
  <2>2. CASE thread # NoThread
    <3>1. PICK t \in Threads : t = thread
        BY <1>1, <2>2
    <3>2. Ask(m, "run", t, NoRun, t) /\ threads' = threads
        BY <1>5, <2>2, <3>1 DEF SendMessage, server
    <3> QED BY <1>4, <3>2
  <2> QED BY <2>1, <2>2
<1>6. ASSUME NEW m \in Slots, ResumeInterrupt(m) PROVE RequestInv'
  <2>1. PICK t \in Threads, r \in RunIds, p \in Threads : /\ t = card.thread /\ r = card.run /\ p = thread
                                                         /\ Past(r)
      BY <1>1, <1>6 DEF ResumeInterrupt, CardInv, Cards
  <2>2. Ask(m, "resume", t, r, p) /\ threads' = threads
      BY <1>6, <2>1 DEF ResumeInterrupt, server
  <2> QED BY <1>1, <1>4, <2>1, <2>2
<1>7. ASSUME NEW m \in Slots, CancelRun(m) PROVE RequestInv'
  <2>1. PICK t \in Threads, r \in RunIds : t = thread /\ r = activeRun
      BY <1>1, <1>7 DEF CancelRun, StreamInv
  <2>2. Ask(m, "cancel", t, r, t) /\ threads' = threads
      BY <1>7, <2>1 DEF CancelRun, server
  <2> QED BY <1>4, <2>2
<1>8. ASSUME NEW m \in Slots, NEW t \in Threads, CreateThread(m, t) PROVE RequestInv'
  <2>1. PICK q : q = [request[m] EXCEPT !.at = "applied", !.thread = t]
      OBVIOUS
  <2>2. request[m] \in RequestRecords /\ request[m].kind = "create" /\ request[m].page = NoThread
      BY <1>8, ChatAbsent DEF CreateThread, Sent, RequestInv
  <2>3. q \in RequestRecords /\ q.kind = "create" /\ q.page = NoThread /\ q.thread = t
      BY <2>1, <2>2 DEF RequestRecords
  <2>4. request' = [request EXCEPT ![m] = q] /\ threads' = threads \cup {t}
      BY <1>8, <2>1 DEF CreateThread, RequestInv
  <2>5. WellAsked(q)'
      BY <2>3, <2>4 DEF WellAsked
  <2> QED BY <1>1, <2>3, <2>4, <2>5, RequestPut
<1>9. ASSUME NEW m \in Slots, StartRun(m) PROVE RequestInv'
  <2>1. request[m].kind = "run" \/ request[m].kind = "resume"
      BY <1>9 DEF StartRun, Sent
  <2>2. request[m] \in RequestRecords /\ request[m].thread \in Threads /\ WellAsked(request[m])
      BY <2>1, ChatAbsent DEF RequestInv, WellAsked
  <2>3. PICK l \in Nat : l = Len(runs) /\ DOMAIN runs = 1..l
      BY DEF RowsInv
  <2>4. PICK q : q = [request[m] EXCEPT !.at = "applied", !.run = l + 1]
      OBVIOUS
  <2>5. l + 1 \in RunIds
      BY <1>9, <2>3 DEF StartRun, RunIds, WorkbenchAssumption
  <2>6. /\ q \in RequestRecords /\ q.kind = request[m].kind /\ q.page = request[m].page
        /\ q.thread = request[m].thread /\ q.of = request[m].of /\ q.run = l + 1
      BY <2>2, <2>4, <2>5 DEF RequestRecords
  <2>7. request' = [request EXCEPT ![m] = q] /\ threads' = threads
      BY <1>9, <2>3, <2>4 DEF StartRun, RequestInv
  <2>8. RunOf(l + 1, q.thread)'
    <3>1. PICK t, x : t = q.thread /\ x = NewRun(t) /\ x.thread = t
      <4>1. \A t : NewRun(t).thread = t
          BY DEF NewRun
      <4> QED BY <4>1
    <3>2. runs' = Append(runs, x)
        BY <1>9, <2>6, <3>1 DEF StartRun
    <3>3. l + 1 \in DOMAIN runs' /\ runs'[l + 1] = x
      <4>1. NewRun(t) \in RunRecords
          BY <2>2, <2>6, <3>1 DEF NewRun, RunRecords
      <4> QED BY <2>3, <3>1, <3>2, <4>1 DEF RowsInv
    <3> QED BY <3>1, <3>3 DEF RunOf
  <2>9. Past(q.of) => Past(q.of)'
    <3>1. PICK r : r = q.of
        OBVIOUS
    <3> QED BY <1>1, <3>1, PastKept DEF Past
  <2>10. WellAsked(q)'
      BY <2>1, <2>2, <2>6, <2>8, <2>9 DEF WellAsked
  <2> QED BY <1>1, <2>6, <2>7, <2>10, RequestPut
<1>10. ASSUME NEW m \in Slots, StopRun(m) PROVE RequestInv'
  <2>1. PICK q : q = [request[m] EXCEPT !.at = "applied"]
      OBVIOUS
  <2>2. request[m] \in RequestRecords /\ request[m].kind = "cancel"
      BY <1>10, ChatAbsent DEF StopRun, Sent, RequestInv
  <2>3. q \in RequestRecords /\ q.kind = "cancel"
      BY <2>1, <2>2 DEF RequestRecords
  <2>4. request' = [request EXCEPT ![m] = q] /\ threads' = threads
      BY <1>10, <2>1 DEF StopRun, RequestInv
  <2>5. WellAsked(q)
      BY <2>3 DEF WellAsked
  <2> QED BY <1>1, <2>3, <2>4, <2>5, RequestPut
<1>11. ASSUME NEW m \in Slots, ThreadCreated(m) PROVE RequestInv'
  <2>1. PICK t \in Threads : t = request[m].thread
      BY <1>1, <1>11 DEF ThreadCreated, Applied, RequestInv
  <2>2. Ask(m, "run", t, NoRun, t) /\ threads' = threads
      BY <1>11, <2>1 DEF ThreadCreated
  <2> QED BY <1>4, <2>2
<1>12. ASSUME NEW m \in Slots, RunCreated(m) \/ Resumed(m) \/ Cancelled(m) \/ RequestFails(m) PROVE RequestInv'
    BY <1>3, <1>12 DEF RunCreated, Resumed, Cancelled, RequestFails, server
<1>13. ASSUME NEW t, SwitchThread(t) \/ QueryReads(t) \/ QueryArrives(t) \/ TaskEnds(t) PROVE RequestInv'
    BY <1>2, <1>13 DEF SwitchThread, QueryReads, QueryArrives, TaskEnds, server
<1>14. CASE StreamEnds \/ StreamStep
    BY <1>2, <1>14 DEF StreamEnds, StreamStep, EventArrives, InterruptArrives, ConnectionLost, Reconnects, StreamOnly
<1>15. CASE UNCHANGED chatVars
    BY <1>2, <1>15 DEF chatVars, server
<1>16. CASE ChatNext
  <2>1. CASE \/ \E t \in threads \cup {NoThread} : SwitchThread(t)
             \/ \E r \in DOMAIN runs : TaskEnds(r)
             \/ \E t \in threads : QueryReads(t) \/ QueryArrives(t)
      BY <1>13, <2>1
  <2> QED BY <1>5, <1>6, <1>7, <1>8, <1>9, <1>10, <1>11, <1>12, <1>14, <1>16, <2>1 DEF ChatNext, AnswerArrives
<1> QED BY <1>15, <1>16

-----------------------------------------------------------------------------
(* The type invariant, from the parts.                                     *)
LEMMA ChatTypes ==
    ASSUME WorkbenchAssumption, WInv, [ChatNext]_chatVars PROVE ChatTypeOK'
<1> USE DEF WInv
<1>1. RowsInv' /\ StreamInv' /\ CardInv'
    BY ChatRowsStep, FollowedStep, CardStep
<1>2. Len(runs') <= MaxRuns /\ told' \subseteq RunIds /\ activeRun' \in DOMAIN runs' \cup {NoRun}
  <2>1. DOMAIN runs' \subseteq RunIds
    <3>1. PICK l \in Nat : l = Len(runs') /\ DOMAIN runs' = 1..l
        BY <1>1 DEF RowsInv
    <3> QED BY <1>1, <3>1 DEF RowsInv, RunIds, WorkbenchAssumption
  <2> QED BY <1>1, <2>1 DEF RowsInv, StreamInv, CardInv, Past
<1>3. threads' \subseteq Threads /\ thread' \in threads' \cup {NoThread}
  <2>1. CASE UNCHANGED <<threads, thread>>
      BY <2>1 DEF ChatTypeOK
  <2>2. ASSUME NEW t \in threads \cup {NoThread}, SwitchThread(t) PROVE <1>3!:
      BY <2>2 DEF SwitchThread, ChatTypeOK
  <2>3. ASSUME NEW m \in Slots, ThreadCreated(m) PROVE <1>3!:
      BY <2>3 DEF ThreadCreated, Applied, RequestInv, ChatTypeOK
  <2>4. ASSUME NEW m \in Slots, NEW t \in Threads, CreateThread(m, t) PROVE <1>3!:
      BY <2>4 DEF CreateThread, view, ChatTypeOK
  <2>5. ASSUME NEW m, RunCreated(m) \/ Resumed(m) \/ Cancelled(m) \/ RequestFails(m) \/ StartRun(m) \/ StopRun(m)
                      \/ SendMessage(m) \/ ResumeInterrupt(m) \/ CancelRun(m) \/ TaskEnds(m)
                      \/ QueryReads(m) \/ QueryArrives(m)
        PROVE  <1>3!:
      BY <2>1, <2>5 DEF RunCreated, Resumed, Cancelled, RequestFails, StartRun, StopRun, SendMessage,
                        ResumeInterrupt, CancelRun, TaskEnds, QueryReads, QueryArrives, server, view
  <2>6. CASE StreamEnds \/ StreamStep
      BY <2>1, <2>6 DEF StreamEnds, StreamStep, EventArrives, InterruptArrives, ConnectionLost, Reconnects, StreamOnly
  <2>7. CASE UNCHANGED chatVars
      BY <2>1, <2>7 DEF chatVars, server, view
  <2>8. CASE ChatNext
      BY <2>2, <2>3, <2>4, <2>5, <2>6, <2>8 DEF ChatNext, AnswerArrives
  <2> QED BY <2>7, <2>8
<1>4. streaming' \in BOOLEAN /\ retries' \in 0..MAX_RETRIES
  <2>1. streaming \in BOOLEAN /\ retries \in 0..MAX_RETRIES /\ MAX_RETRIES \in Nat
      BY DEF ChatTypeOK, WorkbenchAssumption
  <2>2. ASSUME NEW t, NEW r, Follow(t, r) PROVE streaming' \in BOOLEAN
      BY <2>1, <2>2 DEF Follow, OpenStream
  <2>3. CASE UNCHANGED <<streaming, retries>>
      BY <2>1, <2>3
  <2>4. ASSUME NEW t, SwitchThread(t) \/ QueryArrives(t) PROVE <1>4!:
      BY <2>1, <2>2, <2>4 DEF SwitchThread, QueryArrives
  <2>5. ASSUME NEW m, ThreadCreated(m) \/ RunCreated(m) \/ Resumed(m) \/ Cancelled(m) PROVE <1>4!:
      BY <2>1, <2>2, <2>5 DEF ThreadCreated, RunCreated, Resumed, Cancelled, OpenStream
  <2>6. CASE StreamEnds \/ StreamStep
    <3>1. streaming' \in BOOLEAN
        BY <2>1, <2>6 DEF StreamEnds, RunEnd, StreamStep, EventArrives, InterruptArrives, ConnectionLost, Reconnects
    <3>2. retries' \in {0, retries} \/ (retries < MAX_RETRIES /\ retries' = retries + 1)
        BY <2>6 DEF StreamEnds, StreamStep, EventArrives, InterruptArrives, ConnectionLost, Reconnects
    <3> QED BY <2>1, <3>1, <3>2
  <2>7. ASSUME NEW m, NEW t, SendMessage(m) \/ ResumeInterrupt(m) \/ CancelRun(m) \/ CreateThread(m, t)
                             \/ RequestFails(m) \/ StartRun(m) \/ StopRun(m) \/ QueryReads(t) \/ TaskEnds(t)
        PROVE  <1>4!:
      BY <2>3, <2>7 DEF SendMessage, ResumeInterrupt, CancelRun, CreateThread, RequestFails, StartRun, StopRun,
                        QueryReads, TaskEnds, view
  <2>8. CASE UNCHANGED chatVars
      BY <2>3, <2>8 DEF chatVars, view
  <2>9. CASE ChatNext
    <3>1. CASE \E m \in Slots : SendMessage(m) \/ ResumeInterrupt(m) \/ CancelRun(m) \/ StartRun(m) \/ StopRun(m)
                                \/ RequestFails(m) \/ \E t \in Threads : CreateThread(m, t)
        BY <2>7, <3>1
    <3>2. CASE (\E r \in DOMAIN runs : TaskEnds(r)) \/ \E t \in threads : QueryReads(t)
        BY <2>7, <3>2
    <3> QED BY <2>4, <2>5, <2>6, <2>9, <3>1, <3>2 DEF ChatNext, AnswerArrives
  <2> QED BY <2>8, <2>9
<1> QED BY <1>2, <1>3, <1>4 DEF ChatTypeOK

-----------------------------------------------------------------------------
(* ChatSpec keeps the types of the page, and that what it follows, offers, *)
(* asks for and has cached of a thread are runs of that thread             *)
(* (WorkbenchPage.tsx, useSSE.ts, useThreads.ts, InterruptCard.tsx).       *)
THEOREM ChatInvariance == ChatSpec => []WInv
<1> USE WorkbenchAssumption
<1>1. ChatInit => WInv
  <2> SUFFICES ASSUME ChatInit PROVE WInv
      OBVIOUS
  <2>1. PICK x \in RunRecords : /\ runs = <<x>> /\ x.thread = thread /\ thread \in Existing
                                /\ x.row = "interrupted" /\ x.queue = "gone"
    <3>1. [thread |-> thread, row |-> "interrupted", queue |-> "gone"] \in RunRecords
        BY DEF ChatInit, WorkbenchAssumption, RunRecords
    <3> QED BY <3>1 DEF ChatInit
  <2>2. runs \in Seq(RunRecords) /\ Len(runs) = 1 /\ DOMAIN runs = {1} /\ runs[1] = x
      BY <2>1
  <2>3. RowsInv
      BY <2>1, <2>2 DEF RowsInv, Past, WorkbenchAssumption
  <2>4. CacheInv
    <3>1. Unknown \in Knowledge /\ \A t \in Threads : Knows(Unknown, t)
        BY DEF Unknown, Knowledge, Knows
    <3>2. cached = [t \in Threads |-> Unknown]
        BY DEF ChatInit
    <3>3. /\ fetch \in [Threads -> {NoFetch} \cup [at : {"sent"}] \cup [at : {"read"}, data : Knowledge]]
          /\ \A t \in Threads : fetch[t].at # "read"
        BY DEF ChatInit, NoFetch
    <3> QED BY <3>1, <3>2, <3>3 DEF CacheInv
  <2>5. StreamInv /\ CardInv
      BY DEF ChatInit, StreamInv, CardInv, AnsweredCardIsCached
  <2>6. RequestInv
    <3>1. request = [m \in Slots |-> Idle]
        BY DEF ChatInit
    <3> QED BY <3>1, ChatAbsent DEF RequestInv
  <2>7. ChatTypeOK
    <3>1. /\ threads = Existing /\ activeRun = NoRun /\ streaming = FALSE /\ retries = 0 /\ told = {}
        BY DEF ChatInit
    <3>2. 0 \in 0..MAX_RETRIES /\ 1 <= MaxRuns /\ Existing \subseteq Threads
        BY DEF WorkbenchAssumption
    <3> QED BY <2>1, <2>2, <3>1, <3>2 DEF ChatTypeOK
  <2> QED BY <2>3, <2>4, <2>5, <2>6, <2>7 DEF WInv
<1>2. WInv /\ [ChatNext]_chatVars => WInv'
  <2> SUFFICES ASSUME WInv, [ChatNext]_chatVars PROVE WInv'
      OBVIOUS
  <2>1. RowsInv' /\ CacheInv' /\ StreamInv' /\ CardInv' /\ RequestInv' /\ ChatTypeOK'
      BY ChatRowsStep, CacheStep, FollowedStep, CardStep, RequestStep, ChatTypes
  <2> QED BY <2>1 DEF WInv
<1> QED BY <1>1, <1>2, PTL DEF ChatSpec

(* A card the page knows to be answered comes back from the cache only,    *)
(* never from a stream (the effect on messagesResponse).                   *)
THEOREM AnsweredCardComesFromCache == ChatSpec => []AnsweredCardIsCached
<1>1. WInv => AnsweredCardIsCached
    BY DEF WInv, CardInv
<1> QED BY <1>1, ChatInvariance, PTL

(* A page whose run and card are of its own thread.                        *)
LEMMA AtHome ==
    ASSUME ChatGrows, activeRun' # NoRun => RunOf(activeRun', thread'),
           card' # NoCard => card'.thread = thread'
    PROVE  ~Foreign'
<1>1. activeRun' # NoRun => runs'[activeRun'].thread = thread'
    BY DEF ChatGrows, RunOf
<1> QED BY <1>1 DEF Foreign

(* A card is of the thread it is restored for.                             *)
LEMMA RestoredCard ==
    ASSUME NEW t, NEW old, NEW c, RestoreCard(t, old, c), card' # NoCard
    PROVE  card'.thread = t \/ (card' = old /\ old # NoCard)
BY DEF RestoreCard

(* One step by which the page comes to show what is not of its thread.     *)
LEMMA StrayStep ==
    ASSUME WorkbenchAssumption, WInv, ChatNext, ~Foreign, Foreign' PROVE LateAnswer
<1> USE DEF WInv
<1>1. /\ ChatGrows /\ threads \subseteq Threads /\ thread \in threads \cup {NoThread} /\ NoThread \notin Threads
      /\ activeRun \in DOMAIN runs \cup {NoRun}
    BY ChatRowsStep DEF ChatTypeOK, WorkbenchAssumption, NoThread
<1>2. /\ activeRun # NoRun => RunOf(activeRun, thread)
      /\ card # NoCard => card.thread = thread
    BY <1>1 DEF Foreign, RunOf
<1>3. ASSUME UNCHANGED <<thread, activeRun, card>> PROVE FALSE
    BY <1>1, <1>2, <1>3, AtHome
<1>4. \A s \in Threads : Knows(cached[s], s)
    BY DEF CacheInv
<1>5. ASSUME NEW t \in threads \cup {NoThread}, SwitchThread(t) PROVE FALSE
  <2>1. PICK c, old : /\ c = cached /\ old = NoCard /\ RestoreCard(t, old, c) /\ thread' = t
                      /\ activeRun' = Restored(t, NoRun, c)
      BY <1>5 DEF SwitchThread, Follow
  <2>2. t \in Threads \cup {NoThread} /\ \A s \in Threads : Knows(c[s], s)
      BY <1>1, <1>4, <2>1
  <2>3. activeRun' # NoRun => RunOf(activeRun', t)
      BY <2>1, <2>2, RestoredRun
  <2> QED BY <1>1, <2>1, <2>3, RestoredCard, AtHome
<1>6. ASSUME NEW m \in Slots, ThreadCreated(m) PROVE LateAnswer
  <2>1. PICK t \in Threads : /\ t = request[m].thread /\ request[m].kind = "create" /\ request[m].at = "applied"
                             /\ request[m].page = NoThread
      BY <1>1, <1>6 DEF ThreadCreated, Applied, RequestInv
  <2>2. CASE thread # NoThread
    <3>1. request'[m].kind = "run"
        BY <1>6 DEF ThreadCreated, Ask, RequestInv
    <3>2. request'[m] # request[m] /\ request[m] # Idle
        BY <2>1, <3>1, ChatAbsent
    <3> QED BY <2>1, <2>2, <3>2 DEF LateAnswer
  <2>3. CASE thread = NoThread
    <3>1. activeRun = NoRun /\ card = NoCard
      <4>1. activeRun # NoRun => runs[activeRun].thread \in Threads
        <5>1. activeRun # NoRun => runs[activeRun] \in RunRecords
            BY <1>1 DEF RowsInv
        <5> QED BY <5>1 DEF RunRecords
      <4>2. card = NoCard
          BY <2>3 DEF CardInv
      <4> QED BY <1>1, <1>2, <2>3, <4>1, <4>2 DEF RunOf
    <3>2. PICK c, r : c = cached /\ r = activeRun /\ activeRun' = Restored(t, r, c) /\ thread' = t /\ card' = card
        BY <1>6, <2>1 DEF ThreadCreated, Follow
    <3>3. activeRun' # NoRun => RunOf(activeRun', t)
        BY <1>4, <3>1, <3>2, RestoredRun
    <3> QED BY <1>1, <3>1, <3>2, <3>3, AtHome
  <2> QED BY <2>2, <2>3
<1>7. ASSUME NEW m \in Slots, RunCreated(m) \/ Resumed(m) PROVE LateAnswer
  <2>1. /\ request[m].kind \in {"run", "resume"} /\ request[m].at = "applied"
        /\ RunOf(request[m].run, request[m].thread)
        /\ request[m].kind = "run" => request[m].page = request[m].thread
        /\ request[m].kind = "resume" => request[m].page # NoThread
      BY <1>7 DEF RunCreated, Resumed, Applied, RequestInv
  <2>2. request'[m] = Idle /\ request[m] # Idle
      BY <1>7, <2>1, ChatAbsent DEF RunCreated, Resumed, Done, RequestInv
  <2>3. CASE request[m].thread # thread
    <3>1. request[m].page # thread \/ thread \notin {request[m].thread, NoThread}
        BY <2>1, <2>3
    <3> QED BY <2>1, <2>2, <3>1 DEF LateAnswer
  <2>4. CASE request[m].thread = thread
    <3>1. activeRun' = request[m].run /\ thread' = thread /\ card' \in {card, NoCard}
        BY <1>7 DEF RunCreated, Resumed, Follow
    <3> QED BY <1>1, <1>2, <2>1, <2>4, <3>1, AtHome
  <2> QED BY <2>3, <2>4
<1>8. ASSUME NEW m \in Slots, Cancelled(m) PROVE FALSE
  <2>1. PICK c, t : /\ c = cached /\ t = thread /\ activeRun' = Restored(t, NoRun, c)
                    /\ thread' = thread /\ card' = card
      BY <1>8 DEF Cancelled
  <2>2. activeRun' # NoRun => RunOf(activeRun', t)
      BY <1>1, <1>4, <2>1, RestoredRun
  <2> QED BY <1>1, <1>2, <2>1, <2>2, AtHome
<1>9. ASSUME NEW t \in threads, QueryArrives(t) PROVE FALSE
  <2>1. CASE t = thread /\ cached' # cached
    <3>1. PICK c, r, old : /\ c = cached' /\ r = activeRun /\ old = card
                           /\ activeRun' = Restored(t, r, c) /\ thread' = t /\ RestoreCard(t, old, c)
        BY <1>9, <2>1 DEF QueryArrives, Follow
    <3>2. \A s \in Threads : Knows(c[s], s)
        BY <1>1, <1>9, <3>1, ArrivedKnown
    <3>3. activeRun' # NoRun => RunOf(activeRun', t)
        BY <1>1, <1>2, <2>1, <3>1, <3>2, RestoredRun
    <3> QED BY <1>1, <1>2, <2>1, <3>1, <3>3, RestoredCard, AtHome
  <2>2. CASE ~(t = thread /\ cached' # cached)
      BY <1>3, <1>9, <2>2 DEF QueryArrives
  <2> QED BY <2>1, <2>2
<1>10. ASSUME es # NoStream, InterruptArrives PROVE FALSE
  <2>1. es.run = activeRun /\ activeRun \in DOMAIN runs /\ activeRun # NoRun
    <3>1. es.run = activeRun /\ es.run \in DOMAIN runs
        BY <1>10, FollowedRun
    <3> QED BY <3>1, ChatRunIds
  <2>2. UNCHANGED <<thread, activeRun>> /\ card'.thread = runs[activeRun].thread
      BY <1>10, <2>1 DEF InterruptArrives, StreamOnly
  <2> QED BY <1>1, <1>2, <2>1, <2>2, AtHome DEF RunOf
<1>11. CASE StreamEnds \/ StreamStep
    BY <1>3, <1>10, <1>11 DEF StreamEnds, StreamStep, EventArrives, ConnectionLost, Reconnects, StreamOnly
<1>12. ASSUME NEW m, SendMessage(m) PROVE FALSE
    BY <1>1, <1>2, <1>12, AtHome DEF SendMessage
<1>13. ASSUME NEW m, NEW t, ResumeInterrupt(m) \/ CancelRun(m) \/ CreateThread(m, t) \/ RequestFails(m)
                            \/ StartRun(m) \/ StopRun(m) \/ QueryReads(t) \/ TaskEnds(t)
       PROVE  FALSE
    BY <1>3, <1>13 DEF ResumeInterrupt, CancelRun, CreateThread, RequestFails, StartRun, StopRun, QueryReads,
                       TaskEnds, view
<1>14. CASE \E m \in Slots : ResumeInterrupt(m) \/ CancelRun(m) \/ StartRun(m) \/ StopRun(m)
                             \/ RequestFails(m) \/ \E t \in Threads : CreateThread(m, t)
    BY <1>13, <1>14
<1>15. CASE (\E r \in DOMAIN runs : TaskEnds(r)) \/ \E t \in threads : QueryReads(t)
    BY <1>13, <1>15
<1> QED BY <1>5, <1>6, <1>7, <1>8, <1>9, <1>11, <1>12, <1>14, <1>15 DEF ChatNext, AnswerArrives

(* The page strays from its thread only by an answer that arrives late (the*)
(* awaits of handleSendMessage and handleResumeInterrupt).                 *)
THEOREM OnlyLateAnswers == ChatSpec => OnlyLateAnswersStray
<1>1. WInv /\ [ChatNext]_chatVars => [~Foreign /\ Foreign' => LateAnswer]_chatVars
    BY StrayStep, WorkbenchAssumption
<1> QED BY <1>1, ChatInvariance, PTL DEF ChatSpec, OnlyLateAnswersStray

-----------------------------------------------------------------------------
(* The draft of a thread.                                                  *)

(* What becomes of a request to save.                                      *)
DraftStages == {"sent", "insert", "update", "saved", "refused"}

(* A slot that is free is told from one that is used.                      *)
LEMMA DraftSlots ==
    ASSUME DraftTypeOK, NEW p \in Saves
    PROVE  /\ save[p] = NoSave <=> save[p].at \notin DraftStages
           /\ save[p] # NoSave => save[p] \in [at : DraftStages, thread : ThreadIds, text : Texts]
BY DEF DraftTypeOK, NoSave, DraftStages

(* What fills a slot is a request for the thread shown.                    *)
LEMMA DraftPut ==
    ASSUME DraftTypeOK, Put(threadId)
    PROVE  save' \in [Saves -> {NoSave} \cup [at : DraftStages, thread : ThreadIds, text : Texts]]
BY DEF DraftTypeOK, Put, DraftStages

(* The cleanup of the effect writes nothing but what is pending.           *)
LEMMA DraftCleanUp ==
    ASSUME DraftTypeOK, CleanUpEffect
    PROVE  /\ save' \in [Saves -> {NoSave} \cup [at : DraftStages, thread : ThreadIds, text : Texts]]
           /\ render' \in BOOLEAN /\ pending' = FALSE
           /\ ~timer => save' = save
BY DraftPut DEF DraftTypeOK, CleanUpEffect, DraftStages

(* An answer to a query that is on its way is a text.                      *)
LEMMA DraftAnswer ==
    ASSUME NEW a \in Answers, a \notin {None, Asked}
    PROVE  a.text \in Texts
BY DEF Answers, Text

(* What an edit adds is a text.                                            *)
LEMMA DraftEdit ==
    ASSUME DraftTypeOK, IsFiniteSet(edits), Type
    PROVE  text' \in Texts /\ edits' \in Texts /\ IsFiniteSet(edits') /\ edits' # {}
<1>1. Cardinality(edits) \in Nat
    BY FS_CardinalityType
<1>2. PICK n \in 0..MaxEdits : /\ text' = text \cup {[thread |-> threadId, no |-> n]}
                               /\ edits' = edits \cup {[thread |-> threadId, no |-> n]}
    BY <1>1, DraftAssumption DEF Type
<1>3. threadId \in ThreadIds
    BY DEF DraftTypeOK
<1>4. [thread |-> threadId, no |-> n] \in AllEdits
    BY <1>3 DEF AllEdits
<1>5. PICK e \in AllEdits : e = [thread |-> threadId, no |-> n]
    BY <1>4
<1>6. text' = text \cup {e} /\ edits' = edits \cup {e}
    BY <1>2, <1>5
<1>7. text \in Texts /\ edits \in Texts
    BY DEF DraftTypeOK
<1>8. \A x \in Texts : x \cup {e} \in Texts
    BY <1>5 DEF Texts
<1>9. IsFiniteSet(edits')
    BY <1>6, FS_AddElement
<1> QED BY <1>6, <1>7, <1>8, <1>9

(* A page whose timer is off has seen no edit, and every slot keeps its    *)
(* shape, in every step.                                                   *)
LEMMA DraftStep == DInv /\ [DraftNext]_draftVars => DInv'
<1> SUFFICES ASSUME DInv, [DraftNext]_draftVars PROVE DInv'
    OBVIOUS
<1> USE DEF DInv, draftVars, page
<1>1. CASE Type
    BY <1>1, DraftEdit DEF Type, DraftTypeOK
<1>2. CASE TimerFires
    BY <1>2, DraftPut DEF TimerFires, DraftTypeOK, DraftStages
<1>3. CASE SaveNow
    BY <1>3, DraftPut, DraftAssumption DEF SaveNow, DraftTypeOK, DraftStages
<1>4. CASE Rerender
    BY <1>4, DraftCleanUp DEF Rerender, DraftTypeOK, DraftStages
<1>5. ASSUME NEW t \in ThreadIds, DraftReads(t) PROVE DInv'
  <2>1. LoadDraft(t) \in Answers
      BY DEF LoadDraft, Exists, DraftTypeOK, Answers, Texts
  <2> QED BY <1>5, <2>1 DEF DraftReads, DraftTypeOK
<1>6. ASSUME NEW t \in ThreadIds, DraftArrives(t) PROVE DInv'
  <2>1. query[t] \in Answers \ {Asked, None} /\ query[t].text \in Texts
      BY <1>6, DraftAnswer DEF DraftArrives, DraftTypeOK
  <2>2. /\ query' \in [ThreadIds -> Answers]
        /\ cache' \in [ThreadIds -> Answers \ {Asked}]
      BY <1>6, <2>1 DEF DraftArrives, DraftTypeOK, Answers
  <2>3. CASE threadId = t /\ cache[t] # query[t]
      BY <1>6, <2>1, <2>2, <2>3, DraftCleanUp DEF DraftArrives, Load, DraftTypeOK, DraftStages
  <2>4. CASE ~(threadId = t /\ cache[t] # query[t])
      BY <1>6, <2>2, <2>4 DEF DraftArrives, DraftTypeOK
  <2> QED BY <2>3, <2>4
<1>7. ASSUME NEW t \in ThreadIds, DraftFails(t) PROVE DInv'
    BY <1>7 DEF DraftFails, DraftTypeOK, Answers
<1>8. ASSUME NEW t \in ThreadIds, Switch(t) PROVE DInv'
  <2>1. text' \in Texts
      BY <1>8, DraftAnswer DEF Switch, Load, DraftTypeOK
  <2>2. query' \in [ThreadIds -> Answers] /\ switches' \in 0..MaxSwitches
      BY <1>8, DraftAssumption DEF Switch, DraftTypeOK, Answers
  <2> QED BY <1>8, <2>1, <2>2, DraftCleanUp DEF Switch, DraftTypeOK, DraftStages
<1>9. ASSUME NEW p \in Saves, SaveReads(p) PROVE DInv'
  <2>1. save[p] \in [at : DraftStages, thread : ThreadIds, text : Texts]
      BY <1>9, DraftSlots DEF SaveReads, DraftStages
  <2>2. \E a \in DraftStages : save' = [save EXCEPT ![p] = [save[p] EXCEPT !.at = a]]
      BY <1>9 DEF SaveReads, DraftStages
  <2>3. save' \in [Saves -> {NoSave} \cup [at : DraftStages, thread : ThreadIds, text : Texts]]
      BY <2>1, <2>2 DEF DraftTypeOK, DraftStages
  <2> QED BY <1>9, <2>3 DEF SaveReads, DraftTypeOK, DraftStages
<1>10. ASSUME NEW p \in Saves, SaveWrites(p) PROVE DInv'
  <2>1. save[p] \in [at : DraftStages, thread : ThreadIds, text : Texts]
      BY <1>10, DraftSlots DEF SaveWrites, DraftStages
  <2>2. \E a \in DraftStages : save' = [save EXCEPT ![p] = [save[p] EXCEPT !.at = a]]
      BY <1>10 DEF SaveWrites, UpsertDraft, DraftStages
  <2>3. save' \in [Saves -> {NoSave} \cup [at : DraftStages, thread : ThreadIds, text : Texts]]
      BY <2>1, <2>2 DEF DraftTypeOK, DraftStages
  <2>4. /\ Text(save[p].text) \in Answers \ {Asked}
        /\ Own(save[p].thread, save[p].text) \subseteq save[p].text
      BY <2>1 DEF Answers, Text, Asked, Own
  <2>5. draft' \in [ThreadIds -> Answers \ {Asked}]
      BY <1>10, <2>1, <2>4 DEF SaveWrites, UpsertDraft, DraftTypeOK
  <2>6. settled' \in Texts
      BY <1>10, <2>1, <2>4 DEF SaveWrites, DraftTypeOK, Texts
  <2> QED BY <1>10, <2>3, <2>5, <2>6 DEF SaveWrites, DraftTypeOK, DraftStages
<1>11. ASSUME NEW p \in Saves, SaveAnswered(p) PROVE DInv'
  <2>1. save[p] \in [at : DraftStages, thread : ThreadIds, text : Texts]
      BY <1>11, DraftSlots DEF SaveAnswered, DraftStages
  <2>2. Own(save[p].thread, save[p].text) \subseteq save[p].text
      BY DEF Own
  <2>3. settled' \in Texts
      BY <1>11, <2>1, <2>2 DEF SaveAnswered, DraftTypeOK, Texts
  <2>4. query' \in [ThreadIds -> Answers]
      BY <1>11, <2>1 DEF SaveAnswered, DraftTypeOK, Answers
  <2> QED BY <1>11, <2>3, <2>4 DEF SaveAnswered, DraftTypeOK, DraftStages
<1>12. CASE UNCHANGED draftVars
    BY <1>12 DEF DraftTypeOK
<1> QED BY <1>1, <1>2, <1>3, <1>4, <1>5, <1>6, <1>7, <1>8, <1>9, <1>10, <1>11, <1>12 DEF DraftNext

(* What a step does before the first edit: it fills no slot but when the   *)
(* user asks for it.                                                       *)
LEMMA DraftLooking ==
    ASSUME DInv, [DraftNext]_draftVars, edits = {}, NEW p \in Saves, save[p] = NoSave, save'[p] # NoSave
    PROVE  SaveNow
<1> USE DEF draftVars, page
<1>1. ~timer /\ ~pending /\ \A q \in Saves : save[q].at \in DraftStages => q # p
    BY DraftSlots DEF DInv
<1>2. save \in [Saves -> {NoSave} \cup [at : DraftStages, thread : ThreadIds, text : Texts]]
    BY DEF DInv, DraftTypeOK, DraftStages
<1>3. save' # save
    OBVIOUS
<1>4. ~Type /\ ~TimerFires /\ ~Rerender
    BY <1>1, <1>3 DEF Type, TimerFires, Rerender, CleanUpEffect
<1>5. ASSUME NEW t \in ThreadIds, DraftReads(t) \/ DraftArrives(t) \/ DraftFails(t) \/ Switch(t)
      PROVE  FALSE
    BY <1>1, <1>3, <1>5 DEF DraftReads, DraftArrives, DraftFails, Switch, CleanUpEffect
<1>6. ASSUME NEW q \in Saves, SaveReads(q) \/ SaveWrites(q) \/ SaveAnswered(q)
      PROVE  FALSE
    BY <1>1, <1>2, <1>6 DEF SaveReads, SaveWrites, UpsertDraft, SaveAnswered, DraftStages
<1> QED BY <1>3, <1>4, <1>5, <1>6 DEF DraftNext

(* The types of a draft's page and requests, and the timeout that only an  *)
(* edit sets (useDraft.ts, EditorTab.tsx, editor.py).                      *)
THEOREM DraftInvariance == DraftSpec => []DInv
<1>1. DraftInit => DInv
  <2>1. IsFiniteSet({})
      BY FS_EmptySet
  <2>2. DraftInit => DraftTypeOK
    <3> SUFFICES ASSUME DraftInit PROVE DraftTypeOK
        OBVIOUS
    <3>1. \A t \in ThreadIds : {Earlier(t)} \in Texts
        BY DraftAssumption DEF Earlier, Texts, AllEdits
    <3>2. draft \in [ThreadIds -> Answers \ {Asked}]
        BY <3>1 DEF DraftInit, Answers, None, Asked, Text
    <3>3. {text, edits, settled} \subseteq Texts
        BY DEF DraftInit, Texts
    <3>4. presses \in 0..MaxPresses /\ switches \in 0..MaxSwitches
        BY DraftAssumption DEF DraftInit
    <3>5. cache \in [ThreadIds -> Answers \ {Asked}] /\ query \in [ThreadIds -> Answers]
        BY DEF DraftInit, Answers, None, Asked
    <3> QED BY <3>2, <3>3, <3>4, <3>5 DEF DraftInit, DraftTypeOK
  <2> QED BY <2>1, <2>2 DEF DraftInit, DInv
<1>2. DInv /\ [DraftNext]_draftVars => DInv'
    BY DraftStep
<1> QED BY <1>1, <1>2, PTL DEF DraftSpec

(* Until the user types, only Mod-s saves: neither a draft that is loaded, *)
(* at whatever time, nor a change of the thread does (the effect of        *)
(* EditorTab.tsx that saves when it is cleaned up).                        *)
THEOREM LookingIsSafe == DraftSpec => LookingWritesNothing
<1>1. DInv /\ [DraftNext]_draftVars =>
        (edits = {} /\ (\E p \in Saves : save[p] = NoSave /\ save'[p] # NoSave) => SaveNow)
    BY DraftLooking
<1> QED BY DraftInvariance, <1>1, PTL DEF DraftSpec, LookingWritesNothing

-----------------------------------------------------------------------------
(* What the hook holds is a microphone or nothing, in every step.          *)
LEMMA VoiceTypeStep == VoiceTypeOK /\ [VoiceNext]_voiceVars => VoiceTypeOK'
<1> SUFFICES ASSUME VoiceTypeOK, [VoiceNext]_voiceVars PROVE VoiceTypeOK'
    OBVIOUS
<1> USE DEF VoiceTypeOK, refs, NoMic, SetStatus, CleanUp, StopTimer, Record, StopHeld
<1>1. CASE Leave
    BY <1>1 DEF Leave
<1>2. CASE StopRecording
    BY <1>2 DEF StopRecording
<1>3. ASSUME NEW k \in Mics, StartWebSpeech(k) PROVE VoiceTypeOK'
    BY <1>3 DEF StartWebSpeech, Start
<1>4. ASSUME NEW k \in Mics, StartGroqWhisper(k) \/ MicGranted(k) \/ MicRefused(k) PROVE VoiceTypeOK'
    BY <1>4 DEF StartGroqWhisper, Start, MicGranted, MicRefused
<1>5. ASSUME NEW k \in Mics, MaxTimerFires(k) PROVE VoiceTypeOK'
    BY <1>5 DEF MaxTimerFires
<1>6. ASSUME NEW k \in Mics, SpeechEnds(k) \/ SpeechError(k) PROVE VoiceTypeOK'
    BY <1>6 DEF SpeechEnds, SpeechError
<1>7. ASSUME NEW k \in Mics, DataAvailable(k) \/ RecorderStops(k) \/ Transcribed(k)
      PROVE  VoiceTypeOK'
    BY <1>7 DEF DataAvailable, RecorderStops, Transcribed, AfterAnswer
<1>8. CASE UNCHANGED voiceVars
    BY <1>8 DEF voiceVars
<1> QED BY <1>1, <1>2, <1>3, <1>4, <1>5, <1>6, <1>7, <1>8 DEF VoiceNext

(* What happened is not forgotten: a hook that has not raced never had.    *)
LEMMA VoiceRacedStays == [VoiceNext]_voiceVars /\ raced' = {} => raced = {}
BY DEF VoiceNext, voiceVars, Leave, StopRecording, StartWebSpeech, StartGroqWhisper, MicGranted, MicRefused,
       MaxTimerFires, SpeechEnds, SpeechError, DataAvailable, RecorderStops, Transcribed

-----------------------------------------------------------------------------
(* The phases of a hook that has not raced.                                *)
Phases == RestInv /\ BusyInv /\ GoneInv

(* The phases of a hook that has not raced, in every step.                 *)
LEMMA VoicePhaseStep == VInv /\ [VoiceNext]_voiceVars /\ raced' = {} => Phases'
<1> SUFFICES ASSUME VInv, [VoiceNext]_voiceVars, raced' = {} PROVE Phases'
    OBVIOUS
<1>0. raced = {} /\ VoiceTypeOK /\ RestInv /\ BusyInv /\ GoneInv
    BY VoiceRacedStays DEF VInv
<1> USE <1>0 DEF VoiceTypeOK, Phases, RestInv, BusyInv, GoneInv, Others, refs, NoMic, Mics,
                 SetStatus, CleanUp, StopTimer, Record, StopHeld
<1>1. CASE Leave
  <2>1. \A k \in Mics : mic[k] # "asking"
      BY <1>1 DEF Leave, Asking
  <2> QED BY <1>1, <2>1 DEF Leave
<1>2. CASE StopRecording
    BY <1>2 DEF StopRecording
<1>3. ASSUME NEW k \in Mics, StartWebSpeech(k) PROVE Phases'
  <2>1. mounted /\ mounted' /\ live = {} /\ \A j \in Mics : mic[j] \in {"no", "over"}
      BY <1>3 DEF StartWebSpeech, Start
  <2>2. CASE Record(k)
    <3>1. live' = {k} /\ held' = k /\ status' = "recording" /\ mic'[k] = "recording"
        BY <2>1, <2>2
    <3>2. \A j \in Mics \ {k} : mic'[j] \in {"no", "over"}
        BY <2>1, <2>2
    <3> QED BY <2>1, <3>1, <3>2
  <2>3. CASE ~Record(k)
    <3>1. live' = {} /\ status' = "error" /\ \A j \in Mics : mic'[j] \in {"no", "over"}
        BY <1>3, <2>1, <2>3 DEF StartWebSpeech
    <3> QED BY <2>1, <3>1
  <2> QED BY <2>2, <2>3
<1>4. ASSUME NEW k \in Mics, StartGroqWhisper(k) PROVE Phases'
  <2>1. \A j \in Mics : mic[j] # "asking"
      BY <1>4 DEF StartGroqWhisper, Asking
  <2> QED BY <1>4, <2>1 DEF StartGroqWhisper, Start
<1>5. ASSUME NEW k \in Mics, MicGranted(k) PROVE Phases'
  <2>1. mounted /\ mounted' /\ live = {} /\ \A j \in Mics \ {k} : mic[j] \in {"no", "over"}
      BY <1>5 DEF MicGranted
  <2>2. live' = {k} /\ held' = k /\ status' = "recording" /\ mic'[k] = "recording"
      BY <1>5, <2>1 DEF MicGranted
  <2>3. \A j \in Mics \ {k} : mic'[j] \in {"no", "over"}
      BY <1>5, <2>1 DEF MicGranted
  <2> QED BY <2>1, <2>2, <2>3
<1>6. ASSUME NEW k \in Mics, MicRefused(k) PROVE Phases'
  <2>1. /\ mounted /\ status \in {"idle", "error"} /\ engine = "groq-whisper"
        /\ mounted' /\ status' = "error"
      BY <1>6 DEF MicRefused
  <2>2. live' = {} /\ \A j \in Mics : mic'[j] \in {"no", "over"}
      BY <1>6, <2>1 DEF MicRefused
  <2> QED BY <2>1, <2>2
<1>7. ASSUME NEW k \in Mics, MaxTimerFires(k) PROVE Phases'
    BY <1>7 DEF MaxTimerFires
<1>8. ASSUME NEW k \in Mics, SpeechEnds(k) \/ SpeechError(k) PROVE Phases'
  <2>1. CASE SpeechEnds(k)
      BY <2>1 DEF SpeechEnds
  <2>2. CASE SpeechError(k)
      BY <2>2 DEF SpeechError
  <2> QED BY <1>8, <2>1, <2>2
<1>9. ASSUME NEW k \in Mics, DataAvailable(k) PROVE Phases'
    BY <1>9 DEF DataAvailable
<1>10. ASSUME NEW k \in Mics, RecorderStops(k) PROVE Phases'
    BY <1>10 DEF RecorderStops
<1>11. ASSUME NEW k \in Mics, Transcribed(k) PROVE Phases'
    BY <1>11 DEF Transcribed, AfterAnswer
<1>12. CASE UNCHANGED voiceVars
    BY <1>12 DEF voiceVars
<1> QED BY <1>1, <1>2, <1>3, <1>4, <1>5, <1>6, <1>7, <1>8, <1>9, <1>10, <1>11, <1>12 DEF VoiceNext

(* A hook that was never used is at rest.                                  *)
LEMMA VoiceStart == VoiceInit => VInv
BY DEF VoiceInit, VInv, VoiceTypeOK, RestInv, BusyInv, GoneInv, Others, NoMic, Mics

-----------------------------------------------------------------------------
(* The inductive invariant of the voice input: its types, and the phase of *)
(* every microphone as long as no start raced with another or with leaving *)
(* the page, for both engines and any number of starts.                    *)
THEOREM VoiceInvariance == VoiceSpec => []VInv
<1>1. VInv /\ [VoiceNext]_voiceVars => VInv'
    BY VoiceTypeStep, VoicePhaseStep DEF VInv, Phases
<1> QED BY VoiceStart, <1>1, PTL DEF VoiceSpec

(* A microphone that is on is the one held, and the user sees that it is,  *)
(* unless a start raced (useVoiceInput's startRecording, stop and cleanup).*)
THEOREM NobodyListensUnseen == VoiceSpec => []SeenUnlessRaced
<1>1. VInv => SeenUnlessRaced
    BY DEF VInv, VoiceTypeOK, RestInv, BusyInv, GoneInv, SeenUnlessRaced
<1> QED BY VoiceInvariance, <1>1, PTL
=============================================================================
