----------------------------- MODULE AuthService -----------------------------
(***************************************************************************)
(* Accounts, passwords and refresh tokens: backend/services/auth_service.py*)
(* behind backend/api/routers/auth.py, and the check of an access token in *)
(* backend/api/dependencies.py.                                            *)
(*                                                                         *)
(* An HTTP exchange occupies a channel from the moment it is sent until    *)
(* its sender takes the answer.  A password is the number of times it was  *)
(* set; a row of refresh_tokens is known by its place in the table; an     *)
(* access token is the account it names and whether it is still good.       *)
(***************************************************************************)
EXTENDS Naturals, Sequences

CONSTANTS Users,          \* e-mail addresses
          Registered,     \* those that have a verified account at the start
          Channels,       \* HTTP exchanges that can be under way at once
          MaxSessions,    \* bound on the rows of refresh_tokens
          MaxResets       \* bound on the resets of one password

ASSUME AuthAssumption ==
    /\ MaxSessions \in Nat /\ MaxResets \in Nat
    /\ Registered \subseteq Users

VARIABLES account,    \* what the row of users says of an e-mail address
          password,   \* 0: no password_hash
          resetting,  \* rows a reset under way is about to revoke, or NoReset
          sessions,   \* the committed rows of refresh_tokens
          exch        \* what goes on on a channel

serverVars == <<account, password, resetting, sessions, exch>>
accountVars == <<account, password, resetting>>

NoReset == {0}
Nobody == "nobody"
NoSession == 0
NoPassword == 0

(* A row that lives, with the account and the password that opened it:     *)
(* NoPassword if an OAuth provider did, or a login that a reset of the     *)
(* password overlapped.  Nothing is read from a row that was revoked.      *)
Rows == [user : Users, pw : 0..(MaxResets + 1)]
Revoked == [user |-> Nobody, pw |-> NoPassword]

AccessTokens == [user : Users, live : BOOLEAN]
NoToken == [user |-> Nobody, live |-> FALSE]
Expired(t) == [t EXCEPT !.live = FALSE]

(* What a client sends, and what it gets: an access token, a session whose *)
(* token was put in the cookie, the account of /auth/me.                   *)
Quiet == [kind |-> "none"]
Login(u) == [kind |-> "login", at |-> "sent", user |-> u, pw |-> password[u]]
Refresh(s) == [kind |-> "refresh", at |-> "sent", session |-> s]
Logout(s) == [kind |-> "logout", at |-> "sent", session |-> s]
Call(t) == [kind |-> "call", at |-> "sent", token |-> t]

Pending(c, kind) == exch[c].kind = kind /\ exch[c].at = "sent"
Answered(c, kind) == exch[c].kind = kind /\ exch[c].at \in {"granted", "denied"}
Granted(c, kind) == exch[c].kind = kind /\ exch[c].at = "granted"

Answer(c, reply) == exch' = [exch EXCEPT ![c] = reply]
Deny(c) == Answer(c, [kind |-> exch[c].kind, at |-> "denied"])

Fresh(u) == [user |-> u, live |-> TRUE]     \* create_access_token
Live(s) == s \in DOMAIN sessions /\ sessions[s] # Revoked
RevokeRows(R) == [s \in DOMAIN sessions |-> IF s \in R THEN Revoked ELSE sessions[s]]

AuthInit ==
    /\ account = [u \in Users |-> IF u \in Registered THEN "verified" ELSE "absent"]
    /\ password = [u \in Users |-> IF u \in Registered THEN 1 ELSE 0]
    /\ resetting = [u \in Users |-> NoReset]
    /\ sessions = <<>>
    /\ exch = [c \in Channels |-> Quiet]

-----------------------------------------------------------------------------
(* The services change rows, the endpoints commit what they changed.       *)
(* register_user: a second insert of the address is refused by the query or*)
(* by the unique constraint.                                               *)
RegisterUser(u) ==
    /\ account[u] = "absent"
    /\ account' = [account EXCEPT ![u] = "unverified"]
    /\ password' = [password EXCEPT ![u] = 1]

Register(u) == RegisterUser(u) /\ UNCHANGED <<resetting, sessions, exch>>

(* The link is sent to the address by register_user.                       *)
VerifyEmailToken(u) ==
    /\ account[u] = "unverified"
    /\ account' = [account EXCEPT ![u] = "verified"]

VerifyEmail(u) == VerifyEmailToken(u) /\ UNCHANGED <<password, resetting, sessions, exch>>

-----------------------------------------------------------------------------
(* reset_password.  The new hash is flushed, which makes another reset of  *)
(* the account wait, and the rows to revoke are selected among those that  *)
(* are committed; the commit publishes the hash and the revocations.  One  *)
(* account is reset at a time (a bound).                                   *)
(* A login of the account that is between its check and its commit is one  *)
(* the selection cannot see.                                               *)

(* request_password_reset sends any account a link, which is a signed token*)
(* that nothing remembers: it is good again after a reset.                 *)
ResetLink(u) == account[u] # "absent"

OfUser(u) == {s \in DOMAIN sessions : sessions[s].user = u}

ResetSelect(u) ==
    /\ ResetLink(u)
    /\ \A v \in Users : resetting[v] = NoReset /\ password[v] <= MaxResets
    /\ resetting' = [resetting EXCEPT ![u] = OfUser(u)]
    /\ exch' = [c \in Channels |->
                  IF exch[c].kind = "login" /\ exch[c].at = "checked" /\ exch[c].user = u
                  THEN [exch[c] EXCEPT !.pw = NoPassword] ELSE exch[c]]
    /\ UNCHANGED <<account, password, sessions>>

(* Broken: the rows are left as they are.                                  *)
ResetCommitKeepsSessions(u) ==
    /\ resetting[u] # NoReset
    /\ password' = [password EXCEPT ![u] = @ + 1]
    /\ resetting' = [resetting EXCEPT ![u] = NoReset]
    /\ UNCHANGED <<account, sessions, exch>>

ResetCommit(u) ==
    /\ resetting[u] # NoReset
    /\ password' = [password EXCEPT ![u] = @ + 1]
    /\ sessions' = RevokeRows(resetting[u])
    /\ resetting' = [resetting EXCEPT ![u] = NoReset]
    /\ UNCHANGED <<account, exch>>

-----------------------------------------------------------------------------
OpenedWith(u) == IF resetting[u] = NoReset THEN password[u] ELSE NoPassword

(* login: the account is read and the password checked; the row of the     *)
(* refresh token is committed later.                                       *)
LoginCheck(c) ==
    /\ Pending(c, "login")
    /\ LET u == exch[c].user IN
       IF account[u] = "verified" /\ password[u] # 0 /\ exch[c].pw = password[u]
       THEN Answer(c, [kind |-> "login", at |-> "checked", user |-> u, pw |-> OpenedWith(u)])
       ELSE Deny(c)
    /\ UNCHANGED <<accountVars, sessions>>

NewSession(u, pw) ==
    /\ Len(sessions) < MaxSessions
    /\ sessions' = Append(sessions, [user |-> u, pw |-> pw])

(* What follows the check: the two tokens, and the row of the second.      *)
LoginUser(c) ==
    /\ NewSession(exch[c].user, exch[c].pw)
    /\ Answer(c, [kind |-> "login", at |-> "granted",
                  token |-> Fresh(exch[c].user), session |-> Len(sessions) + 1])

LoginCommit(c) ==
    /\ exch[c].kind = "login" /\ exch[c].at = "checked"
    /\ LoginUser(c)
    /\ UNCHANGED <<accountVars>>

(* oauth_login_or_register: the account is found by its identifier or its  *)
(* address, or created; the provider vouches for the address.              *)
OAuthAccount(u) ==
    /\ account' = [account EXCEPT ![u] = "verified"]
    /\ NewSession(u, NoPassword)
    /\ UNCHANGED <<password, resetting>>

(* The row of the cookie is looked up and an access token signed; the      *)
(* refresh token itself is not replaced.                                   *)
RefreshAccessToken(c, s) ==
    /\ Live(s)
    /\ Answer(c, [kind |-> "refresh", at |-> "granted", token |-> Fresh(sessions[s].user)])

(* refresh.  A refusal stands for a missing, revoked or expired token, a   *)
(* full server or a lost connection.                                       *)
RefreshAnswer(c) ==
    /\ Pending(c, "refresh")
    /\ RefreshAccessToken(c, exch[c].session) \/ Deny(c)
    /\ UNCHANGED <<accountVars, sessions>>

(* The row of the cookie, if there is one, is revoked.                     *)
LogoutUser(s) == sessions' = RevokeRows({s})

(* logout, or the request fails on its way.                                *)
LogoutAnswer(c) ==
    /\ Pending(c, "logout")
    /\ \/ LogoutUser(exch[c].session)
          /\ Answer(c, [kind |-> "logout", at |-> "granted"])
       \/ Deny(c) /\ UNCHANGED sessions
    /\ UNCHANGED <<accountVars>>

(* get_current_user: the signature and the date of the access token, and   *)
(* the existence of the account; no row of refresh_tokens is looked at.    *)
Authenticated(t) == t.live

(* /auth/me, or any other request that depends on the current user.        *)
CallAnswer(c) ==
    /\ Pending(c, "call")
    /\ LET t == exch[c].token IN
       IF Authenticated(t)
       THEN Answer(c, [kind |-> "call", at |-> "granted", user |-> t.user])
       ELSE Deny(c)
    /\ UNCHANGED <<accountVars, sessions>>

(* The access tokens issued so far expire, those on their way too.         *)
Expire ==
    exch' = [c \in Channels |-> IF "token" \in DOMAIN exch[c]
                                THEN [exch[c] EXCEPT !.token = Expired(@)] ELSE exch[c]]

ServerAnswer(c) ==
    LoginCheck(c) \/ LoginCommit(c) \/ RefreshAnswer(c) \/ LogoutAnswer(c) \/ CallAnswer(c)

ServerStep ==
    \/ \E u \in Users : \/ Register(u) \/ VerifyEmail(u)
                        \/ ResetSelect(u) \/ ResetCommit(u)
    \/ \E c \in Channels : ServerAnswer(c)

-----------------------------------------------------------------------------
(* What a channel holds.                                                   *)
Messages ==
    {Quiet} \cup
    [kind : {"login"}, at : {"sent", "checked"}, user : Users, pw : 0..(MaxResets + 1)] \cup
    [kind : {"login"}, at : {"granted"}, token : AccessTokens, session : 1..MaxSessions] \cup
    [kind : {"refresh", "logout"}, at : {"sent"}, session : 0..MaxSessions] \cup
    [kind : {"refresh"}, at : {"granted"}, token : AccessTokens] \cup
    [kind : {"logout"}, at : {"granted"}] \cup
    [kind : {"call"}, at : {"sent"}, token : AccessTokens \cup {NoToken}] \cup
    [kind : {"call"}, at : {"granted"}, user : Users] \cup
    [kind : {"login", "refresh", "logout", "call"}, at : {"denied"}]

AccountTypeOK ==
    /\ account \in [Users -> {"absent", "unverified", "verified"}]
    /\ password \in [Users -> 0..(MaxResets + 1)]
    /\ resetting \in [Users -> SUBSET (0..MaxSessions)]
    /\ sessions \in Seq(Rows \cup {Revoked})
    /\ Len(sessions) <= MaxSessions
    /\ exch \in [Channels -> Messages]

(* Safety.  A reset of the password ends the sessions of the old one: a    *)
(* session that still lives was opened with a password set since, or by a  *)
(* login that overlapped the reset, which the reset could not see          *)
(* (reset_password's select against login_user's flush).                   *)
SurvivorsOverlapReset ==
    \A s \in DOMAIN sessions :
        Live(s) /\ sessions[s].pw # NoPassword => sessions[s].pw = password[sessions[s].user]

-----------------------------------------------------------------------------
(* The inductive invariant behind SurvivorsOverlapReset: what a reset that *)
(* is under way did not select was opened by a login that overlaps it.     *)
Checked(c) == exch[c].kind = "login" /\ exch[c].at = "checked"

ResetInv ==
    /\ \A u \in Users :
          /\ account[u] = "absent" => password[u] = 0
          /\ resetting[u] # NoReset => account[u] # "absent" /\ password[u] <= MaxResets
    /\ \A s \in DOMAIN sessions :
          Live(s) /\ sessions[s].pw # NoPassword =>
             LET u == sessions[s].user
             IN  sessions[s].pw = password[u] /\ (resetting[u] = NoReset \/ s \in resetting[u])
    /\ \A c \in Channels :
          Checked(c) /\ exch[c].pw # NoPassword =>
             LET u == exch[c].user
             IN  exch[c].pw = password[u] /\ resetting[u] = NoReset
=============================================================================
