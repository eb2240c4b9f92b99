---------------------------- MODULE SessionClient ----------------------------
(***************************************************************************)
(* A page of the browser application over AuthService: the axios client of *)
(* frontend/src/lib/api.ts with its refresh of the access token, the state *)
(* of features/auth/AuthProvider.tsx, the guards and the OAuth callback.   *)
(* The page shares the refresh cookie with another tab of the browser, of  *)
(* which only the logins and logouts are modelled.  JavaScript runs to     *)
(* completion: one action is a handler up to its next await.               *)
(***************************************************************************)
EXTENDS AuthService

CONSTANT Data       \* requests the page can have under way

Calls == Data \cup {"me_init", "me_page"}   \* the two GET /auth/me

ASSUME ChannelsAssumption ==
    /\ Channels = Calls \cup {"init", "form", "refresh"}
    /\ Data \cap {"me_init", "me_page", "init", "form", "refresh"} = {}

VARIABLES cookie,      \* session of the refresh_token cookie
          place,       \* the page shows the application, or the provider's
          loading,     \* isLoading of AuthProvider
          shown,       \* user of AuthProvider, with isAuthenticated
          token,       \* currentToken of api.ts
          fragment,    \* access token in the URL of the OAuth callback
          req,         \* what became of a request of the page
          retried,     \* requests marked _retry
          refreshing,  \* isRefreshing
          waiting      \* requests in refreshSubscribers

pageVars == <<place, loading, shown, token, fragment, req, retried, refreshing, waiting>>
sessionVars == <<serverVars, cookie, pageVars>>

SessionInit ==
    /\ AuthInit
    /\ cookie = NoSession
    /\ place = "app"
    /\ loading = FALSE      \* AuthProvider found no session and gave up
    /\ shown = Nobody
    /\ token = NoToken
    /\ fragment = NoToken
    /\ req = [c \in Calls |-> "idle"]
    /\ retried = {}
    /\ refreshing = FALSE
    /\ waiting = {}

-----------------------------------------------------------------------------
(* The interceptors of api.ts.                                             *)

(* What follows a GET /auth/me: AuthProvider takes the user or signs the   *)
(* page out, the callback page calls login() or shows an error.            *)
MeArrives(c, ok, user) ==
    CASE c = "me_init" /\ ok ->
            shown' = user /\ loading' = FALSE /\ UNCHANGED token
      [] c = "me_init" /\ ~ok ->
            shown' = Nobody /\ loading' = FALSE /\ token' = NoToken
      [] c = "me_page" /\ ok ->
            shown' = user /\ token' = fragment /\ UNCHANGED loading
      [] OTHER -> UNCHANGED <<shown, loading, token>>

(* The request c of the page is settled, those of D never will be.         *)
Settle(c, D) ==
    /\ req' = [d \in Calls |-> IF d = c THEN "idle" ELSE IF d \in D THEN "lost" ELSE req[d]]
    /\ retried' = retried \ {c}
    /\ fragment' = IF c = "me_page" THEN NoToken ELSE fragment

(* A view of the application sends a request: the page is past its guards. *)
Loaded == ~loading /\ req["me_page"] = "idle"

Send(d) ==
    /\ place = "app" /\ Loaded /\ shown # Nobody
    /\ req[d] \in {"idle", "lost"}
    /\ req' = [req EXCEPT ![d] = "sent"]
    /\ Answer(d, Call(token))
    /\ UNCHANGED <<accountVars, sessions, cookie, place, loading, shown,
                   token, fragment, retried, refreshing, waiting>>

Delivered(c) ==
    /\ Granted(c, "call")
    /\ Settle(c, {})
    /\ MeArrives(c, TRUE, exch[c].user)
    /\ Answer(c, Quiet)
    /\ UNCHANGED <<accountVars, sessions, cookie, place, refreshing, waiting>>

(* A 401 of a request that was sent again already is final.                *)
Rejected(c) ==
    /\ Answered(c, "call") /\ ~Granted(c, "call")
    /\ c \in retried
    /\ Settle(c, {})
    /\ MeArrives(c, FALSE, Nobody)
    /\ Answer(c, Quiet)
    /\ UNCHANGED <<accountVars, sessions, cookie, place, refreshing, waiting>>

(* A 401 while a refresh is under way: the request waits for its outcome.  *)
Subscribe(c) ==
    /\ Answered(c, "call") /\ ~Granted(c, "call")
    /\ c \notin retried /\ refreshing
    /\ req' = [req EXCEPT ![c] = "waiting"]
    /\ waiting' = waiting \cup {c}
    /\ Answer(c, Quiet)
    /\ UNCHANGED <<accountVars, sessions, cookie, place, loading, shown,
                   token, fragment, retried, refreshing>>

(* Any other 401 starts a refresh.                                         *)
StartRefresh(c) ==
    /\ Answered(c, "call") /\ ~Granted(c, "call")
    /\ c \notin retried /\ ~refreshing
    /\ req' = [req EXCEPT ![c] = "refreshing"]
    /\ retried' = retried \cup {c}
    /\ refreshing' = TRUE
    /\ exch' = [exch EXCEPT ![c] = Quiet, !["refresh"] = Refresh(cookie)]
    /\ UNCHANGED <<accountVars, sessions, cookie, place, loading, shown,
                   token, fragment, waiting>>

Origin(c) == req[c] = "refreshing"

(* The token is set and every request that waited is sent again with it.   *)
Refreshed ==
    /\ Granted("refresh", "refresh")
    /\ LET t == exch["refresh"].token
           again == waiting \cup {c \in Calls : Origin(c)}
       IN  /\ token' = t
           /\ exch' = [c \in Channels |-> IF c = "refresh" THEN Quiet
                                          ELSE IF c \in again THEN Call(t) ELSE exch[c]]
           /\ req' = [c \in Calls |-> IF c \in again THEN "sent" ELSE req[c]]
    /\ refreshing' = FALSE
    /\ waiting' = {}
    /\ UNCHANGED <<accountVars, sessions, cookie, place, loading, shown,
                   fragment, retried>>

(* Broken: isRefreshing is only reset when the refresh succeeds.           *)
RefreshFailedKeepsFlag ==
    /\ Answered("refresh", "refresh") /\ ~Granted("refresh", "refresh")
    /\ \E c \in Calls : Origin(c) /\ Settle(c, waiting)
    /\ token' = NoToken
    /\ waiting' = {}
    /\ Answer("refresh", Quiet)
    /\ UNCHANGED <<accountVars, sessions, cookie, place, loading, shown, refreshing>>

(* The token is dropped and the request that started the refresh rejected; *)
(* the list of those that waited is emptied: they are lost.                *)
(* The user of AuthProvider stays.                                         *)
RefreshFailed ==
    /\ Answered("refresh", "refresh") /\ ~Granted("refresh", "refresh")
    /\ \E c \in Calls : Origin(c) /\ Settle(c, waiting)
    /\ refreshing' = FALSE
    /\ waiting' = {}
    /\ Answer("refresh", Quiet)
    /\ IF Origin("me_init") THEN MeArrives("me_init", FALSE, Nobody)
       ELSE token' = NoToken /\ UNCHANGED <<shown, loading>>
    /\ UNCHANGED <<accountVars, sessions, cookie, place>>

-----------------------------------------------------------------------------
(* AuthProvider and the login page, which GuestGuard shows to nobody else. *)
InitArrives ==
    /\ Answered("init", "refresh")
    /\ IF Granted("init", "refresh")
       THEN /\ token' = exch["init"].token
            /\ exch' = [exch EXCEPT !["init"] = Quiet, !["me_init"] = Call(exch["init"].token)]
            /\ req' = [req EXCEPT !["me_init"] = "sent"]
            /\ UNCHANGED <<shown, loading>>
       ELSE /\ MeArrives("me_init", FALSE, Nobody)
            /\ Answer("init", Quiet)
            /\ UNCHANGED req
    /\ UNCHANGED <<accountVars, sessions, cookie, place, fragment,
                   retried, refreshing, waiting>>

Guest == place = "app" /\ ~loading /\ shown = Nobody /\ exch["form"] = Quiet

SubmitLogin(u) ==
    /\ Guest
    /\ Answer("form", Login(u))
    /\ UNCHANGED <<accountVars, sessions, cookie, pageVars>>

SubmitLogout ==
    /\ place = "app" /\ ~loading /\ shown # Nobody /\ exch["form"] = Quiet
    /\ Answer("form", Logout(cookie))
    /\ UNCHANGED <<accountVars, sessions, cookie, pageVars>>

(* Broken: the page shows the account and goes on with the token it had.   *)
SignedInKeepsToken ==
    /\ Answered("form", "login")
    /\ IF Granted("form", "login")
       THEN /\ cookie' = exch["form"].session
            /\ shown' = exch["form"].token.user
            /\ token' = IF token = NoToken THEN exch["form"].token ELSE token
       ELSE UNCHANGED <<cookie, token, shown>>
    /\ Answer("form", Quiet)
    /\ UNCHANGED <<accountVars, sessions, place, loading, fragment, req,
                   retried, refreshing, waiting>>

SignedIn ==
    /\ Answered("form", "login")
    /\ IF Granted("form", "login")
       THEN /\ cookie' = exch["form"].session
            /\ token' = exch["form"].token
            /\ shown' = exch["form"].token.user
       ELSE UNCHANGED <<cookie, token, shown>>
    /\ Answer("form", Quiet)
    /\ UNCHANGED <<accountVars, sessions, place, loading, fragment, req,
                   retried, refreshing, waiting>>

SignedOut ==
    /\ Answered("form", "logout")
    /\ cookie' = IF Granted("form", "logout") THEN NoSession ELSE cookie
    /\ token' = NoToken
    /\ shown' = Nobody
    /\ Answer("form", Quiet)
    /\ UNCHANGED <<accountVars, sessions, place, loading, fragment, req,
                   retried, refreshing, waiting>>

-----------------------------------------------------------------------------
(* OAuth: the page leaves for the provider and comes back as a new page.   *)
(* What it had under way changes nothing at the server.                    *)
OAuthAuthorize ==
    /\ Guest
    /\ place' = "provider"
    /\ exch' = [c \in Channels |-> Quiet]
    /\ req' = [c \in Calls |-> "idle"]
    /\ token' = NoToken /\ fragment' = NoToken
    /\ retried' = {} /\ waiting' = {} /\ refreshing' = FALSE
    /\ UNCHANGED <<accountVars, sessions, cookie, loading, shown>>

(* A page that has just loaded: AuthProvider posts /auth/refresh, with the *)
(* cookie c; t is the access token in its URL.                             *)
PageLoads(c, t) ==
    /\ place' = "app"
    /\ loading' = TRUE
    /\ shown' = Nobody
    /\ token' = t /\ fragment' = t
    /\ req' = [d \in Calls |-> IF d = "me_page" /\ t # NoToken THEN "sent" ELSE "idle"]
    /\ retried' = {}
    /\ refreshing' = FALSE
    /\ waiting' = {}
    /\ exch' = [d \in Channels |->
                  CASE d = "init" -> Refresh(c)
                    [] d = "me_page" /\ t # NoToken -> Call(t)
                    [] OTHER -> Quiet]

(* oauth_callback, when the state the provider returns is the cookie's and *)
(* its code is good.                                                       *)
OAuthCallback(u) ==
    /\ place = "provider"
    /\ OAuthAccount(u)
    /\ cookie' = Len(sessions) + 1
    /\ PageLoads(cookie', Fresh(u))

(* The user comes back without a token, or reloads the page.               *)
PageReturns ==
    /\ place = "provider" \/ exch["form"] = Quiet
    /\ PageLoads(cookie, NoToken)
    /\ UNCHANGED <<accountVars, sessions, cookie>>

-----------------------------------------------------------------------------
(* The other tab signs in and out, which replaces the cookie they share:   *)
(* only the instant at which the table and the cookie change is kept.      *)
OtherSignsIn(u) ==
    /\ account[u] = "verified" /\ password[u] # 0
    /\ NewSession(u, OpenedWith(u))
    /\ cookie' = Len(sessions) + 1
    /\ UNCHANGED <<accountVars, exch, pageVars>>

OtherSignsOut ==
    /\ cookie # NoSession
    /\ LogoutUser(cookie)
    /\ cookie' = NoSession
    /\ UNCHANGED <<accountVars, exch, pageVars>>

-----------------------------------------------------------------------------
Arrives(c) == Delivered(c) \/ Rejected(c) \/ Subscribe(c) \/ StartRefresh(c)
RefreshArrives == Refreshed \/ RefreshFailed
FormArrives == SignedIn \/ SignedOut

ServerOnly == UNCHANGED <<cookie, pageVars>>

(* Those that the page holds expire with the others.                       *)
TokensExpire ==
    /\ Expire
    /\ token' = Expired(token) /\ fragment' = Expired(fragment)
    /\ UNCHANGED <<accountVars, sessions, cookie, place, loading, shown, req,
                   retried, refreshing, waiting>>

SessionNext ==
    \/ ServerStep /\ ServerOnly
    \/ TokensExpire
    \/ \E d \in Data : Send(d)
    \/ \E c \in Calls : Arrives(c)
    \/ RefreshArrives \/ InitArrives \/ FormArrives
    \/ \E u \in Users : SubmitLogin(u) \/ OAuthCallback(u) \/ OtherSignsIn(u)
    \/ SubmitLogout \/ OAuthAuthorize \/ PageReturns
    \/ OtherSignsOut

(* An exchange is answered and its answer handled; nobody has to begin one.*)
SessionFairness ==
    /\ \A c \in Calls : /\ WF_sessionVars(CallAnswer(c) /\ ServerOnly)
                        /\ WF_sessionVars(Arrives(c))
    /\ \A c \in {"init", "refresh"} : WF_sessionVars(RefreshAnswer(c) /\ ServerOnly)
    /\ WF_sessionVars(RefreshArrives) /\ WF_sessionVars(InitArrives)

SessionSpec == SessionInit /\ [][SessionNext]_sessionVars /\ SessionFairness

-----------------------------------------------------------------------------
(* Correctness.                                                            *)
Statuses == {"idle", "sent", "waiting", "refreshing", "lost"}

SessionTypeOK ==
    /\ AccountTypeOK
    /\ cookie \in 0..MaxSessions
    /\ place \in {"app", "provider"}
    /\ shown \in Users \cup {Nobody}
    /\ {token, fragment} \subseteq AccessTokens \cup {NoToken}
    /\ req \in [Calls -> Statuses]
    /\ retried \subseteq Calls
    /\ waiting \subseteq {c \in Calls : req[c] = "waiting"}
    /\ {loading, refreshing} \subseteq BOOLEAN

(* Liveness.  A request of the page settles, whatever fails or is revoked, *)
(* unless a failed refresh lost it; the next request is not held up by     *)
(* that (the response interceptor of api.ts).  Access tokens that expire   *)
(* over and over are excepted: a request that waits for a refresh is not   *)
(* marked and goes round again.                                            *)
RequestsSettle ==
    []<><<TokensExpire>>_sessionVars \/
        \A c \in Calls : req[c] \in {"sent", "waiting", "refreshing"} ~> req[c] \in {"idle", "lost"}

(* The account the page shows is not the one its token speaks for.         *)
Mixed == shown # Nobody /\ token # NoToken /\ token.user # shown

(* Action property.  A page that has loaded comes to act for another       *)
(* account than the one it shows only by a refresh: the cookie belongs to  *)
(* another account by then, or the answer outlived the user's logout.      *)
OnlyRefreshMixesUsers ==
    [][Loaded /\ ~Mixed /\ Mixed' =>
          Granted("refresh", "refresh") /\ exch["refresh"].token = token']_sessionVars

-----------------------------------------------------------------------------
(* The inductive invariant behind OnlyRefreshMixesUsers: a request has one *)
(* place to be in, one at most began the refresh, and what AuthProvider    *)
(* asks for at its start ends before it has loaded.                        *)
PageInv ==
    /\ \A c \in Calls : exch[c] # Quiet => req[c] = "sent"
    /\ \A c, d \in Calls : Origin(c) /\ Origin(d) => c = d
    /\ \A c \in Calls : Origin(c) => refreshing
    /\ req["me_init"] # "idle" => loading /\ exch["init"] = Quiet
    /\ exch["init"] # Quiet => loading

SInv == SessionTypeOK /\ ResetInv /\ PageInv
=============================================================================
