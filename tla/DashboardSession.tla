-------------------------- MODULE DashboardSession --------------------------
(***************************************************************************)
(* The dashboard's session in one browser tab: the API client's requests   *)
(* with their shared token refresh and single replay, the credentials in   *)
(* localStorage and cookies, the AuthProvider's copy of them, and the      *)
(* guards that decide whether the dashboard is shown.                      *)
(*                                                                         *)
(* JavaScript runs one continuation at a time, so an action is the code    *)
(* between two awaits.  A pair of credentials is the number of the login   *)
(* or refresh that issued it; 0 is no credential.  The auth server and     *)
(* Privy are external: the server accepts one refresh token, which it      *)
(* rotates, and access tokens until they expire.                           *)
(***************************************************************************)
EXTENDS Naturals, FiniteSets

CONSTANTS
    PageCalls,  \* requests a dashboard page makes
    MaxIssued   \* bound: credentials the server issues

\* "null" is the value of refreshInFlight when no call has started a refresh.
ASSUME SessionAssumption == MaxIssued \in Nat /\ "null" \notin PageCalls

Calls == PageCalls \cup {"login"}
Credentials == 0..MaxIssued
Roles == {"admin", "superadmin"}
NoRole == "null"

VARIABLES
    local,      \* localStorage: token, refresh_token, role
    cookies,    \* names of the auth cookies the browser holds
    role,       \* AuthProvider's role; no component reads its copy of the token
    privy,      \* usePrivy().authenticated
    view,       \* what the tab shows
    call,       \* authedFetch per call: progress, token of the last attempt, token refused
    flights,    \* refreshes on the wire: who started each and the token it spends
    inFlight,   \* refreshInFlight: the starter of the refresh to share, or "null"
    expired,    \* server: the last access token that is no longer accepted
    current,    \* server: the refresh token it accepts, or 0
    issued,     \* server: credentials issued so far
    answered,   \* history: refresh tokens whose fate the client was told
    lastRole,   \* history: role of the last login
    signedOut   \* history: signed out with nothing on the wire and not signed in since

serverVars == <<expired, current, issued>>
sessionVars == <<local, cookies, role, privy, view, call, flights, inFlight,
                 serverVars, answered, lastRole, signedOut>>

Idle == [pc |-> "idle", token |-> 0, refused |-> 0]
AuthCookies == {"token", "zaps-auth", "privy-token"}

\* middleware.ts, which runs before any /dashboard page is served
IsAuthenticated(cs) == cs \cap AuthCookies # {}

SessionInit ==
    /\ local = [token |-> 0, refresh |-> 0, role |-> NoRole]
    /\ cookies = {} /\ role = NoRole /\ privy = FALSE
    /\ view = "login"
    /\ call = [c \in Calls |-> Idle] /\ flights = {} /\ inFlight = "null"
    /\ expired = 0 /\ current = 0 /\ issued = 0
    /\ answered = {} /\ lastRole = NoRole /\ signedOut = FALSE

-----------------------------------------------------------------------------
(* Credentials in the browser. *)

\* mutant: the refresh token is never replaced.
RotatedNever(refresh) == local.refresh
\* A missing refresh token leaves the stored one.
Rotated(refresh) == IF refresh = 0 THEN local.refresh ELSE refresh

\* Both tokens, and the cookie the middleware reads.
StoreSession(token, refresh) ==
    /\ local' = [local EXCEPT !.token = token, !.refresh = Rotated(refresh)]
    /\ cookies' = cookies \cup {"token"}

\* mutant: clearSession forgets the refresh token.
ClearedHalf(l) == [l EXCEPT !.token = 0]
Cleared(l) == [l EXCEPT !.token = 0, !.refresh = 0]
\* mutant: clearSession forgets the cookies.
ClearedCookiesNone(cs) == cs
ClearedCookies(cs) == cs \ {"token", "zaps-auth"}

ClearSession == local' = Cleared(local) /\ cookies' = ClearedCookies(cookies)

-----------------------------------------------------------------------------
(* authedFetch: an attempt, one refresh on 401, one replay. *)

\* A page's request, or the PIN login of the login page.
Send(c) ==
    /\ call[c].pc = "idle"
    /\ view = IF c = "login" THEN "login" ELSE "dashboard"
    /\ call' = [call EXCEPT ![c] = [pc |-> "sent", token |-> local.token, refused |-> 0]]
    /\ UNCHANGED <<local, cookies, role, privy, view, flights, inFlight, serverVars,
                   answered, lastRole, signedOut>>

\* The attempt of a page's call ends: answered with data or an error the
\* caller reports, or lost.  A 401 to a first attempt goes to Refused instead.
Answered(c) ==
    /\ c \in PageCalls
    /\ call[c].pc \in {"sent", "replayed"}
    /\ call' = [call EXCEPT ![c] = Idle]
    /\ UNCHANGED <<local, cookies, role, privy, view, flights, inFlight, serverVars,
                   answered, lastRole, signedOut>>

\* mutant: every call starts a refresh of its own.
JoinsNothing == FALSE
\* refreshAccessToken: share the refresh on the wire, give up without a
\* refresh token, or start one.
Joins == inFlight # "null"
\* mutant: a refresh is attempted without a refresh token.
NeverGivesUp == FALSE
GivesUpRefresh == local.refresh = 0

\* The server answers 401: to a token it does not accept, or to a wrong PIN.
Refused(c) ==
    /\ call[c].pc = "sent"
    /\ c = "login" \/ call[c].token <= expired
    /\ \/ /\ Joins
          /\ call' = [call EXCEPT ![c].pc = "waiting", ![c].refused = call[c].token]
          /\ UNCHANGED <<flights, inFlight>>
       \/ /\ ~Joins /\ GivesUpRefresh
          /\ call' = [call EXCEPT ![c] = Idle]
          /\ UNCHANGED <<flights, inFlight>>
       \/ /\ ~Joins /\ ~GivesUpRefresh
          /\ call' = [call EXCEPT ![c].pc = "waiting", ![c].refused = call[c].token]
          /\ flights' = flights \cup {[by |-> c, spends |-> local.refresh]}
          /\ inFlight' = c
    /\ UNCHANGED <<local, cookies, role, privy, view, serverVars, answered, lastRole,
                   signedOut>>

\* mutant: only the call that started the refresh goes on.
WakesStarter(c) == c = inFlight
\* Every call that awaits the shared promise goes on when it resolves.
Wakes(c) == call[c].pc = "waiting"
\* mutant: the replay carries the token that was refused.
ReplaySame(c, token) == call[c].refused
ReplayToken(c, token) == token

\* The promise resolves: with a token every waiting call is sent again, without
\* one every waiting call reports its 401.
Resume(token) ==
    /\ call' = [c \in Calls |->
                   IF ~Wakes(c) THEN call[c]
                   ELSE IF token = 0 THEN Idle
                   ELSE [call[c] EXCEPT !.pc = "replayed",
                                        !.token = ReplayToken(c, token)]]
    /\ inFlight' = "null"

\* The server issues the next credentials.
Issue ==
    /\ issued < MaxIssued
    /\ issued' = issued + 1
    /\ UNCHANGED expired

RefreshSucceeds(f) ==
    /\ f \in flights /\ f.spends = current
    /\ flights' = flights \ {f}
    /\ Issue
    /\ \E rotates \in BOOLEAN :
          /\ current' = IF rotates THEN issued + 1 ELSE current
          /\ answered' = IF rotates THEN answered \cup {f.spends} ELSE answered
          /\ StoreSession(issued + 1, IF rotates THEN issued + 1 ELSE 0)
    /\ Resume(issued + 1)
    /\ UNCHANGED <<role, privy, view, lastRole, signedOut>>

\* A spent or revoked token, or an answer without a token.
RefreshRejected(f) ==
    /\ f \in flights
    /\ flights' = flights \ {f}
    /\ ClearSession
    /\ answered' = answered \cup {f.spends}
    /\ Resume(0)
    /\ UNCHANGED <<role, privy, view, serverVars, lastRole, signedOut>>

\* The answer is lost, whether or not the server rotated the token.
RefreshLost(f) ==
    /\ f \in flights
    /\ flights' = flights \ {f}
    /\ \/ UNCHANGED serverVars
       \/ f.spends = current /\ Issue /\ current' = issued + 1
    /\ Resume(0)
    /\ UNCHANGED <<local, cookies, role, privy, view, answered, lastRole, signedOut>>

-----------------------------------------------------------------------------
(* Signing in and out, and the guards. *)

\* mutant: a login keeps the role of the login before.
KeptRole(r) == IF local.role = NoRole THEN r ELSE local.role
StoredRole(r) == r

\* AuthProvider.login: the PIN was right.  The login page goes on to the
\* dashboard.
LoginSucceeds ==
    /\ call["login"].pc \in {"sent", "replayed"}
    /\ Issue /\ current' = issued + 1
    /\ \E r \in Roles :
          /\ local' = [token |-> issued + 1, refresh |-> issued + 1, role |-> StoredRole(r)]
          /\ role' = StoredRole(r)
          /\ lastRole' = r
    /\ cookies' = cookies \cup {"token"}
    /\ view' = "dashboard"
    /\ call' = [call EXCEPT !["login"] = Idle]
    /\ signedOut' = FALSE
    /\ UNCHANGED <<privy, flights, inFlight, answered>>

\* "Invalid user ID or PIN": a second 401, or a lost request.
LoginFails ==
    /\ call["login"].pc \in {"sent", "replayed"}
    /\ call' = [call EXCEPT !["login"] = Idle]
    /\ UNCHANGED <<local, cookies, role, privy, view, flights, inFlight, serverVars,
                   answered, lastRole, signedOut>>

\* Signing in with Privy; the login page and the layout then set their cookie
\* and the login page leaves for the dashboard.
PrivySignsIn ==
    /\ ~privy /\ privy' = TRUE
    /\ cookies' = cookies \cup {"privy-token", "zaps-auth"}
    /\ view' = "dashboard"
    /\ signedOut' = FALSE
    /\ UNCHANGED <<local, role, call, flights, inFlight, serverVars, answered, lastRole>>

\* Privy ends its session; no code of the dashboard removes zaps-auth then.
PrivySignsOut ==
    /\ privy /\ privy' = FALSE
    /\ cookies' = cookies \ {"privy-token"}
    /\ UNCHANGED <<local, role, view, call, flights, inFlight, serverVars, answered,
                   lastRole, signedOut>>

\* "Sign out" of the sidebar or the drawer.  The layout keeps showing the
\* dashboard: it read the session when it mounted.
Logout ==
    /\ view = "dashboard"
    /\ local' = [Cleared(local) EXCEPT !.role = NoRole]
    /\ role' = NoRole
    /\ cookies' = ClearedCookies(cookies)
    /\ signedOut' = (flights = {} /\ call["login"] = Idle /\ ~privy)
    /\ UNCHANGED <<privy, view, call, flights, inFlight, serverVars, answered, lastRole>>

\* What a guarded page shows when it is loaded: without a cookie the middleware
\* sends the browser to the login page; from there a Privy session leads back.
Guarded(cs) == IF IsAuthenticated(cs) \/ privy THEN "dashboard" ELSE "login"

\* The page is loaded anew, after a restart of the browser without its session
\* cookies: everything on the wire is forgotten, AuthProvider reads storage.
Load ==
    /\ \E restart \in BOOLEAN :
          LET kept == IF restart THEN cookies \ {"token", "zaps-auth"} ELSE cookies
              mark == IF privy THEN kept \cup {"zaps-auth"} ELSE kept
          IN /\ cookies' = mark
             /\ view' = Guarded(kept)
    /\ role' = local.role
    /\ call' = [c \in Calls |-> Idle] /\ flights' = {} /\ inFlight' = "null"
    /\ UNCHANGED <<local, privy, serverVars, answered, lastRole, signedOut>>

\* Following a link inside the dashboard: the layout stays mounted, and the
\* middleware is asked unless the router has the page cached.
Navigate ==
    /\ view = "dashboard"
    /\ ~IsAuthenticated(cookies)
    /\ view' = IF privy THEN "dashboard" ELSE "login"
    /\ cookies' = IF privy THEN cookies \cup {"zaps-auth"} ELSE cookies
    /\ UNCHANGED <<local, role, privy, call, flights, inFlight, serverVars, answered,
                   lastRole, signedOut>>

\* The server's access tokens expire, oldest first, and its refresh token is revoked.
Expire ==
    /\ expired < issued /\ expired' = expired + 1
    /\ UNCHANGED <<local, cookies, role, privy, view, call, flights, inFlight, current,
                   issued, answered, lastRole, signedOut>>

Revoke ==
    /\ current # 0 /\ current' = 0
    /\ UNCHANGED <<local, cookies, role, privy, view, call, flights, inFlight, expired,
                   issued, answered, lastRole, signedOut>>

RefreshEnds(f) == RefreshSucceeds(f) \/ RefreshRejected(f) \/ RefreshLost(f)
LoginEnds == LoginSucceeds \/ LoginFails

SessionNext ==
    \/ \E c \in Calls : Send(c) \/ Answered(c) \/ Refused(c)
    \/ \E f \in flights : RefreshEnds(f)
    \/ LoginSucceeds \/ LoginFails
    \/ PrivySignsIn \/ PrivySignsOut \/ Logout \/ Load \/ Navigate
    \/ Expire \/ Revoke

\* The browser ends every request in time, with an answer or a failure.
SessionFairness ==
    /\ \A c \in PageCalls : WF_sessionVars(Answered(c) \/ Refused(c))
    /\ WF_sessionVars(LoginEnds)
    /\ WF_sessionVars(\E f \in flights : RefreshEnds(f))
SessionSpec == SessionInit /\ [][SessionNext]_sessionVars /\ SessionFairness

-----------------------------------------------------------------------------
(* Properties. *)

SessionTypeOK ==
    /\ local \in [token : Credentials, refresh : Credentials, role : Roles \cup {NoRole}]
    /\ cookies \subseteq AuthCookies
    /\ role \in Roles \cup {NoRole}
    /\ privy \in BOOLEAN /\ signedOut \in BOOLEAN
    /\ view \in {"login", "dashboard"}
    /\ call \in [Calls -> [pc : {"idle", "sent", "waiting", "replayed"},
                           token : Credentials, refused : Credentials]]
    /\ flights \subseteq [by : Calls, spends : Credentials \ {0}]
    /\ inFlight \in Calls \cup {"null"}
    /\ expired \in 0..issued /\ current \in Credentials /\ issued \in Credentials
    /\ answered \subseteq Credentials /\ lastRole \in Roles \cup {NoRole}

\* refreshInFlight: however many requests meet a 401 together, and whatever
\* logins, sign-outs and reloads happen meanwhile, a refresh token is on the
\* wire at most once, and never again after the client learned its fate.
RefreshSpentOnce ==
    /\ \A f, g \in flights : f.spends = g.spends => f = g
    /\ \A f \in flights : f.spends \notin answered

\* authedFetch replays a refused request with the credential of the refresh it
\* waited for, never with the one that was refused.
ReplayIsFresh == \A c \in Calls :
    call[c].pc = "replayed" => call[c].token > call[c].refused

\* Rotation of the refresh token as refreshAccessToken and authedFetch do it:
\* spent once, and what waited for it goes on with what it brought.
TokensRotateOnce == SessionTypeOK /\ RefreshSpentOnce /\ ReplayIsFresh

\* The middleware's cookie and localStorage agree in the direction that matters:
\* the cookie never lets a browser in that has no token.
CookieMeansToken == "token" \in cookies => local.token # 0

\* Signing out with no refresh or login on the wire is final: no answer that
\* arrives later, no retry and no reload brings a credential back.
SignOutHolds == signedOut =>
    /\ local.token = 0 /\ local.refresh = 0
    /\ flights = {}
    /\ cookies \cap {"token", "zaps-auth"} = {}

\* useSuperAdmin follows the last login, across refreshes and reloads.
RoleIsLastLogin == role \in {NoRole, lastRole}

\* The credentials of three places (localStorage, cookies, the context's role)
\* are the ones of the user who logged in last and has not signed out.
SessionIsTheUsers == CookieMeansToken /\ SignOutHolds /\ RoleIsLastLogin

\* Every call of the API client ends, also the ones that wait for a refresh
\* another call started.
CallsSettle == \A c \in Calls : (call[c].pc # "idle") ~> (call[c].pc = "idle")
=============================================================================
