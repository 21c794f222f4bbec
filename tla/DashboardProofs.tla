-------------------------- MODULE DashboardProofs ---------------------------
(***************************************************************************)
(* What holds of the dashboard for every size of it.  Of the session, for  *)
(* every set of page requests and however many credentials are issued: a   *)
(* refresh token is spent once, a replay carries what the refresh brought, *)
(* and the stored credentials are those of the user who logged in last.    *)
(* Of the pages, for all files, users, rows and bounds: what is acted on   *)
(* was reviewed, and what is shown is what was asked for last.             *)
(***************************************************************************)
EXTENDS DashboardSession, DashboardPages, FiniteSetTheorems, TLAPS

-----------------------------------------------------------------------------
(***************************************************************************)
(* The session.                                                            *)
(***************************************************************************)

\* Nothing the browser holds or sends was issued in the future.
OnlyIssued ==
    /\ local.token <= issued /\ local.refresh <= issued
    /\ \A c \in Calls : call[c].token <= issued /\ call[c].refused <= issued
    /\ \A f \in flights : f.spends <= issued
    /\ \A n \in answered : n <= issued

\* refreshInFlight is set exactly while a refresh is on the wire, and then there
\* is one: RefreshSpentOnce alone does not survive a second 401.
OneFlight ==
    /\ (inFlight = "null") <=> (flights = {})
    /\ \A f, g \in flights : f = g

\* The stored refresh token is one whose fate is open.
StoredIsOpen == local.refresh # 0 => local.refresh \notin answered

RotationInv == TokensRotateOnce /\ OnlyIssued /\ OneFlight /\ StoredIsOpen

\* A finished sign-out is also one from Privy, and the stored role is the one
\* a reload would show.
UserInv ==
    /\ SessionIsTheUsers
    /\ signedOut => ~privy
    /\ local.role \in {NoRole, lastRole}

-----------------------------------------------------------------------------
(***************************************************************************)
(* Calls.                                                                  *)
(***************************************************************************)

CallStates == [pc : {"idle", "sent", "waiting", "replayed"},
               token : Credentials, refused : Credentials]

\* What the invariant says of one call when n credentials have been issued.
CallFits(r, n) ==
    /\ r \in CallStates
    /\ r.pc = "replayed" => r.token > r.refused
    /\ r.token <= n /\ r.refused <= n

\* The parts of the invariant about calls are those of each call.
LEMMA CallsFit ==
    RotationInv <=> /\ call \in [Calls -> CallStates]
                    /\ \A c \in Calls : CallFits(call[c], issued)
                    /\ RotationInv
<1> QED
  BY DEF RotationInv, TokensRotateOnce, SessionTypeOK, ReplayIsFresh, OnlyIssued, CallFits,
         CallStates

\* Issuing more credentials disturbs no call.
LEMMA CallsFitLater ==
    ASSUME NEW n \in Nat, NEW r, CallFits(r, n)
    PROVE  CallFits(r, n + 1)
<1>1. r.token \in Nat /\ r.refused \in Nat
  BY SessionAssumption DEF CallFits, CallStates, Credentials
<1> QED
  BY <1>1 DEF CallFits

LEMMA IdleFits ==
    ASSUME NEW n \in Nat
    PROVE  CallFits(Idle, n)
<1>1. 0 \in Credentials
  BY SessionAssumption DEF Credentials
<1> QED
  BY <1>1 DEF CallFits, CallStates, Idle

\* The promise of a refresh that brought the next credentials: every call that
\* waited goes on with a token newer than the one it was refused.
LEMMA ResumeWithToken ==
    ASSUME RotationInv, issued < MaxIssued, Resume(issued + 1)
    PROVE  call' \in [Calls -> CallStates] /\ \A c \in Calls : CallFits(call'[c], issued + 1)
<1>1. issued \in Nat /\ issued + 1 \in Credentials /\ issued + 1 # 0
  BY SessionAssumption DEF RotationInv, TokensRotateOnce, SessionTypeOK, Credentials
<1>2. ASSUME NEW c \in Calls PROVE CallFits(call'[c], issued + 1)
  <2>1. CallFits(call[c], issued)
    BY CallsFit
  <2>2. CASE ~Wakes(c)
    <3>1. call'[c] = call[c]
      BY <2>2 DEF Resume
    <3> QED
      BY <1>1, <2>1, <3>1, CallsFitLater
  <2>3. CASE Wakes(c)
    <3>1. call'[c] = [call[c] EXCEPT !.pc = "replayed", !.token = issued + 1]
      BY <1>1, <2>3 DEF Resume, ReplayToken
    <3>2. call[c] \in CallStates /\ call[c].refused <= issued /\ call[c].refused \in Nat
      BY <2>1, SessionAssumption DEF CallFits, CallStates, Credentials
    <3>3. /\ call'[c] \in CallStates
          /\ call'[c].token = issued + 1 /\ call'[c].refused = call[c].refused
      BY <1>1, <3>1, <3>2 DEF CallStates
    <3> QED
      BY <1>1, <3>2, <3>3 DEF CallFits
  <2> QED
    BY <2>2, <2>3
<1> QED
  BY <1>2 DEF Resume, CallFits

\* The promise of a refresh that brought nothing ends every call that waited.
LEMMA ResumeWithoutToken ==
    ASSUME RotationInv, Resume(0)
    PROVE  call' \in [Calls -> CallStates] /\ \A c \in Calls : CallFits(call'[c], issued)
<1>1. issued \in Nat
  BY SessionAssumption DEF RotationInv, TokensRotateOnce, SessionTypeOK, Credentials
<1>2. ASSUME NEW c \in Calls PROVE CallFits(call'[c], issued)
  <2>1. call'[c] \in {call[c], Idle}
    BY DEF Resume
  <2> QED
    BY <1>1, <2>1, CallsFit, IdleFits
<1> QED
  BY <1>2 DEF Resume, CallFits

-----------------------------------------------------------------------------
(***************************************************************************)
(* Rotation of the refresh token.  The invariant without its calls, in     *)
(* three parts: types, what the browser holds, and what is on the wire.    *)
(***************************************************************************)

Typed ==
    /\ local \in [token : Credentials, refresh : Credentials, role : Roles \cup {NoRole}]
    /\ cookies \subseteq AuthCookies
    /\ role \in Roles \cup {NoRole}
    /\ privy \in BOOLEAN /\ signedOut \in BOOLEAN
    /\ view \in {"login", "dashboard"}
    /\ lastRole \in Roles \cup {NoRole}

Held ==
    /\ local.token <= issued /\ local.refresh <= issued
    /\ local.refresh # 0 => local.refresh \notin answered

Wire ==
    /\ flights \subseteq [by : Calls, spends : Credentials \ {0}]
    /\ inFlight \in Calls \cup {"null"}
    /\ \A f \in flights : f.spends <= issued /\ f.spends \notin answered
    /\ \A f, g \in flights : f = g
    /\ (inFlight = "null") <=> (flights = {})

Server ==
    /\ expired \in 0..issued /\ current \in Credentials /\ issued \in Credentials
    /\ answered \subseteq Credentials
    /\ \A n \in answered : n <= issued

CallsOK == call \in [Calls -> CallStates] /\ \A c \in Calls : CallFits(call[c], issued)

SessionParts == Typed /\ Held /\ Wire /\ Server /\ CallsOK

LEMMA PartsAreInv == RotationInv <=> SessionParts
<1> QED
  BY DEF RotationInv, TokensRotateOnce, SessionTypeOK, RefreshSpentOnce, ReplayIsFresh,
         OnlyIssued, OneFlight, StoredIsOpen, SessionParts, Typed, Held, Wire, Server, CallsOK,
         CallFits, CallStates

\* Numbers of the parts, for the provers' arithmetic.
LEMMA Numbers ==
    ASSUME SessionParts
    PROVE  /\ issued \in Nat /\ expired \in Nat /\ MaxIssued \in Nat
           /\ local.token \in Nat /\ local.refresh \in Nat
           /\ 0 \in Credentials
           /\ \A f \in flights : f.spends \in Nat /\ f.spends # 0
           /\ \A n \in answered : n \in Nat
<1> QED
  BY SessionAssumption DEF SessionParts, Typed, Server, Wire, Credentials

\* A call of a page or of the login page is sent: nothing new is held.
LEMMA SendKeeps ==
    ASSUME SessionParts, NEW c \in Calls, Send(c)
    PROVE  SessionParts'
<1>1. CallFits([pc |-> "sent", token |-> local.token, refused |-> 0], issued)
  BY Numbers DEF SessionParts, Typed, Held, CallFits, CallStates
<1>2. CallsOK'
  BY <1>1 DEF Send, SessionParts, CallsOK, CallFits, serverVars
<1> QED
  BY <1>2 DEF Send, SessionParts, Typed, Held, Wire, Server, serverVars

\* A call that ends, however it ends.
LEMMA EndKeeps ==
    ASSUME SessionParts, NEW c \in Calls, call' = [call EXCEPT ![c] = Idle],
           issued' \in {issued, issued + 1}
    PROVE  CallsOK'
<1>1. issued \in Nat
  BY Numbers
<1>2. \A d \in Calls : CallFits(call'[d], issued')
  BY <1>1, IdleFits, CallsFitLater DEF SessionParts, CallsOK
<1> QED
  BY <1>2 DEF SessionParts, CallsOK, CallFits

\* A 401: the call joins the refresh on the wire, gives up, or starts the only
\* one, with a token whose fate is open.
LEMMA RefusedKeeps ==
    ASSUME SessionParts, NEW c \in Calls, Refused(c)
    PROVE  SessionParts'
<1>1. c # "null"
  BY SessionAssumption DEF Calls
<1>2. /\ [call[c] EXCEPT !.pc = "waiting", !.refused = call[c].token] \in CallStates
      /\ CallFits([call[c] EXCEPT !.pc = "waiting", !.refused = call[c].token], issued)
  BY DEF SessionParts, CallsOK, CallFits, CallStates
<1>3. CASE Joins /\ call' = [call EXCEPT ![c].pc = "waiting", ![c].refused = call[c].token]
              /\ UNCHANGED <<flights, inFlight>>
  <2>1. call' = [call EXCEPT ![c] = [call[c] EXCEPT !.pc = "waiting", !.refused = call[c].token]]
    BY <1>3 DEF SessionParts, CallsOK, CallStates
  <2>2. CallsOK'
    BY <1>2, <2>1 DEF Refused, SessionParts, CallsOK, serverVars
  <2> QED
    BY <1>3, <2>2 DEF Refused, SessionParts, Typed, Held, Wire, Server, serverVars
<1>4. CASE call' = [call EXCEPT ![c] = Idle] /\ UNCHANGED <<flights, inFlight>>
  <2>1. CallsOK'
    BY <1>4, EndKeeps DEF Refused, serverVars
  <2> QED
    BY <1>4, <2>1 DEF Refused, SessionParts, Typed, Held, Wire, Server, serverVars
<1>5. CASE /\ ~Joins /\ ~GivesUpRefresh
           /\ call' = [call EXCEPT ![c].pc = "waiting", ![c].refused = call[c].token]
           /\ flights' = flights \cup {[by |-> c, spends |-> local.refresh]}
           /\ inFlight' = c
  <2>1. call' = [call EXCEPT ![c] = [call[c] EXCEPT !.pc = "waiting", !.refused = call[c].token]]
    BY <1>5 DEF SessionParts, CallsOK, CallStates
  <2>2. CallsOK'
    BY <1>2, <2>1 DEF Refused, SessionParts, CallsOK, serverVars
  <2>3. flights = {} /\ local.refresh # 0 /\ local.refresh \in Credentials
    BY <1>5 DEF SessionParts, Wire, Typed, Joins, GivesUpRefresh
  <2> DEFINE g == [by |-> c, spends |-> local.refresh]
  <2>4. flights' = {g} /\ g \in [by : Calls, spends : Credentials \ {0}] /\ g.spends = local.refresh
    BY <1>5, <2>3
  <2> HIDE DEF g
  <2>5. Wire'
    BY <1>1, <1>5, <2>3, <2>4 DEF Refused, SessionParts, Wire, Held, serverVars
  <2> QED
    BY <2>2, <2>5 DEF Refused, SessionParts, Typed, Held, Server, serverVars
<1> QED
  BY <1>3, <1>4, <1>5 DEF Refused

\* The refresh on the wire is the only one: when it ends there is none.
LEMMA LastFlight ==
    ASSUME SessionParts, NEW f \in flights, flights' = flights \ {f}
    PROVE  flights' = {}
<1> QED
  BY DEF SessionParts, Wire

\* The server rotates the token or not; the browser stores what it answered.
LEMMA SucceedsKeeps ==
    ASSUME SessionParts, NEW f \in flights, RefreshSucceeds(f)
    PROVE  SessionParts'
<1>1. /\ issued < MaxIssued /\ issued' = issued + 1 /\ expired' = expired
      /\ issued \in Nat /\ issued + 1 \in Credentials /\ issued + 1 # 0
  BY Numbers, SessionAssumption DEF RefreshSucceeds, Issue, Credentials
<1>2. CallsOK'
  BY <1>1, PartsAreInv, ResumeWithToken DEF RefreshSucceeds, CallsOK
<1>3. Wire'
  <2>1. flights' = {} /\ inFlight' = "null"
    BY LastFlight DEF RefreshSucceeds, Resume
  <2> QED
    BY <2>1 DEF Wire
<1>4. PICK rotates \in BOOLEAN :
          /\ current' = IF rotates THEN issued + 1 ELSE current
          /\ answered' = IF rotates THEN answered \cup {f.spends} ELSE answered
          /\ StoreSession(issued + 1, IF rotates THEN issued + 1 ELSE 0)
  BY DEF RefreshSucceeds
<1>5. /\ local' = [local EXCEPT !.token = issued + 1,
                                !.refresh = IF rotates THEN issued + 1 ELSE local.refresh]
      /\ cookies' = cookies \cup {"token"}
  BY <1>1, <1>4 DEF StoreSession, Rotated
<1>6. /\ local' \in [token : Credentials, refresh : Credentials, role : Roles \cup {NoRole}]
      /\ local'.token = issued + 1
      /\ local'.refresh = IF rotates THEN issued + 1 ELSE local.refresh
  BY <1>1, <1>5 DEF SessionParts, Typed
<1>7. Typed'
  BY <1>5, <1>6 DEF RefreshSucceeds, SessionParts, Typed, AuthCookies
<1>8. Server'
  <2>1. f.spends \in Credentials /\ f.spends <= issued /\ f.spends \in Nat
    BY Numbers DEF SessionParts, Wire
  <2>2. answered' \subseteq Credentials /\ \A n \in answered' : n \in Nat /\ n <= issued
    BY <1>4, <2>1, Numbers DEF SessionParts, Server
  <2>3. expired \in 0..(issued + 1) /\ current' \in Credentials
    BY <1>1, <1>4 DEF SessionParts, Server
  <2> QED
    BY <1>1, <2>2, <2>3 DEF Server
<1>9. Held'
  BY <1>1, <1>4, <1>6, Numbers DEF SessionParts, Held, Wire, Server
<1> QED
  BY <1>2, <1>3, <1>7, <1>8, <1>9 DEF SessionParts

\* A rejected token is forgotten when its fate is known.
LEMMA RejectedKeeps ==
    ASSUME SessionParts, NEW f \in flights, RefreshRejected(f)
    PROVE  SessionParts'
<1>1. CallsOK'
  BY PartsAreInv, ResumeWithoutToken DEF RefreshRejected, CallsOK, serverVars
<1>2. Wire'
  <2>1. flights' = {} /\ inFlight' = "null"
    BY LastFlight DEF RefreshRejected, Resume
  <2> QED
    BY <2>1 DEF Wire
<1>3. /\ local' \in [token : Credentials, refresh : Credentials, role : Roles \cup {NoRole}]
      /\ local'.token = 0 /\ local'.refresh = 0
      /\ cookies' \subseteq AuthCookies
  BY Numbers DEF SessionParts, Typed, RefreshRejected, ClearSession, Cleared, ClearedCookies
<1> QED
  BY <1>1, <1>2, <1>3, Numbers DEF RefreshRejected, SessionParts, Typed, Held, Wire, Server, serverVars

LEMMA LostKeeps ==
    ASSUME SessionParts, NEW f \in flights, RefreshLost(f)
    PROVE  SessionParts'
<1>1. Wire'
  <2>1. flights' = {} /\ inFlight' = "null"
    BY LastFlight DEF RefreshLost, Resume
  <2> QED
    BY <2>1 DEF Wire
<1>2. \A c \in Calls : CallFits(call'[c], issued) /\ call' \in [Calls -> CallStates]
  BY PartsAreInv, ResumeWithoutToken DEF RefreshLost
<1>3. CASE UNCHANGED serverVars
  <2>1. CallsOK'
    BY <1>2, <1>3, ResumeWithoutToken, PartsAreInv DEF CallsOK, serverVars, RefreshLost
  <2> QED
    BY <1>1, <1>3, <2>1 DEF RefreshLost, SessionParts, Typed, Held, Server, serverVars
<1>4. CASE Issue /\ current' = issued + 1
  <2>1. issued' = issued + 1 /\ issued \in Nat /\ issued + 1 \in Credentials /\ expired' = expired
    BY <1>4, Numbers DEF Issue, Credentials
  <2>2. CallsOK'
    BY <1>2, <2>1, CallsFitLater, ResumeWithoutToken, PartsAreInv DEF CallsOK, RefreshLost
  <2>3. Held' /\ Server'
    BY <1>4, <2>1, Numbers DEF RefreshLost, SessionParts, Held, Server
  <2> QED
    BY <1>1, <2>2, <2>3 DEF RefreshLost, SessionParts, Typed
<1> QED
  BY <1>3, <1>4 DEF RefreshLost

\* The pair a login brings is newer than everything on the wire.
LEMMA LoginKeeps ==
    ASSUME SessionParts, LoginSucceeds
    PROVE  SessionParts'
<1>1. /\ issued' = issued + 1 /\ current' = issued + 1 /\ expired' = expired
      /\ issued \in Nat /\ issued + 1 \in Credentials
  BY Numbers DEF LoginSucceeds, Issue, Credentials
<1>2. CallsOK'
  BY <1>1, EndKeeps DEF LoginSucceeds, Calls
<1>3. PICK r \in Roles :
          /\ local' = [token |-> issued + 1, refresh |-> issued + 1, role |-> r]
          /\ role' = r /\ lastRole' = r
  BY DEF LoginSucceeds, StoredRole
<1>4. Typed'
  BY <1>1, <1>3 DEF LoginSucceeds, SessionParts, Typed, AuthCookies
<1>5. Held' /\ Server' /\ Wire'
  BY <1>1, <1>3, Numbers DEF LoginSucceeds, SessionParts, Held, Server, Wire
<1> QED
  BY <1>2, <1>4, <1>5 DEF SessionParts

\* Every step of the tab and of the server keeps the parts.
LEMMA PartsStep == SessionParts /\ [SessionNext]_sessionVars => SessionParts'
<1> SUFFICES ASSUME SessionParts, [SessionNext]_sessionVars PROVE SessionParts'
  OBVIOUS
<1>1. ASSUME NEW c \in Calls, Send(c) \/ Refused(c) PROVE SessionParts'
  BY <1>1, SendKeeps, RefusedKeeps
<1>2. ASSUME NEW c \in Calls, Answered(c) PROVE SessionParts'
  <2>1. CallsOK'
    BY <1>2, EndKeeps DEF Answered, serverVars
  <2> QED
    BY <1>2, <2>1 DEF Answered, SessionParts, Typed, Held, Wire, Server, serverVars
<1>3. ASSUME NEW f \in flights, RefreshEnds(f) PROVE SessionParts'
  BY <1>3, SucceedsKeeps, RejectedKeeps, LostKeeps DEF RefreshEnds
<1>4. CASE LoginSucceeds
  BY <1>4, LoginKeeps
<1>5. CASE LoginFails
  <2>1. CallsOK'
    BY <1>5, EndKeeps DEF LoginFails, serverVars, Calls
  <2> QED
    BY <1>5, <2>1 DEF LoginFails, SessionParts, Typed, Held, Wire, Server, serverVars
<1>6. CASE PrivySignsIn \/ PrivySignsOut \/ Navigate
  BY <1>6 DEF PrivySignsIn, PrivySignsOut, Navigate, SessionParts, Typed, Held, Wire, Server, CallsOK,
              serverVars, AuthCookies
<1>7. CASE Logout
  <2>1. /\ local' \in [token : Credentials, refresh : Credentials, role : Roles \cup {NoRole}]
        /\ local'.token = 0 /\ local'.refresh = 0
    BY <1>7, Numbers DEF Logout, SessionParts, Typed, Cleared
  <2>2. signedOut' \in BOOLEAN
    BY <1>7 DEF Logout
  <2> QED
    BY <1>7, <2>1, <2>2, Numbers
    DEF Logout, SessionParts, Typed, Held, Wire, Server, CallsOK, serverVars, ClearedCookies
<1>8. CASE Load
  <2>1. CallsOK'
    BY <1>8, IdleFits, Numbers DEF Load, SessionParts, CallsOK, serverVars, CallFits
  <2>2. Typed'
    BY <1>8 DEF Load, SessionParts, Typed, AuthCookies, Guarded
  <2> QED
    BY <1>8, <2>1, <2>2 DEF Load, SessionParts, Held, Wire, Server, serverVars
<1>9. CASE Expire
  <2>1. Server'
    BY <1>9, Numbers DEF Expire, SessionParts, Server
  <2> QED
    BY <1>9, <2>1 DEF Expire, SessionParts, Typed, Held, Wire, CallsOK
<1>10. CASE Revoke
  BY <1>10, Numbers DEF Revoke, SessionParts, Typed, Held, Wire, Server, CallsOK
<1>11. CASE UNCHANGED sessionVars
  BY <1>11 DEF sessionVars, serverVars, SessionParts, Typed, Held, Wire, Server, CallsOK
<1> QED
  BY <1>1, <1>2, <1>3, <1>4, <1>5, <1>6, <1>7, <1>8, <1>9, <1>10, <1>11 DEF SessionNext
-----------------------------------------------------------------------------
(***************************************************************************)
(* The session is the user's.                                              *)
(***************************************************************************)

\* A refresh that was on the wire when the user signed out may store a pair,
\* but then the sign-out was not final.
LEMMA UserRefresh ==
    ASSUME SessionParts, UserInv, NEW f \in flights, RefreshEnds(f)
    PROVE  UserInv'
<1>1. ~signedOut
  BY DEF UserInv, SessionIsTheUsers, SignOutHolds
<1>2. CASE RefreshSucceeds(f)
  <2>1. issued \in Nat /\ issued + 1 # 0
    BY Numbers
  <2>2. local'.token = issued + 1 /\ local'.role = local.role
    BY <1>2 DEF RefreshSucceeds, StoreSession, SessionParts, Typed
  <2> QED
    BY <1>1, <1>2, <2>1, <2>2
    DEF RefreshSucceeds, UserInv, SessionIsTheUsers, CookieMeansToken, SignOutHolds,
        RoleIsLastLogin
<1>3. CASE RefreshRejected(f)
  <2>1. local'.role = local.role /\ "token" \notin cookies'
    BY <1>3 DEF RefreshRejected, ClearSession, Cleared, ClearedCookies, SessionParts, Typed
  <2> QED
    BY <1>1, <1>3, <2>1
    DEF RefreshRejected, UserInv, SessionIsTheUsers, CookieMeansToken, SignOutHolds,
        RoleIsLastLogin
<1>4. CASE RefreshLost(f)
  BY <1>1, <1>4
  DEF RefreshLost, UserInv, SessionIsTheUsers, CookieMeansToken, SignOutHolds, RoleIsLastLogin
<1> QED
  BY <1>2, <1>3, <1>4 DEF RefreshEnds

\* Requests alone store nothing; after a final sign-out a 401 finds no refresh
\* token to spend.
LEMMA UserCall ==
    ASSUME SessionParts, UserInv, NEW c \in Calls, Send(c) \/ Answered(c) \/ Refused(c)
    PROVE  UserInv'
<1>1. signedOut => flights' = {}
  BY DEF Send, Answered, Refused, GivesUpRefresh, UserInv, SessionIsTheUsers, SignOutHolds
<1> QED
  BY <1>1
  DEF Send, Answered, Refused, UserInv, SessionIsTheUsers, CookieMeansToken, SignOutHolds,
      RoleIsLastLogin

LEMMA UserStep == SessionParts /\ UserInv /\ [SessionNext]_sessionVars => UserInv'
<1> SUFFICES ASSUME SessionParts, UserInv, [SessionNext]_sessionVars PROVE UserInv'
  OBVIOUS
<1>1. ASSUME NEW c \in Calls, Send(c) \/ Answered(c) \/ Refused(c) PROVE UserInv'
  BY <1>1, UserCall
<1>2. ASSUME NEW f \in flights, RefreshEnds(f) PROVE UserInv'
  BY <1>2, UserRefresh
<1>3. CASE LoginSucceeds
  <2>1. issued \in Nat /\ issued + 1 # 0
    BY Numbers
  <2>2. PICK r \in Roles :
            /\ local' = [token |-> issued + 1, refresh |-> issued + 1, role |-> r]
            /\ role' = r /\ lastRole' = r
    BY <1>3 DEF LoginSucceeds, StoredRole
  <2> QED
    BY <1>3, <2>1, <2>2
    DEF LoginSucceeds, UserInv, SessionIsTheUsers, CookieMeansToken, SignOutHolds, RoleIsLastLogin
<1>4. CASE LoginFails \/ PrivySignsIn \/ PrivySignsOut \/ Navigate \/ Expire \/ Revoke
  BY <1>4
  DEF LoginFails, PrivySignsIn, PrivySignsOut, Navigate, Expire, Revoke, UserInv,
      SessionIsTheUsers, CookieMeansToken, SignOutHolds, RoleIsLastLogin
<1>5. CASE Logout
  <2>1. local'.token = 0 /\ local'.refresh = 0 /\ local'.role = NoRole
    BY <1>5 DEF Logout, Cleared, SessionParts, Typed
  <2>2. cookies' \cap {"token", "zaps-auth"} = {}
    BY <1>5 DEF Logout, ClearedCookies
  <2>3. signedOut' => flights' = {} /\ ~privy'
    BY <1>5 DEF Logout
  <2> QED
    BY <1>5, <2>1, <2>2, <2>3
    DEF Logout, UserInv, SessionIsTheUsers, CookieMeansToken, SignOutHolds, RoleIsLastLogin
<1>6. CASE Load
  <2>1. cookies' \subseteq cookies \cup (IF privy THEN {"zaps-auth"} ELSE {})
    BY <1>6 DEF Load
  <2> QED
    BY <1>6, <2>1
    DEF Load, UserInv, SessionIsTheUsers, CookieMeansToken, SignOutHolds, RoleIsLastLogin
<1>7. CASE UNCHANGED sessionVars
  BY <1>7
  DEF sessionVars, UserInv, SessionIsTheUsers, CookieMeansToken, SignOutHolds, RoleIsLastLogin
<1> QED
  BY <1>1, <1>2, <1>3, <1>4, <1>5, <1>6, <1>7 DEF SessionNext

-----------------------------------------------------------------------------
(***************************************************************************)
(* The theorems.                                                           *)
(***************************************************************************)

\* A tab that was just opened.
LEMMA InitInv == SessionInit => SessionParts /\ UserInv
<1> SUFFICES ASSUME SessionInit PROVE SessionParts /\ UserInv
  OBVIOUS
<1>1. 0 \in Credentials /\ 0 \in Nat
  BY SessionAssumption DEF Credentials
<1>2. CallsOK
  BY <1>1, IdleFits DEF SessionInit, CallsOK, CallFits
<1>3. Typed
  BY <1>1 DEF SessionInit, Typed
<1>4. Held /\ Server
  BY <1>1 DEF SessionInit, Held, Server
<1>5. Wire
  BY DEF SessionInit, Wire
<1>6. UserInv
  BY DEF SessionInit, UserInv, SessionIsTheUsers, CookieMeansToken, SignOutHolds, RoleIsLastLogin
<1> QED
  BY <1>2, <1>3, <1>4, <1>5, <1>6 DEF SessionParts

LEMMA SessionInvariant == SessionSpec => [](SessionParts /\ UserInv)
<1>1. SessionParts /\ UserInv /\ [SessionNext]_sessionVars => (SessionParts /\ UserInv)'
  BY PartsStep, UserStep
<1> QED
  BY InitInv, <1>1, PTL DEF SessionSpec

\* refreshAccessToken and authedFetch, for every set of page requests: a refresh
\* token is on the wire at most once and never again after its fate is known,
\* and a replayed request carries a newer token than the one that was refused.
THEOREM TokensAlwaysRotateOnce == SessionSpec => []TokensRotateOnce
<1>1. SessionParts /\ UserInv => TokensRotateOnce
  BY PartsAreInv DEF RotationInv
<1> QED
  BY SessionInvariant, <1>1, PTL

\* AuthProvider, api.ts and middleware.ts: the cookie lets nobody in without a
\* token, a finished sign-out stays one, and the role is the last login's.
THEOREM SessionIsAlwaysTheUsers == SessionSpec => []SessionIsTheUsers
<1>1. SessionParts /\ UserInv => SessionIsTheUsers
  BY DEF UserInv
<1> QED
  BY SessionInvariant, <1>1, PTL

-----------------------------------------------------------------------------
(***************************************************************************)
(* The payouts page.                                                       *)
(***************************************************************************)

\* With one parse at a time, the verdict shown is about the file selected, and
\* so is the one a running parse will give.
VerdictIsOfFile ==
    /\ \A f \in parsing : parsing = {f} /\ file \in {f, NoFile}
    /\ validation.kind = "ok" => file \in {validation.of, NoFile}

PayoutsInv == PayoutsTypeOK /\ payoutCalls <= sends /\ VerdictIsOfFile /\ SentRowsArePayable

\* What validateRows lets through can be paid.
LEMMA ValidIsPayable ==
    ASSUME NEW f, ~HeaderErrors(f), InvalidRows(f) = {}, NEW i \in DOMAIN f.rows
    PROVE  Payable(f, f.rows[i])
<1>1. RowValid(f, f.rows[i])
  BY DEF InvalidRows
<1>2. Cell(f, f.rows[i], "amount") = "good"
  BY <1>1 DEF RowValid, AmountError
<1>3. "amount" \in Headers(f) /\ f.rows[i]["amount"] = "good"
  BY <1>2 DEF Cell
<1>4. CASE HasStellar(f, f.rows[i])
  BY <1>1, <1>3, <1>4 DEF RowValid, HasStellar, Cell, Payable
<1>5. CASE ~HasStellar(f, f.rows[i])
  <2>1. HasPhoneId(f, f.rows[i])
    BY <1>1, <1>5 DEF RowValid, RouteMissing
  <2>2. \A c \in {"phone", "id", "verification"} : c \in Headers(f) /\ f.rows[i][c] # "empty"
    BY <2>1 DEF HasPhoneId, Cell
  <2>3. "stellar_address" \in Headers(f) => f.rows[i]["stellar_address"] # "bad"
    BY <1>5 DEF HasStellar, Cell
  <2> QED
    BY <1>3, <2>2, <2>3 DEF Payable
<1> QED
  BY <1>4, <1>5

LEMMA PayoutsStep ==
    ASSUME ~OverlapDrops, PayoutsInv, PayoutsNext
    PROVE  PayoutsInv'
<1>1. PayoutsTypeOK /\ payoutCalls <= sends /\ VerdictIsOfFile
  BY DEF PayoutsInv
<1>2. ASSUME sent' = sent PROVE SentRowsArePayable'
  BY <1>2 DEF PayoutsInv, SentRowsArePayable
<1>3. ASSUME NEW f \in Files, Drop(f) PROVE PayoutsInv'
  BY <1>1, <1>2, <1>3 DEF Drop, PayoutsTypeOK, VerdictIsOfFile, PayoutsInv
<1>4. ASSUME NEW f \in Files, Parsed(f) PROVE PayoutsInv'
  BY <1>1, <1>2, <1>4 DEF Parsed, PayoutsTypeOK, VerdictIsOfFile, PayoutsInv
<1>5. CASE HandleUpload
  <2>1. validation.of = file /\ file \in Files
    BY <1>1, <1>5 DEF HandleUpload, SubmitEnabled, SubmissionAllowed, VerdictIsOfFile, PayoutsTypeOK
  <2>2. \A i \in DOMAIN file.rows : Payable(file, file.rows[i])
    BY <1>5, <2>1, ValidIsPayable DEF HandleUpload, SubmitEnabled, SubmissionAllowed
  <2>3. SentRowsArePayable'
    BY <1>5, <2>2 DEF HandleUpload, SentRowsArePayable, PayoutsInv
  <2>4. PayoutsTypeOK' /\ payoutCalls' <= sends'
    BY <1>1, <1>5, <2>1, PayoutsConstants DEF HandleUpload, PayoutsTypeOK
  <2> QED
    BY <1>1, <1>5, <2>3, <2>4 DEF HandleUpload, VerdictIsOfFile, PayoutsInv
<1>6. CASE ClearFile \/ UploadAccepted
  <2>1. VerdictIsOfFile'
    BY <1>1, <1>6 DEF ClearFile, UploadAccepted, PayoutsTypeOK, VerdictIsOfFile
  <2>2. refreshing' \in BOOLEAN /\ logsForId' \in BOOLEAN
    BY <1>1, <1>6 DEF ClearFile, UploadAccepted, PayoutsTypeOK
  <2>3. uploading' \in Files \cup {NoFile} /\ uploadResult' = "null" /\ file' = NoFile
    BY <1>1, <1>6 DEF ClearFile, UploadAccepted, PayoutsTypeOK
  <2>4. validation' \in [kind : {"idle", "parsing", "ok", "error"}, of : Files \cup {NoFile}]
    BY <1>6 DEF ClearFile, UploadAccepted
  <2>5. PayoutsTypeOK'
    BY <1>1, <1>6, <2>2, <2>3, <2>4 DEF ClearFile, UploadAccepted, PayoutsTypeOK
  <2> QED
    BY <1>1, <1>2, <1>6, <2>1, <2>5 DEF ClearFile, UploadAccepted, PayoutsInv
<1>7. CASE UploadDone \/ UploadFails
  <2>1. VerdictIsOfFile'
    BY <1>1, <1>7 DEF UploadDone, UploadFails, VerdictIsOfFile
  <2>2. PayoutsTypeOK'
    BY <1>1, <1>7 DEF UploadDone, UploadFails, Freed, PayoutsTypeOK
  <2> QED
    BY <1>1, <1>2, <1>7, <2>1, <2>2 DEF UploadDone, UploadFails, PayoutsInv
<1>8. ASSUME NEW t \in {"history", "batch", "sdp"}, ChooseTab(t) PROVE PayoutsInv'
  <2>1. CASE tab = "sdp"
    <3>1. refreshing' \in BOOLEAN /\ logsForId' \in BOOLEAN
      BY <1>8, <2>1 DEF ChooseTab
    <3>2. orphans' \subseteq Files
      BY <1>1, <1>8, <2>1 DEF ChooseTab, PayoutsTypeOK
    <3>3. validation' \in [kind : {"idle", "parsing", "ok", "error"}, of : Files \cup {NoFile}]
      BY <1>8, <2>1 DEF ChooseTab
    <3>4. PayoutsTypeOK'
      BY <1>1, <1>8, <2>1, <3>1, <3>2, <3>3 DEF ChooseTab, PayoutsTypeOK
    <3>5. VerdictIsOfFile'
      BY <1>8, <2>1 DEF ChooseTab, VerdictIsOfFile
    <3> QED
      BY <1>1, <1>2, <1>8, <3>4, <3>5 DEF ChooseTab, PayoutsInv
  <2>2. CASE tab # "sdp"
    BY <1>1, <1>2, <1>8, <2>2 DEF ChooseTab, uploadVars, PayoutsTypeOK, VerdictIsOfFile, PayoutsInv
  <2> QED
    BY <2>1, <2>2
<1>9. CASE SubmitPayout \/ PayoutAnswered
  BY <1>1, <1>2, <1>9, PayoutsConstants
  DEF SubmitPayout, PayoutAnswered, uploadVars, PayoutsTypeOK, VerdictIsOfFile, PayoutsInv
<1>10. CASE ListRead \/ SelectBatch \/ \E f \in Files : OrphanAnswered(f)
  BY <1>1, <1>2, <1>10
  DEF ListRead, SelectBatch, OrphanAnswered, uploadVars, PayoutsTypeOK, VerdictIsOfFile, PayoutsInv
<1>11. CASE OpenLogs \/ CloseLogs \/ \E filter \in {"all", "valid", "invalid"} : SetCheckoutFilter(filter)
  <2>1. PayoutsTypeOK'
    BY <1>1, <1>11 DEF OpenLogs, CloseLogs, SetCheckoutFilter, PayoutsTypeOK
  <2>2. VerdictIsOfFile'
    BY <1>1, <1>11 DEF OpenLogs, CloseLogs, SetCheckoutFilter, VerdictIsOfFile
  <2> QED
    BY <1>1, <1>2, <1>11, <2>1, <2>2 DEF OpenLogs, CloseLogs, SetCheckoutFilter, PayoutsInv
<1> QED
  BY <1>3, <1>4, <1>5, <1>6, <1>7, <1>8, <1>9, <1>10, <1>11 DEF PayoutsNext

(***************************************************************************)
(* The parameters of the vault.                                            *)
(***************************************************************************)

\* The form is busy exactly while a payload is at the extension, and there is
\* then one; a confirmation that is ticked or under way was not signed yet.
OneSignature ==
    /\ signing <=> asked # {}
    /\ \A p, q \in asked : p = q
    /\ confirmed \/ signing => signed < ticks

VaultFormInv == VaultFormTypeOK /\ SignedIsSound /\ ConfirmedEach /\ OneSignature

LEMMA ProductIsNat == \A x, y, z \in Nat : x * y * z \in Nat
OBVIOUS

ParamSet == [apy : Int, base : Int, dynamic : BOOLEAN, rule : Rules, utilization : Int,
             multiplier : Int, paused : BOOLEAN, admin : {"empty", "malformed", "wellformed"}]

\* A rate that passes validateVaultParams lies between its floor and the cap.
LEMMA RateIsSound ==
    ASSUME NEW p \in ParamSet, ValidateVaultParams(p) = {}
    PROVE  /\ EffectiveRate(p) \in Nat
           /\ p.base * 10000 <= EffectiveRate(p) /\ EffectiveRate(p) <= Cap * 10000
<1>1. /\ p.apy \in Int /\ p.base \in Int /\ 0 <= p.apy /\ p.apy <= 25
      /\ 0 <= p.base /\ p.base <= p.apy
  BY DEF ParamSet, ValidateVaultParams, Fields, Cap
<1>2. OrDefault(p.apy, 0) = p.apy /\ OrDefault(p.base, 0) = p.base
  BY <1>1 DEF OrDefault, Unparsed
<1>3. UncappedRate(p) \in Nat /\ UncappedRate(p) >= p.base * 10000
  <2>1. CASE ~p.dynamic
    BY <1>1, <1>2, <2>1 DEF UncappedRate
  <2>2. CASE p.dynamic /\ p.rule = "utilization"
    <3> DEFINE u == OrDefault(p.utilization, 80)
               m == OrDefault(p.multiplier, 125)
               d == AtLeast0(p.apy - p.base)
    <3>1. u \in Nat /\ m \in Nat
      BY <2>2 DEF OrDefault, ParamSet, ValidateVaultParams, Fields, Unparsed
    <3>2. d \in Nat
      BY <1>1 DEF AtLeast0
    <3>3. UncappedRate(p) = p.base * 10000 + d * u * m
      BY <1>2, <2>2 DEF UncappedRate
    <3> HIDE DEF u, m, d
    <3>4. d * u * m \in Nat
      BY <3>1, <3>2, ProductIsNat
    <3> QED
      BY <1>1, <3>3, <3>4
  <2>3. CASE p.dynamic /\ p.rule = "tiered"
    BY <1>1, <1>2, <2>3 DEF UncappedRate
  <2>4. CASE p.dynamic /\ p.rule \notin {"utilization", "tiered"}
    BY <1>1, <1>2, <2>4 DEF UncappedRate
  <2> QED
    BY <2>1, <2>2, <2>3, <2>4 DEF ParamSet
<1> QED
  BY <1>1, <1>3 DEF EffectiveRate, Capped, AtLeast0, Cap

LEMMA VaultFormStep ==
    ASSUME VaultFormInv, VaultFormNext
    PROVE  VaultFormInv'
<1> USE DEF VaultFormInv
<1>1. params \in ParamSet
  BY DEF VaultFormTypeOK, ParamSet
<1> DEFINE Kept == /\ asked' = asked /\ signing' = signing /\ signed' = signed /\ indexMoves' = indexMoves
                   /\ confirmed' = confirmed /\ ticks' = ticks
<1>2. ASSUME Kept, params' \in ParamSet, formErrors' \subseteq Fields, superadmin' = superadmin,
             wallet' \in {"missing", "detected", "keyless", "connected"},
             walletCall' \in {"none", "detect", "connect"}, message' \in {"none", "ok", "err"}
      PROVE  VaultFormInv'
  BY <1>2 DEF VaultFormTypeOK, SignedIsSound, ConfirmedEach, OneSignature, ParamSet
<1> HIDE DEF VaultFormInv
<1>t. VaultFormTypeOK
  BY DEF VaultFormInv
<1>3. CASE WalletDetected \/ HandleConnectWallet \/ WalletConnected
  <2>1. \A w : Prefilled(params, w) \in ParamSet
    BY <1>1 DEF Prefilled, ParamSet
  <2> QED
    BY <1>1, <1>2, <1>3, <1>t, <2>1
    DEF WalletDetected, HandleConnectWallet, WalletConnected, DetectFreighter, VaultFormTypeOK
<1>e. \A p : ValidateVaultParams(p) \subseteq Fields
  BY DEF ValidateVaultParams
<1>4. CASE EditApy \/ EditBase \/ EditUtilization \/ EditAdmin
  <2>1. params' \in ParamSet /\ formErrors' \subseteq Fields
    <3>1. CASE EditApy
      BY <3>1, <1>1, <1>e, RateInputs DEF EditApy, ValidateField, ParamSet
    <3>2. CASE EditBase
      BY <3>2, <1>1, <1>e, RateInputs DEF EditBase, ValidateField, ParamSet
    <3>3. CASE EditUtilization
      BY <3>3, <1>1, <1>e, RateInputs DEF EditUtilization, ValidateField, ParamSet
    <3>4. CASE EditAdmin
      BY <3>4, <1>1, <1>e DEF EditAdmin, ValidateField, ParamSet
    <3> QED
      BY <1>4, <3>1, <3>2, <3>3, <3>4
  <2>2. FormUnchanged
    BY <1>4 DEF EditApy, EditBase, EditUtilization, EditAdmin
  <2> QED
    BY <1>2, <1>t, <2>1, <2>2 DEF FormUnchanged, VaultFormTypeOK
<1>5. CASE ToggleDynamic \/ ChooseRule \/ TogglePause
  <2>1. params' \in ParamSet
    BY <1>1, <1>5 DEF ToggleDynamic, ChooseRule, TogglePause, ParamSet
  <2>2. FormUnchanged /\ formErrors' = formErrors
    BY <1>5 DEF ToggleDynamic, ChooseRule, TogglePause
  <2> QED
    BY <1>2, <1>t, <2>1, <2>2 DEF FormUnchanged, VaultFormTypeOK
<1>6. CASE SubmitRefused
  BY <1>1, <1>2, <1>6, <1>e, <1>t DEF SubmitRefused, VaultFormTypeOK
<1>7. CASE ToggleConfirm
  BY <1>7, VaultBounds
  DEF ToggleConfirm, VaultFormInv, VaultFormTypeOK, SignedIsSound, ConfirmedEach, OneSignature
<1>8. CASE SignAndSubmit
  <2>1. asked = {} /\ confirmed
    BY <1>8 DEF SignAndSubmit, SubmitEnabledVault, VaultFormInv, OneSignature
  <2>2. asked' = {Payload(params)}
    BY <1>8, <2>1 DEF SignAndSubmit
  <2>3. ValidateVaultParams(params) = {}
    BY <1>8 DEF SignAndSubmit, Accepts
  <2>4. SignedIsSound' /\ asked' \subseteq [errors : SUBSET Fields, base : Int, rate : Nat]
    BY <1>1, <2>2, <2>3, RateIsSound DEF SignedIsSound, Payload, ParamSet
  <2> QED
    BY <1>8, <2>1, <2>2, <2>4, VaultBounds
    DEF SignAndSubmit, VaultFormInv, VaultFormTypeOK, ConfirmedEach, OneSignature
<1>9. CASE Signed \/ SignFailed
  <2>1. asked # {} /\ asked' = {}
    BY <1>9 DEF Signed, SignFailed, VaultFormInv, OneSignature
  <2>2. signed < ticks
    BY <2>1 DEF VaultFormInv, OneSignature
  <2>3. SignedIsSound' /\ OneSignature'
    BY <1>9, <2>1, <2>2
    DEF Signed, SignFailed, SpentConfirm, FreedSigning, VaultFormInv, VaultFormTypeOK, SignedIsSound,
        OneSignature
  <2>4. ConfirmedEach' /\ signed' \in Nat
    BY <1>9, <1>t, <2>2 DEF Signed, SignFailed, VaultFormInv, VaultFormTypeOK, ConfirmedEach
  <2>5. signing' \in BOOLEAN /\ confirmed' \in BOOLEAN /\ message' \in {"none", "ok", "err"}
    BY <1>9, <1>t DEF Signed, SignFailed, SpentConfirm, FreedSigning, VaultFormTypeOK
  <2>6. VaultFormTypeOK'
    BY <1>9, <1>t, <2>1, <2>4, <2>5 DEF Signed, SignFailed, VaultFormTypeOK
  <2> QED
    BY <2>3, <2>4, <2>6 DEF VaultFormInv
<1> QED
  BY <1>3, <1>4, <1>5, <1>6, <1>7, <1>8, <1>9 DEF VaultFormNext

(***************************************************************************)
(* Wallet session, blacklist drawer, fee form and emergency pause.         *)
(***************************************************************************)

WalletFlags ==
    /\ walletOn \in BOOLEAN /\ restoring \in BOOLEAN /\ connecting \in BOOLEAN
    /\ walletError \in BOOLEAN /\ walletFlag \in BOOLEAN /\ granted \in BOOLEAN
WalletInv == WalletFlags /\ WalletWasGranted

\* The box that is ticked in an open drawer was ticked for its target.
TickIsOfTarget == firstConfirmed /\ target # NoTarget => target \in reviewed

BlacklistInv ==
    /\ target \in Targets \cup {NoTarget} /\ drawers \in 0..MaxDrawers /\ firstConfirmed \in BOOLEAN
    /\ blacklisting \subseteq [name : Targets, known : BOOLEAN] /\ closers \in 0..MaxDrawers
    /\ reviewed \subseteq Targets
    /\ BlacklistWasReviewed /\ TickIsOfTarget

FeeInv == feeInput \in {"empty", "bad", "good"} /\ feeStatus \in {"idle", "submitting", "success", "error"}

PauseInv ==
    /\ vaultPaused \in BOOLEAN /\ pauseDrawer \in BOOLEAN /\ pauseAck \in BOOLEAN
    /\ pauseTyped \in {"empty", "FREEZE", "RESUME"}
    /\ pauseCalls \subseteq [typed : {"FREEZE", "RESUME", "empty"}, next : BOOLEAN]
    /\ PauseAsTyped

LEMMA WalletStep ==
    ASSUME WalletInv, WalletNext
    PROVE  WalletInv'
<1>1. CASE Restore
  BY <1>1 DEF Restore, Restores, WalletInv, WalletFlags, WalletWasGranted
<1>2. CASE Connect
  BY <1>2 DEF Connect, WalletInv, WalletFlags, WalletWasGranted
<1>3. CASE ConnectEnds
  <2>1. WalletFlags'
    BY <1>3 DEF ConnectEnds, WalletInv, WalletFlags
  <2>2. WalletWasGranted'
    BY <1>3 DEF ConnectEnds, WalletWasGranted
  <2> QED
    BY <2>1, <2>2 DEF WalletInv
<1>4. CASE Disconnect \/ Reload
  <2>1. WalletFlags'
    BY <1>4 DEF Disconnect, FlagDropped, Reload, WalletInv, WalletFlags
  <2>2. WalletWasGranted'
    BY <1>4 DEF Disconnect, FlagDropped, Reload, WalletInv, WalletWasGranted
  <2> QED
    BY <2>1, <2>2 DEF WalletInv
<1> QED
  BY <1>1, <1>2, <1>3, <1>4 DEF WalletNext

LEMMA BlacklistStep ==
    ASSUME BlacklistInv, BlacklistNext
    PROVE  BlacklistInv'
<1> USE TargetsDiffer DEF BlacklistInv
<1>1. CASE BlacklistClick
  <2>1. firstConfirmed' \in BOOLEAN /\ ~firstConfirmed'
    BY <1>1 DEF BlacklistClick, FirstReset
  <2> QED
    BY <1>1, <2>1 DEF BlacklistClick, BlacklistWasReviewed, TickIsOfTarget
<1>2. CASE FirstConfirmation
  BY <1>2 DEF FirstConfirmation, BlacklistWasReviewed, TickIsOfTarget
<1>3. CASE FinalConfirmation
  <2>1. target \in Targets /\ target \in reviewed
    BY <1>3 DEF FinalConfirmation, TickIsOfTarget
  <2>2. blacklisting' = {[name |-> target, known |-> TRUE]}
    BY <1>3, <2>1 DEF FinalConfirmation
  <2>3. blacklisting' \subseteq [name : Targets, known : BOOLEAN] /\ BlacklistWasReviewed'
    BY <2>1, <2>2 DEF BlacklistWasReviewed
  <2> QED
    BY <1>3, <2>3 DEF FinalConfirmation, TickIsOfTarget
<1>4. CASE BlacklistSigned \/ BlacklistFails
  BY <1>4 DEF BlacklistSigned, BlacklistFails, BlacklistWasReviewed, TickIsOfTarget
<1>5. CASE CloseDrawer \/ CloserFires
  <2>1. firstConfirmed' \in BOOLEAN
    BY <1>5 DEF CloseDrawer, CloserFires, FirstReset
  <2>2. closers' \in 0..MaxDrawers
    BY <1>5 DEF CloseDrawer, CloserFires
  <2> QED
    BY <1>5, <2>1, <2>2 DEF CloseDrawer, CloserFires, BlacklistWasReviewed, TickIsOfTarget
<1> QED
  BY <1>1, <1>2, <1>3, <1>4, <1>5 DEF BlacklistNext

LEMMA FeeStep ==
    ASSUME FeeInv, FeeNext
    PROVE  FeeInv'
BY DEF FeeInv, FeeNext, EditFee, FeeSubmit, FeeEnds

LEMMA PauseStep ==
    ASSUME PauseInv, PauseNext
    PROVE  PauseInv'
<1>1. CASE OpenPauseDrawer \/ ClosePauseDrawer
  BY <1>1 DEF OpenPauseDrawer, ClosePauseDrawer, PauseInv, PauseAsTyped
<1>2. CASE AckPause \/ TypePhrase \/ PausedElsewhere
  BY <1>2 DEF AckPause, TypePhrase, PausedElsewhere, PauseInv, PauseAsTyped
<1>3. CASE ExecutePause
  <2>1. pauseCalls' = {[typed |-> pauseTyped, next |-> ~vaultPaused]}
    BY <1>3 DEF ExecutePause
  <2>2. pauseTyped = IF vaultPaused THEN "RESUME" ELSE "FREEZE"
    BY <1>3 DEF ExecutePause, IsDoubleVerified, RequiredPhrase
  <2>3. PauseAsTyped' /\ pauseCalls' \subseteq [typed : {"FREEZE", "RESUME", "empty"}, next : BOOLEAN]
    <3>1. CASE vaultPaused
      BY <2>1, <2>2, <3>1 DEF PauseAsTyped
    <3>2. CASE ~vaultPaused
      BY <2>1, <2>2, <3>2 DEF PauseAsTyped
    <3> QED
      BY <3>1, <3>2
  <2> QED
    BY <1>3, <2>3 DEF ExecutePause, PauseInv
<1>4. CASE PauseEnds
  <2>1. vaultPaused' \in BOOLEAN /\ pauseDrawer' \in BOOLEAN /\ pauseAck' \in BOOLEAN
    BY <1>4 DEF PauseEnds, PauseInv
  <2> QED
    BY <1>4, <2>1 DEF PauseEnds, PauseInv, PauseAsTyped
<1> QED
  BY <1>1, <1>2, <1>3, <1>4 DEF PauseNext

(***************************************************************************)
(* The audit log and the rate history.                                     *)
(***************************************************************************)

\* A change signed here is listed as such, under an id the backend does not use.
ListedAsConfig ==
    \A id \in recorded : /\ \E row \in auditTransactions : row.id = id /\ row.action = "config"
                         /\ \E n \in 0..MaxChanges : id = <<"cfg", n>>

LogInv ==
    /\ auditLoading \in BOOLEAN
    /\ \A row \in auditTransactions : row.hit \in BOOLEAN /\ row.day \in Nat
    /\ fetchCount \in 0..MaxFetches /\ \A r \in auditFetches : r.n \in 1..fetchCount
    /\ auditPage \in Nat \ {0}
    /\ IsFiniteSet(auditTransactions) /\ IsFiniteSet(recorded)
    /\ ListedAsConfig

\* Only the present visit has a read that is not cancelled, and only while the
\* rate history is open.
OnlyThisVisit ==
    /\ apyReads \subseteq {visit}
    /\ auditTab # "apy-history" => apyReads = {}

ApyInv ==
    /\ auditTab \in {"config", "audit", "apy-history"}
    /\ apyReads \subseteq 1..visit /\ visit \in 0..MaxVisits /\ apyShown \in 0..visit
    /\ apyLoading \in BOOLEAN /\ apyError \in BOOLEAN
    /\ ApyIsCurrent /\ OnlyThisVisit

AuditInv == LogInv /\ ApyInv

LEMMA TotalPagesNat ==
    ASSUME LogInv
    PROVE  TotalPages \in Nat
<1>1. IsFiniteSet(Filtered)
  BY FS_Subset DEF LogInv, Filtered
<1>2. Cardinality(Filtered) \in Nat
  BY <1>1, FS_CardinalityType
<1>3. Filtered # {} => Cardinality(Filtered) + AuditPageSize - 1 \in Nat
  BY <1>2, AuditConstants
<1> HIDE DEF Filtered
<1>4. \A n \in Nat : n \div AuditPageSize \in Nat
  BY AuditConstants
<1> QED
  BY <1>3, <1>4 DEF TotalPages

\* A read of the log is started.
LEMMA FetchKeepsLog ==
    ASSUME LogInv, NEW f, FetchAuditHistory(f)
    PROVE  /\ auditLoading' \in BOOLEAN
           /\ fetchCount' \in 0..MaxFetches /\ \A r \in auditFetches' : r.n \in 1..fetchCount'
<1>1. auditLoading' \in BOOLEAN
  BY DEF FetchAuditHistory
<1> QED
  BY <1>1, AuditConstants DEF FetchAuditHistory, LogInv

LEMMA LogStep ==
    ASSUME AuditInv, AuditNext
    PROVE  LogInv'
<1>l. LogInv
  BY DEF AuditInv
<1>k. ASSUME auditTransactions' = auditTransactions, recorded' = recorded,
             auditLoading' \in BOOLEAN, auditPage' \in Nat \ {0},
             fetchCount' \in 0..MaxFetches, \A r \in auditFetches' : r.n \in 1..fetchCount'
      PROVE  LogInv'
  BY <1>l, <1>k DEF LogInv, ListedAsConfig
<1>1. ASSUME NEW t \in {"config", "audit", "apy-history"}, SetTab(t) PROVE LogInv'
  <2>1. CASE t = "audit"
    BY <1>1, <1>l, <1>k, <2>1, FetchKeepsLog DEF SetTab, LogInv
  <2>2. CASE t # "audit"
    BY <1>1, <1>l, <1>k, <2>2 DEF SetTab, LogInv
  <2> QED
    BY <2>1, <2>2
<1>2. ASSUME NEW f, SetFilter(f) PROVE LogInv'
  <2>1. auditPage' \in Nat \ {0}
    BY <1>2 DEF SetFilter
  <2> QED
    BY <1>2, <1>l, <1>k, <2>1, FetchKeepsLog DEF SetFilter
<1>3. CASE Sync
  BY <1>3, <1>l, <1>k, FetchKeepsLog DEF Sync, LogInv
<1>4. ASSUME NEW r \in auditFetches, AuditAnswered(r) PROVE LogInv'
  <2> DEFINE answer == {row \in ServerRows : Matches(row, r.filter)}
             rows == KeptConfigs(answer) \cup answer
  <2>1. auditTransactions' = IF answer = {} THEN auditTransactions ELSE rows
    BY <1>4 DEF AuditAnswered
  <2>2. answer \subseteq ServerRows
    OBVIOUS
  <2>3. KeptConfigs(answer) \subseteq auditTransactions
    BY DEF KeptConfigs
  <2>4. auditLoading' \in BOOLEAN
    BY <1>4 DEF AuditAnswered
  <2>5. /\ fetchCount' = fetchCount /\ auditFetches' \subseteq auditFetches /\ auditPage' = auditPage
        /\ recorded' = recorded
    BY <1>4 DEF AuditAnswered
  <2>6. ASSUME NEW id \in recorded
        PROVE  \E row \in rows : row.id = id /\ row.action = "config"
    <3>1. PICK row \in auditTransactions : row.id = id /\ row.action = "config"
      BY <1>l DEF LogInv, ListedAsConfig
    <3>2. \A a \in ServerRows : a.id # id
      BY <1>l, AuditConstants DEF LogInv, ListedAsConfig
    <3>3. row \in KeptConfigs(answer)
      BY <3>1, <3>2, <2>2 DEF KeptConfigs
    <3> QED
      BY <3>1, <3>3
  <2> HIDE DEF answer
  <2>7. IsFiniteSet(rows)
    <3>1. IsFiniteSet(KeptConfigs(answer))
      BY <1>l, <2>3, FS_Subset DEF LogInv
    <3>2. IsFiniteSet(answer)
      BY <2>2, AuditConstants, FS_Subset
    <3> QED
      BY <3>1, <3>2, FS_Union
  <2>8. \A row \in rows : row.hit \in BOOLEAN /\ row.day \in Nat
    BY <1>l, <2>2, <2>3, AuditConstants DEF LogInv
  <2> HIDE DEF rows
  <2>9. ListedAsConfig'
    BY <1>l, <2>1, <2>5, <2>6 DEF LogInv, ListedAsConfig
  <2>10. IsFiniteSet(auditTransactions')
    BY <1>l, <2>1, <2>7 DEF LogInv
  <2>11. \A row \in auditTransactions' : row.hit \in BOOLEAN /\ row.day \in Nat
    BY <1>l, <2>1, <2>8 DEF LogInv
  <2> QED
    BY <1>l, <2>4, <2>5, <2>9, <2>10, <2>11 DEF LogInv
<1>5. ASSUME NEW r \in auditFetches, AuditFailed(r) PROVE LogInv'
  <2>1. auditLoading' \in BOOLEAN
    BY <1>5 DEF AuditFailed
  <2> QED
    BY <1>5, <1>l, <1>k, <2>1 DEF AuditFailed, LogInv
<1>6. CASE RecordConfig
  <2> DEFINE n == Cardinality(recorded)
             entry == [id |-> <<"cfg", n>>, action |-> "config", day |-> 2, hit |-> TRUE]
  <2>1. n \in 0..MaxChanges
    BY <1>6, <1>l, FS_CardinalityType, AuditConstants DEF RecordConfig, LogInv
  <2>2. recorded' = recorded \cup {<<"cfg", n>>} /\ auditTransactions' = auditTransactions \cup {entry}
    BY <1>6 DEF RecordConfig
  <2>3. entry.id = <<"cfg", n>> /\ entry.action = "config" /\ entry.day = 2 /\ entry.hit \in BOOLEAN
    OBVIOUS
  <2> HIDE DEF n, entry
  <2>4. IsFiniteSet(recorded') /\ IsFiniteSet(auditTransactions')
    BY <1>l, <2>2, FS_AddElement DEF LogInv
  <2>5. ListedAsConfig'
    BY <1>l, <2>1, <2>2, <2>3 DEF LogInv, ListedAsConfig
  <2>6. \A row \in auditTransactions' : row.hit \in BOOLEAN /\ row.day \in Nat
    BY <1>l, <2>2, <2>3 DEF LogInv
  <2>7. /\ fetchCount' = fetchCount /\ auditFetches' = auditFetches /\ auditPage' = auditPage
        /\ auditLoading' = auditLoading
    BY <1>6 DEF RecordConfig
  <2> QED
    BY <1>l, <2>4, <2>5, <2>6, <2>7 DEF LogInv
<1>7. CASE ToggleSort \/ ExpandRow
  BY <1>7, <1>l, <1>k DEF ToggleSort, ExpandRow, LogInv
<1>8. CASE SetPage
  <2>1. auditPage' \in Nat \ {0}
    BY <1>8, <1>l, TotalPagesNat DEF SetPage, LogInv
  <2> QED
    BY <1>8, <1>l, <1>k, <2>1 DEF SetPage, LogInv
<1>9. ASSUME NEW v \in apyReads, ApyEnds(v) PROVE LogInv'
  BY <1>9, <1>l, <1>k DEF ApyEnds, logVars, LogInv
<1> QED
  BY <1>1, <1>2, <1>3, <1>4, <1>5, <1>6, <1>7, <1>8, <1>9
  DEF AuditNext, EditSearch, EditAction, EditDates, ClearFilters

LEMMA ApyStep ==
    ASSUME AuditInv, AuditNext
    PROVE  ApyInv'
<1>a. ApyInv
  BY DEF AuditInv
<1>k. ASSUME UNCHANGED <<auditTab, apyVars>> PROVE ApyInv'
  BY <1>a, <1>k DEF apyVars, ApyInv, ApyIsCurrent, OnlyThisVisit
<1>1. ASSUME NEW t \in {"config", "audit", "apy-history"}, SetTab(t) PROVE ApyInv'
  <2>1. AfterLeaving = {}
    BY <1>a DEF AfterLeaving, CancelledAll, ApyInv, OnlyThisVisit
  <2>2. CASE t = "apy-history"
    <3>1. apyLoading' \in BOOLEAN /\ apyError' \in BOOLEAN /\ apyLoading'
      BY <1>1, <2>2 DEF SetTab
    <3>2. apyReads' = {visit'} /\ visit' = visit + 1 /\ visit' \in 0..MaxVisits /\ visit' >= 1
      BY <1>a, <1>1, <2>1, <2>2, AuditConstants DEF SetTab, ReadStarted, ApyInv
    <3>3. apyShown' \in 0..visit'
      BY <1>a, <1>1, <3>2 DEF SetTab, ApyInv
    <3>4. auditTab' = "apy-history"
      BY <1>1, <2>2 DEF SetTab
    <3> QED
      BY <3>1, <3>2, <3>3, <3>4 DEF ApyInv, ApyIsCurrent, OnlyThisVisit
  <2>3. CASE t # "apy-history"
    <3>1. apyReads' = {} /\ auditTab' = t
      BY <1>1, <2>1, <2>3 DEF SetTab
    <3> QED
      BY <1>a, <1>1, <2>3, <3>1 DEF SetTab, ApyInv, ApyIsCurrent, OnlyThisVisit
  <2> QED
    BY <2>2, <2>3
<1>2. ASSUME NEW v \in apyReads, ApyEnds(v) PROVE ApyInv'
  <2>1. v = visit /\ auditTab' = auditTab /\ visit' = visit
    BY <1>a, <1>2 DEF ApyEnds, ApyInv, OnlyThisVisit
  <2>2. apyLoading' \in BOOLEAN /\ apyError' \in BOOLEAN /\ (apyShown' = visit \/ apyError')
    BY <1>a, <1>2, <2>1 DEF ApyEnds, ApyInv
  <2>3. apyShown' \in 0..visit
    BY <1>a, <1>2, <2>1 DEF ApyEnds, ApyInv
  <2>4. apyReads' \subseteq apyReads
    BY <1>2 DEF ApyEnds
  <2> QED
    BY <1>a, <2>1, <2>2, <2>3, <2>4 DEF ApyInv, ApyIsCurrent, OnlyThisVisit
<1>3. ASSUME NEW f, SetFilter(f) PROVE ApyInv'
  BY <1>3, <1>k DEF SetFilter
<1>4. ASSUME NEW r \in auditFetches, AuditAnswered(r) \/ AuditFailed(r) PROVE ApyInv'
  BY <1>4, <1>k DEF AuditAnswered, AuditFailed
<1>5. CASE Sync \/ RecordConfig \/ ToggleSort \/ ExpandRow \/ SetPage
  BY <1>5, <1>k DEF Sync, RecordConfig, ToggleSort, ExpandRow, SetPage
<1> QED
  BY <1>1, <1>2, <1>3, <1>4, <1>5
  DEF AuditNext, EditSearch, EditAction, EditDates, ClearFilters

(***************************************************************************)
(* Search bar, feed and payment dialog.                                    *)
(***************************************************************************)

\* SuggestionsMatch without barOpen: a list that was closed may be opened again.
ResultsMatch ==
    barResults # NoUser /\ barCalls = {} /\ barTimer = NoUser => barQuery \in {barResults, NoUser}

\* With one search at a time, what is under way is about the text in the bar.
BarInv ==
    /\ barQuery \in Texts /\ barTimer \in Users \cup {NoUser} /\ barCalls \subseteq Users
    /\ barResults \in Users \cup {NoUser} /\ barOpen \in BOOLEAN /\ barLoading \in BOOLEAN
    /\ barTimer # NoUser => barCalls = {} /\ barQuery \in {barTimer, NoUser}
    /\ \A text \in barCalls : barCalls = {text} /\ barQuery \in {text, NoUser}
    /\ ResultsMatch

Addresses == [user : Users \cup {NoUser}, q : Texts]

AddressInv ==
    /\ url \in Addresses /\ navigation \in Addresses /\ chosen \in Users \cup {NoUser}
    /\ search \in Texts /\ feedPage \in Nat /\ feedPageSize \in FeedPageSizes /\ feed \subseteq FeedRows

\* A dialog's read is for the user it names, and only one that is open reads.
DialogInv ==
    /\ selectedUser \in Users \cup {NoUser}
    /\ dialogLoading \in BOOLEAN /\ dialogError \in BOOLEAN
    /\ dialogPayments \in Users \cup {NoUser} /\ dialogCalls \subseteq Users
    /\ dialogCalls \subseteq {selectedUser}
    /\ DialogShowsItsUser

BrowseInv == BarInv /\ AddressInv /\ DialogInv

LEMMA BarStep ==
    ASSUME ~OverlapSearch, BarInv, BrowseNext
    PROVE  BarInv'
<1> USE TextsDiffer
<1>k. ASSUME UNCHANGED barVars PROVE BarInv'
  BY <1>k DEF barVars, BarInv, ResultsMatch
<1>1. ASSUME NEW text \in Texts, Type(text) PROVE BarInv'
  <2>1. barCalls' = {} /\ barCalls = {} /\ barQuery' = text /\ barLoading' = barLoading
    BY <1>1 DEF Type
  <2>2. barOpen' \in BOOLEAN /\ (barOpen' => text \in Users)
    BY <1>1 DEF Type, BarInv
  <2>3. barTimer' = IF text \in Users THEN text ELSE NoUser
    BY <1>1 DEF Type
  <2>4. barResults' \in Users \cup {NoUser} /\ (text \notin Users => barResults' = NoUser)
    BY <1>1 DEF Type, ResultsAfter, BarInv
  <2> QED
    BY <2>1, <2>2, <2>3, <2>4 DEF BarInv, ResultsMatch
<1>2. CASE DebounceEnds
  <2>1. barLoading' \in BOOLEAN
    BY <1>2 DEF DebounceEnds
  <2>2. barCalls' = {barTimer} /\ barTimer \in Users /\ barTimer' = NoUser
    BY <1>2 DEF DebounceEnds, BarInv
  <2>3. barQuery' = barQuery /\ barResults' = barResults /\ barOpen' = barOpen
    BY <1>2 DEF DebounceEnds
  <2>4. barQuery \in {barTimer, NoUser}
    BY <1>2 DEF DebounceEnds, BarInv
  <2> QED
    BY <2>1, <2>2, <2>3, <2>4 DEF BarInv, ResultsMatch
<1>3. ASSUME NEW text \in barCalls, SearchEnds(text) PROVE BarInv'
  <2>1. barLoading' \in BOOLEAN /\ barOpen' \in BOOLEAN
    BY <1>3 DEF SearchEnds, BarInv
  <2>2. barCalls' = {} /\ barQuery \in {text, NoUser} /\ text \in Users
    BY <1>3 DEF SearchEnds, BarInv
  <2>3. barResults' \in {text, NoUser}
    BY <1>3 DEF SearchEnds
  <2>4. barQuery' = barQuery /\ barTimer' = barTimer
    BY <1>3 DEF SearchEnds
  <2> QED
    BY <2>1, <2>2, <2>3, <2>4 DEF BarInv, ResultsMatch
<1>4. CASE FocusBar
  <2>1. barOpen' \in BOOLEAN
    BY <1>4 DEF FocusBar
  <2> QED
    BY <1>4, <2>1 DEF FocusBar, BarInv, ResultsMatch
<1>5. CASE HandleSelect
  <2>1. barQuery' = NoUser /\ NoUser \in Texts
    BY <1>5 DEF HandleSelect, Texts
  <2>2. barOpen' \in BOOLEAN
    BY <1>5 DEF HandleSelect
  <2>3. barTimer' = barTimer /\ barCalls' = barCalls /\ barResults' = barResults /\ barLoading' = barLoading
    BY <1>5 DEF HandleSelect
  <2> QED
    BY <2>1, <2>2, <2>3 DEF BarInv, ResultsMatch
<1>6. CASE Arrive \/ RowClick \/ DialogClose \/ FeedPolled \/ EditFilter \/ TurnPage
  BY <1>6, <1>k DEF Arrive, RowClick, DialogClose, FeedPolled, EditFilter, TurnPage
<1>7. ASSUME NEW u \in dialogCalls, PaymentsRead(u) PROVE BarInv'
  BY <1>7, <1>k DEF PaymentsRead
<1> QED
  BY <1>1, <1>2, <1>3, <1>4, <1>5, <1>6, <1>7 DEF BrowseNext

LEMMA AddressStep ==
    ASSUME AddressInv, BarInv, BrowseNext
    PROVE  AddressInv'
<1>t. NoUser \in Texts /\ Users \subseteq Texts
  BY DEF Texts
<1>k. ASSUME url' \in Addresses, navigation' \in Addresses, chosen' \in Users \cup {NoUser}, UNCHANGED tableVars
      PROVE  AddressInv'
  BY <1>k DEF AddressInv, tableVars
<1>1. ASSUME NEW text \in Texts, Type(text) PROVE AddressInv'
  <2>1. navigation' \in Addresses
    BY <1>1 DEF Type, SyncQueryToUrl, AddressInv, Addresses
  <2> QED
    BY <1>1, <1>k, <2>1 DEF Type, AddressInv
<1>2. CASE DebounceEnds \/ FocusBar \/ \E text \in barCalls : SearchEnds(text)
  BY <1>2, <1>k DEF DebounceEnds, FocusBar, SearchEnds, AddressInv
<1>3. CASE HandleSelect
  <2>1. barResults \in Users
    BY <1>3 DEF HandleSelect, BarInv
  <2>2. navigation' \in Addresses
    BY <1>3, <1>t, <2>1 DEF HandleSelect, Addresses
  <2> QED
    BY <1>3, <1>k, <2>1, <2>2 DEF HandleSelect, AddressInv
<1>4. CASE Arrive
  BY <1>4 DEF Arrive, AddressInv
<1>5. CASE RowClick \/ \E u \in dialogCalls : PaymentsRead(u)
  BY <1>5, <1>k DEF RowClick, PaymentsRead, AddressInv
<1>6. CASE DialogClose
  <2>1. navigation' \in Addresses
    BY <1>6 DEF DialogClose, UserCleared, AddressInv, Addresses
  <2> QED
    BY <1>6, <1>k, <2>1 DEF DialogClose, AddressInv
<1>7. CASE FeedPolled \/ EditFilter
  BY <1>7 DEF FeedPolled, EditFilter, AddressInv
<1>8. CASE TurnPage
  <2>1. feedPage' \in Nat /\ feedPageSize' \in FeedPageSizes
    BY <1>8 DEF TurnPage, AddressInv
  <2> QED
    BY <1>8, <2>1 DEF TurnPage, AddressInv
<1> QED
  BY <1>1, <1>2, <1>3, <1>4, <1>5, <1>6, <1>7, <1>8 DEF BrowseNext

LEMMA DialogStep ==
    ASSUME DialogInv, AddressInv, BrowseNext
    PROVE  DialogInv'
<1>k. ASSUME UNCHANGED <<selectedUser, dialogVars>> PROVE DialogInv'
  BY <1>k DEF dialogVars, DialogInv, DialogShowsItsUser, DialogView
<1>1. ASSUME NEW u \in Users, OpenDialog(u) PROVE DialogInv'
  <2>1. CASE u = selectedUser
    BY <1>1, <1>k, <2>1 DEF OpenDialog
  <2>2. CASE u # selectedUser
    <3>1. dialogLoading' \in BOOLEAN /\ dialogError' \in BOOLEAN /\ dialogLoading'
      BY <1>1, <2>2 DEF OpenDialog
    <3>2. selectedUser' = u /\ dialogCalls' = {u} /\ dialogPayments' = dialogPayments
      BY <1>1, <2>2 DEF OpenDialog, CancelsOthers
    <3> QED
      BY <3>1, <3>2 DEF DialogInv, DialogShowsItsUser, DialogView
  <2> QED
    BY <2>1, <2>2
<1>2. CASE Arrive
  <2>1. navigation.user # NoUser => navigation.user \in Users
    BY DEF AddressInv, Addresses
  <2> QED
    BY <1>1, <1>2, <1>k, <2>1 DEF Arrive
<1>3. CASE RowClick
  BY <1>1, <1>3 DEF RowClick
<1>4. CASE DialogClose
  <2>1. dialogLoading' \in BOOLEAN /\ dialogError' \in BOOLEAN
    BY <1>4 DEF DialogClose
  <2> QED
    BY <1>4, <2>1 DEF DialogClose, DialogInv, DialogShowsItsUser, DialogView
<1>5. ASSUME NEW u \in dialogCalls, PaymentsRead(u) PROVE DialogInv'
  <2>1. u = selectedUser /\ u \in Users /\ selectedUser' = selectedUser /\ dialogCalls' \subseteq dialogCalls
    BY <1>5 DEF PaymentsRead, DialogInv
  <2>2. dialogLoading' \in BOOLEAN /\ dialogError' \in BOOLEAN /\ (dialogPayments' = u \/ dialogError')
    BY <1>5 DEF PaymentsRead, DialogInv
  <2>3. dialogPayments' \in Users \cup {NoUser}
    BY <1>5, <2>1 DEF PaymentsRead, DialogInv
  <2> QED
    BY <2>1, <2>2, <2>3 DEF DialogInv, DialogShowsItsUser, DialogView
<1>6. CASE \/ \E text \in Texts : Type(text)
           \/ \E text \in barCalls : SearchEnds(text)
           \/ DebounceEnds \/ FocusBar \/ HandleSelect \/ FeedPolled \/ EditFilter \/ TurnPage
  BY <1>6, <1>k DEF Type, SearchEnds, DebounceEnds, FocusBar, HandleSelect, FeedPolled, EditFilter, TurnPage
<1> QED
  BY <1>2, <1>3, <1>4, <1>5, <1>6 DEF BrowseNext

(***************************************************************************)
(* Polls and alerts.                                                       *)
(***************************************************************************)

PollsInv ==
    /\ searchInput \in Queries /\ committedQuery \in Queries /\ intervals \subseteq Queries
    /\ polls \subseteq [of : Queries, served : BOOLEAN, as : 0..MaxVersion]
    /\ pollData \in [of : Queries, as : 0..MaxVersion] \cup {NoData}
    /\ pollLoading \in BOOLEAN /\ pollError \in BOOLEAN /\ version \in 0..MaxVersion /\ edits \in 0..MaxEdits

Notes == [id : Alerts, read : BOOLEAN]

\* What was marked as read is listed and stays listed.
BellInv ==
    /\ panel \in BOOLEAN /\ active \subseteq Alerts /\ alertReads \subseteq SUBSET Alerts
    /\ notifications \subseteq Notes /\ dismissed \subseteq Alerts
    /\ dismissed \subseteq SeenIds
    /\ ReadStaysRead

Requests == [of : Queries, served : BOOLEAN, as : 0..MaxVersion]

LEMMA PollsStep ==
    ASSUME PollsInv, PollsNext
    PROVE  PollsInv'
<1>0. polls \subseteq Requests
  BY DEF PollsInv, Requests
<1>r. ASSUME NEW q \in Queries PROVE [of |-> q, served |-> FALSE, as |-> 0] \in Requests
  BY PollingBounds DEF Requests
<1>k. ASSUME polls' \subseteq Requests, committedQuery' \in Queries, intervals' \subseteq Queries, searchInput' \in Queries,
             UNCHANGED <<pollData, pollLoading, pollError>>, version' \in 0..MaxVersion, edits' \in 0..MaxEdits
      PROVE  PollsInv'
  BY <1>k DEF PollsInv, Requests
<1>1. ASSUME NEW q \in intervals, Poll(q) PROVE PollsInv'
  <2>1. polls' \subseteq Requests
    BY <1>0, <1>1, <1>r DEF Poll, Run, PollsInv
  <2> QED
    BY <1>1, <1>k, <2>1 DEF Poll, PollsInv
<1>2. CASE TypeQuery
  BY <1>0, <1>2, <1>k, PollingBounds DEF TypeQuery, PollsInv
<1>3. CASE CommitQuery
  <2>1. polls' \subseteq Requests
    BY <1>0, <1>3, <1>r DEF CommitQuery, Run, PollsInv
  <2> QED
    BY <1>3, <1>k, <2>1 DEF CommitQuery, IntervalReplaced, PollsInv
<1>4. CASE BackendChanges
  BY <1>0, <1>4, <1>k, PollingBounds DEF BackendChanges, PollsInv
<1>5. ASSUME NEW p \in polls, Serve(p) PROVE PollsInv'
  <2>1. [p EXCEPT !.served = TRUE, !.as = version] \in Requests
    BY <1>0 DEF Requests, PollsInv
  <2>2. polls' \subseteq Requests
    BY <1>0, <1>5, <2>1 DEF Serve
  <2> QED
    BY <1>5, <1>k, <2>2 DEF Serve, PollsInv
<1>6. ASSUME NEW p \in polls, PollAnswered(p) PROVE PollsInv'
  <2>1. pollError' \in BOOLEAN /\ pollLoading' \in BOOLEAN
    BY <1>6 DEF PollAnswered
  <2>2. pollData' \in [of : Queries, as : 0..MaxVersion]
    BY <1>0, <1>6 DEF PollAnswered, Requests
  <2> QED
    BY <1>6, <2>1, <2>2 DEF PollAnswered, PollsInv
<1>7. ASSUME NEW p \in polls, PollFails(p) PROVE PollsInv'
  <2>1. pollError' \in BOOLEAN /\ pollLoading' \in BOOLEAN
    BY <1>7 DEF PollFails
  <2> QED
    BY <1>7, <2>1 DEF PollFails, DataKept, PollsInv
<1> QED
  BY <1>1, <1>2, <1>3, <1>4, <1>5, <1>6, <1>7 DEF PollsNext

LEMMA BellStep ==
    ASSUME BellInv, BellNext
    PROVE  BellInv'
<1> DEFINE Marked(n) == [n EXCEPT !.read = TRUE]
<1>0. \A n \in notifications : n \in Notes
  BY DEF BellInv
<1>m. \A n \in notifications : Marked(n) \in Notes /\ Marked(n).id = n.id /\ Marked(n).read
  BY <1>0 DEF Notes
<1>e. \A m, n \in notifications : m.id = n.id => m = n
  BY DEF BellInv, ReadStaysRead
<1>s. \A n \in notifications : n.id \in SeenIds
  BY DEF SeenIds
<1>d. dismissed \subseteq SeenIds /\ dismissed \subseteq Alerts
  BY DEF BellInv
<1>1. CASE RaiseAlert \/ FetchAlerts \/ TogglePanel
  BY <1>1 DEF RaiseAlert, FetchAlerts, TogglePanel, BellInv, ReadStaysRead, SeenIds
<1>2. ASSUME NEW answer \in alertReads, AlertsFail(answer) PROVE BellInv'
  BY <1>2 DEF AlertsFail, BellInv, ReadStaysRead, SeenIds
<1>3. ASSUME NEW answer \in alertReads, AlertsRead(answer) PROVE BellInv'
  <2> DEFINE Fresh(a) == [id |-> a, read |-> FALSE]
             fresh == {Fresh(a) : a \in answer \ SeenIds}
  <2>1. \A a \in answer \ SeenIds : Fresh(a) \in Notes /\ Fresh(a).id = a /\ ~Fresh(a).read
    BY DEF BellInv, Notes
  <2>2. notifications' = notifications \cup fresh /\ dismissed' = dismissed
    BY <1>3 DEF AlertsRead
  <2> HIDE DEF Fresh
  <2>3. \A n \in fresh : n \in Notes /\ n.id \notin SeenIds
    BY <2>1
  <2>4. \A m, n \in fresh : m.id = n.id => m = n
    BY <2>1
  <2> HIDE DEF fresh
  <2>5. ReadStaysRead'
    BY <2>2, <2>3, <2>4, <1>s, <1>d, <1>e DEF ReadStaysRead, BellInv
  <2>6. (dismissed \subseteq SeenIds)'
    BY <1>d, <2>2 DEF SeenIds
  <2> QED
    BY <1>3, <2>2, <2>3, <2>5, <2>6 DEF AlertsRead, BellInv
<1>4. ASSUME NEW a \in Alerts, MarkRead(a) PROVE BellInv'
  <2> DEFINE After(n) == IF n.id = a THEN Marked(n) ELSE n
  <2>1. notifications' = {After(n) : n \in notifications} /\ dismissed' = dismissed \cup {a} /\ a \in SeenIds
    BY <1>4 DEF MarkRead
  <2>2. \A n \in notifications : After(n) \in Notes /\ After(n).id = n.id /\ (n.id = a \/ n.read => After(n).read)
    BY <1>0, <1>m
  <2> HIDE DEF After
  <2>3. ReadStaysRead'
    BY <2>1, <2>2, <1>e DEF ReadStaysRead, BellInv
  <2>4. SeenIds' = SeenIds
    BY <2>1, <2>2 DEF SeenIds
  <2> QED
    BY <1>4, <1>d, <2>1, <2>2, <2>3, <2>4 DEF MarkRead, BellInv
<1>5. CASE MarkAllRead
  <2>1. notifications' = {Marked(n) : n \in notifications} /\ dismissed' = dismissed \cup SeenIds
    BY <1>5 DEF MarkAllRead, SeenIds
  <2> HIDE DEF Marked
  <2>2. ReadStaysRead'
    BY <2>1, <1>m, <1>e DEF ReadStaysRead, BellInv
  <2>3. SeenIds' = SeenIds
    BY <2>1, <1>m DEF SeenIds
  <2>4. SeenIds \subseteq Alerts
    BY <1>0 DEF SeenIds, Notes
  <2> QED
    BY <1>5, <1>d, <1>m, <2>1, <2>2, <2>3, <2>4 DEF MarkAllRead, BellInv
<1> QED
  BY <1>1, <1>2, <1>3, <1>4, <1>5 DEF BellNext

(***************************************************************************)
(* Frame, copy button and QR generator.                                    *)
(***************************************************************************)

\* While the drawer is open its cleanup knows the opener and the overflow.
CleanUpKnows == navOpen => opener = "hamburger" /\ previousOverflow = "auto"

FrameInv ==
    /\ navOpen \in BOOLEAN /\ paletteOpen \in BOOLEAN /\ paletteSearch \in BOOLEAN
    /\ focus \in {"page", "hamburger", "drawer"} /\ opener \in {"none", "hamburger"}
    /\ overflow \in {"auto", "hidden"} /\ previousOverflow \in {"auto", "hidden"} /\ focusTimer \in BOOLEAN
    /\ shellPage \in {"overview", "payouts"}
    /\ ScrollRestored /\ CleanUpKnows

CopyInv ==
    /\ copied \in BOOLEAN /\ copyTimers \in {0, 1} /\ copyCalls \in 0..MaxTimers
    /\ CopiedIsTimed

QrInv ==
    /\ qrForm \in {"a", "b"} /\ qrCall \in {"none", "a", "b", "drawing"} /\ qrData \in {"none", "a", "b"}
    /\ qrImage \in {"none", "a", "b"} /\ qrError \in BOOLEAN

\* The drawer's effect runs: what is set up, or cleaned up and set up again.
LEMMA FrameStep ==
    ASSUME FrameInv, FrameNext
    PROVE  FrameInv'
<1>0. (navOpen <=> overflow # "auto") /\ CleanUpKnows
  BY DEF FrameInv, ScrollRestored
<1>1. CASE OpenNav
  <2>1. /\ navOpen' \in BOOLEAN /\ navOpen' /\ focusTimer' \in BOOLEAN /\ paletteOpen' \in BOOLEAN
        /\ paletteSearch' \in BOOLEAN
    BY <1>1 DEF OpenNav, SetUp, FrameInv
  <2>2. /\ opener' = "hamburger" /\ previousOverflow' = "auto" /\ overflow' = "hidden" /\ focus' = "hamburger"
        /\ shellPage' = shellPage
    BY <1>0, <1>1 DEF OpenNav, SetUp
  <2> QED
    BY <2>1, <2>2 DEF FrameInv, ScrollRestored, CleanUpKnows
<1>2. CASE CloseNav \/ FollowLink
  <2>1. /\ navOpen' \in BOOLEAN /\ ~navOpen' /\ focusTimer' \in BOOLEAN /\ paletteOpen' \in BOOLEAN
        /\ paletteSearch' \in BOOLEAN
    BY <1>2 DEF CloseNav, FollowLink, CleanUp, FrameInv
  <2>2. /\ opener' = opener /\ previousOverflow' = previousOverflow /\ overflow' = "auto" /\ focus' = "hamburger"
        /\ shellPage' \in {"overview", "payouts"}
    BY <1>0, <1>2 DEF CloseNav, FollowLink, CleanUp, OverflowRestored, CleanUpKnows, FrameInv
  <2> QED
    BY <2>1, <2>2 DEF FrameInv, ScrollRestored, CleanUpKnows
<1>3. CASE FocusMoves \/ PressTab
  <2>1. focusTimer' \in BOOLEAN
    BY <1>3 DEF FocusMoves, PressTab, FrameInv
  <2>2. focus' \in {"page", "hamburger", "drawer"}
    BY <1>3 DEF FocusMoves, PressTab
  <2>3. UNCHANGED <<navOpen, paletteOpen, paletteSearch, opener, overflow, previousOverflow, shellPage>>
    BY <1>3 DEF FocusMoves, PressTab
  <2> QED
    BY <2>1, <2>2, <2>3 DEF FrameInv, ScrollRestored, CleanUpKnows
<1>4. CASE TypeInPalette
  <2>1. paletteSearch' \in BOOLEAN
    BY <1>4 DEF TypeInPalette
  <2> QED
    BY <1>4, <2>1 DEF TypeInPalette, FrameInv, ScrollRestored, CleanUpKnows
<1>5. CASE TogglePalette \/ LeavePalette
  <2>1. /\ paletteOpen' \in BOOLEAN /\ paletteSearch' \in BOOLEAN
        /\ navOpen' = navOpen /\ Rerender
    BY <1>5 DEF TogglePalette, LeavePalette, FrameInv
  <2>2. shellPage' \in {"overview", "payouts"}
    BY <1>5 DEF TogglePalette, LeavePalette, FrameInv
  <2>3. CASE navOpen
    <3>1. /\ opener' = "hamburger" /\ previousOverflow' = "auto" /\ overflow' = "hidden"
          /\ focus' = "hamburger"
      BY <1>0, <2>1, <2>3 DEF Rerender, SetUp, OverflowRestored, CleanUpKnows
    <3>2. focusTimer' \in BOOLEAN
      BY <2>1, <2>3 DEF Rerender, SetUp
    <3> QED
      BY <2>1, <2>2, <2>3, <3>1, <3>2 DEF FrameInv, ScrollRestored, CleanUpKnows
  <2>4. CASE ~navOpen
    <3>1. UNCHANGED <<opener, previousOverflow, overflow, focusTimer, focus>>
      BY <2>1, <2>4 DEF Rerender
    <3> QED
      BY <2>1, <2>2, <3>1 DEF FrameInv, ScrollRestored, CleanUpKnows
  <2> QED
    BY <2>3, <2>4
<1> QED
  BY <1>1, <1>2, <1>3, <1>4, <1>5 DEF FrameNext

LEMMA CopyStep ==
    ASSUME CopyInv, CopyNext
    PROVE  CopyInv'
<1>0. copied <=> copyTimers = 1
  BY DEF CopyInv, CopiedIsTimed
<1>1. CASE CopyPressed \/ CopyRefused
  <2>1. copyCalls' \in 0..MaxTimers
    BY <1>1, TimersBound DEF CopyPressed, CopyRefused, CopyInv
  <2>2. copied' = copied /\ copyTimers' = copyTimers
    BY <1>1 DEF CopyPressed, CopyRefused
  <2> QED
    BY <2>1, <2>2 DEF CopyInv, CopiedIsTimed
<1>2. CASE CopyDone
  <2>1. copied' \in BOOLEAN /\ copied' /\ copyTimers' = 1
    BY <1>2 DEF CopyDone, TimerReplaced
  <2>2. copyCalls' \in 0..MaxTimers
    BY <1>2, TimersBound DEF CopyDone, CopyInv
  <2> QED
    BY <2>1, <2>2 DEF CopyInv, CopiedIsTimed
<1>3. CASE CopyTimer
  <2>1. copied' \in BOOLEAN /\ ~copied'
    BY <1>3 DEF CopyTimer
  <2>2. copyTimers' = 0 /\ copyCalls' = copyCalls
    BY <1>3 DEF CopyTimer, CopyInv
  <2> QED
    BY <2>1, <2>2 DEF CopyInv, CopiedIsTimed
<1> QED
  BY <1>1, <1>2, <1>3 DEF CopyNext

LEMMA QrStep ==
    ASSUME QrInv, QrNext
    PROVE  QrInv'
<1>1. qrError' \in BOOLEAN
  BY DEF QrInv, QrNext, EditQr, GenerateQr, QrAnswered, QrDrawn, QrFails
<1> QED
  BY <1>1 DEF QrInv, QrNext, EditQr, GenerateQr, QrAnswered, QrDrawn, QrFails

-----------------------------------------------------------------------------
(***************************************************************************)
(* The dashboard: a step is a step of one part, and the others rest.       *)
(***************************************************************************)

PagesInv ==
    /\ part \in Parts
    /\ PayoutsInv /\ VaultFormInv /\ AuditInv /\ BrowseInv
    /\ WalletInv /\ BlacklistInv /\ FeeInv /\ PauseInv
    /\ PollsInv /\ BellInv /\ FrameInv /\ CopyInv /\ QrInv

LEMMA PagesInit == Init => PagesInv
<1> SUFFICES ASSUME Init PROVE PagesInv
  OBVIOUS
<1> USE DEF Init
<1>1. PayoutsInv
  <2>1. refreshing \in BOOLEAN /\ logsForId \in BOOLEAN
    BY DEF PayoutsInit, Blank
  <2>2. validation \in [kind : {"idle", "parsing", "ok", "error"}, of : Files \cup {NoFile}]
    BY DEF PayoutsInit, Blank
  <2> QED
    BY <2>1, <2>2, PayoutsConstants
    DEF PayoutsInit, Blank, PayoutsInv, PayoutsTypeOK, VerdictIsOfFile, SentRowsArePayable
<1>2. VaultFormInv
  <2>1. superadmin \in BOOLEAN /\ confirmed \in BOOLEAN /\ signing \in BOOLEAN /\ ~confirmed /\ ~signing
    BY DEF VaultFormInit
  <2>2. params \in ParamSet
    BY DEF VaultFormInit, ParamSet, Rules
  <2> QED
    BY <2>1, <2>2, VaultBounds
    DEF VaultFormInit, VaultFormInv, VaultFormTypeOK, SignedIsSound, ConfirmedEach, OneSignature, ParamSet
<1>3. AuditInv
  <2>1. auditLoading \in BOOLEAN /\ apyLoading \in BOOLEAN /\ apyError \in BOOLEAN
    BY DEF AuditInit
  <2>2. LogInv
    BY <2>1, AuditConstants, FS_EmptySet DEF AuditInit, LogInv, ListedAsConfig
  <2>3. ApyInv
    BY <2>1, AuditConstants DEF AuditInit, ApyInv, ApyIsCurrent, OnlyThisVisit
  <2> QED
    BY <2>2, <2>3 DEF AuditInv
<1>4. BrowseInv
  <2>1. barOpen \in BOOLEAN /\ barLoading \in BOOLEAN /\ dialogLoading \in BOOLEAN /\ dialogError \in BOOLEAN
    BY DEF BrowseInit
  <2>2. NoUser \in Texts
    BY DEF Texts
  <2>3. BarInv
    BY <2>1, <2>2 DEF BrowseInit, BarInv, ResultsMatch
  <2>4. AddressInv
    BY <2>2 DEF BrowseInit, AddressInv, Addresses
  <2>5. DialogInv
    BY <2>1 DEF BrowseInit, DialogInv, DialogShowsItsUser, DialogView
  <2> QED
    BY <2>3, <2>4, <2>5 DEF BrowseInv
<1>5. WalletInv
  BY DEF AdminInit, WalletStart, WalletInv, WalletFlags, WalletWasGranted
<1>6. BlacklistInv
  <2>1. firstConfirmed \in BOOLEAN
    BY DEF AdminInit
  <2> QED
    BY <2>1, TargetsDiffer DEF AdminInit, BlacklistInv, BlacklistWasReviewed, TickIsOfTarget
<1>7. FeeInv
  BY DEF AdminInit, FeeInv
<1>8. PauseInv
  <2>1. vaultPaused \in BOOLEAN /\ pauseDrawer \in BOOLEAN /\ pauseAck \in BOOLEAN
    BY DEF AdminInit
  <2> QED
    BY <2>1 DEF AdminInit, PauseInv, PauseAsTyped
<1>9. PollsInv
  <2>1. pollLoading \in BOOLEAN /\ pollError \in BOOLEAN
    BY DEF PollingInit
  <2>2. polls \subseteq Requests
    BY PollingBounds DEF PollingInit, Requests
  <2> QED
    BY <2>1, <2>2, PollingBounds DEF PollingInit, PollsInv, Requests
<1>10. BellInv
  <2>1. panel \in BOOLEAN
    BY DEF PollingInit
  <2> QED
    BY <2>1 DEF PollingInit, BellInv, ReadStaysRead
<1>11. FrameInv
  <2>1. navOpen \in BOOLEAN /\ paletteOpen \in BOOLEAN /\ paletteSearch \in BOOLEAN /\ focusTimer \in BOOLEAN /\ ~navOpen
    BY DEF ShellInit
  <2> QED
    BY <2>1 DEF ShellInit, FrameInv, ScrollRestored, CleanUpKnows
<1>12. CopyInv
  <2>1. copied \in BOOLEAN /\ ~copied
    BY DEF ShellInit
  <2> QED
    BY <2>1, TimersBound DEF ShellInit, CopyInv, CopiedIsTimed
<1>13. QrInv
  <2>1. qrError \in BOOLEAN
    BY DEF ShellInit
  <2> QED
    BY <2>1 DEF ShellInit, QrInv
<1> QED
  BY <1>1, <1>2, <1>3, <1>4, <1>5, <1>6, <1>7, <1>8, <1>9, <1>10, <1>11, <1>12, <1>13 DEF PagesInv

\* What a part at rest keeps.
LEMMA PayoutsRest == ASSUME PayoutsInv, UNCHANGED payoutsVars PROVE PayoutsInv'
BY DEF payoutsVars, uploadVars, PayoutsInv, PayoutsTypeOK, VerdictIsOfFile, SentRowsArePayable

LEMMA VaultFormRest == ASSUME VaultFormInv, UNCHANGED vaultFormVars PROVE VaultFormInv'
BY DEF vaultFormVars, VaultFormInv, VaultFormTypeOK, SignedIsSound, ConfirmedEach, OneSignature

LEMMA AuditRest == ASSUME AuditInv, UNCHANGED auditVars PROVE AuditInv'
BY DEF auditVars, logVars, apyVars, AuditInv, LogInv, ListedAsConfig, ApyInv, ApyIsCurrent, OnlyThisVisit

LEMMA BrowseRest == ASSUME BrowseInv, UNCHANGED browseVars PROVE BrowseInv'
BY DEF browseVars, barVars, tableVars, dialogVars, BrowseInv, BarInv, ResultsMatch, AddressInv,
       DialogInv, DialogShowsItsUser, DialogView

LEMMA WalletRest == ASSUME WalletInv, UNCHANGED walletVars PROVE WalletInv'
BY DEF walletVars, WalletInv, WalletFlags, WalletWasGranted

LEMMA BlacklistRest == ASSUME BlacklistInv, UNCHANGED blacklistVars PROVE BlacklistInv'
BY DEF blacklistVars, BlacklistInv, BlacklistWasReviewed, TickIsOfTarget

LEMMA FeeRest == ASSUME FeeInv, UNCHANGED feeVars PROVE FeeInv'
BY DEF feeVars, FeeInv

LEMMA PauseRest == ASSUME PauseInv, UNCHANGED pauseVars PROVE PauseInv'
BY DEF pauseVars, PauseInv, PauseAsTyped

LEMMA PollsRest == ASSUME PollsInv, UNCHANGED pollVars PROVE PollsInv'
BY DEF pollVars, PollsInv

LEMMA BellRest == ASSUME BellInv, UNCHANGED bellVars PROVE BellInv'
BY DEF bellVars, BellInv, ReadStaysRead, SeenIds

LEMMA FrameRest == ASSUME FrameInv, UNCHANGED frameVars PROVE FrameInv'
BY DEF frameVars, FrameInv, ScrollRestored, CleanUpKnows

LEMMA CopyRest == ASSUME CopyInv, UNCHANGED copyVars PROVE CopyInv'
BY DEF copyVars, CopyInv, CopiedIsTimed

LEMMA QrRest == ASSUME QrInv, UNCHANGED qrVars PROVE QrInv'
BY DEF qrVars, QrInv

LEMMA PagesStep ==
    ASSUME ~OverlapDrops, ~OverlapSearch
    PROVE  PagesInv /\ [Next]_vars => PagesInv'
<1> SUFFICES ASSUME PagesInv, [Next]_vars PROVE PagesInv'
  OBVIOUS
<1>1. /\ PayoutsNext \/ UNCHANGED payoutsVars
      /\ VaultFormNext \/ UNCHANGED vaultFormVars
      /\ AuditNext \/ UNCHANGED auditVars
      /\ BrowseNext \/ UNCHANGED browseVars
  BY DEF Next, vars, Except, OfAdmin, OfPages, OfPolling, OfShell
<1>2. /\ WalletNext \/ UNCHANGED walletVars
      /\ BlacklistNext \/ UNCHANGED blacklistVars
      /\ FeeNext \/ UNCHANGED feeVars
      /\ PauseNext \/ UNCHANGED pauseVars
  BY DEF Next, vars, Except, OfAdmin, OfPages, OfPolling, OfShell, adminVars
<1>3. /\ PollsNext \/ UNCHANGED pollVars
      /\ BellNext \/ UNCHANGED bellVars
      /\ FrameNext \/ UNCHANGED frameVars
      /\ CopyNext \/ UNCHANGED copyVars
      /\ QrNext \/ UNCHANGED qrVars
  BY DEF Next, vars, Except, OfAdmin, OfPages, OfPolling, OfShell
<1>4. part' = part
  BY DEF Next, vars, Except
<1>5. PayoutsInv' /\ VaultFormInv'
  BY <1>1, PayoutsStep, PayoutsRest, VaultFormStep, VaultFormRest DEF PagesInv
<1>6. AuditInv'
  BY <1>1, LogStep, ApyStep, AuditRest DEF PagesInv, AuditInv
<1>7. BrowseInv'
  BY <1>1, BarStep, AddressStep, DialogStep, BrowseRest DEF PagesInv, BrowseInv
<1>8. WalletInv' /\ BlacklistInv' /\ FeeInv' /\ PauseInv'
  BY <1>2, WalletStep, WalletRest, BlacklistStep, BlacklistRest, FeeStep, FeeRest, PauseStep, PauseRest DEF PagesInv
<1>9. PollsInv' /\ BellInv' /\ FrameInv' /\ CopyInv' /\ QrInv'
  BY <1>3, PollsStep, PollsRest, BellStep, BellRest, FrameStep, FrameRest, CopyStep, CopyRest, QrStep, QrRest DEF PagesInv
<1> QED
  BY <1>4, <1>5, <1>6, <1>7, <1>8, <1>9 DEF PagesInv

LEMMA PagesInvariant ==
    ASSUME ~OverlapDrops, ~OverlapSearch
    PROVE  Spec => []PagesInv
BY PagesInit, PagesStep, PTL DEF Spec

\* What is paid, signed, paused or blacklisted from the dashboard was checked,
\* confirmed and shown, for every set of files, users and rates and any number of
\* edits, failures and timers, as long as one file is parsed and one text searched
\* at a time (handleUpload, signAndSubmit, handleBlacklistConfirm, handleExecute).
THEOREM AlwaysActsAsReviewed ==
    ASSUME ~OverlapDrops, ~OverlapSearch
    PROVE  Spec => []ActsAsReviewed
<1>1. PagesInv => ActsAsReviewed
  BY DEF PagesInv, PayoutsInv, VaultFormInv, WalletInv, BlacklistInv, PauseInv, ActsAsReviewed
<1> QED
  BY <1>1, PagesInvariant, PTL

\* What the pages show belongs to what was asked last, whatever answers come late:
\* signed changes stay listed, the rate history, the dialog and the suggestions
\* are the present ones, read alerts stay read, and timers and effects undo what
\* they did.
THEOREM ShownAlwaysCurrent ==
    ASSUME ~OverlapDrops, ~OverlapSearch
    PROVE  Spec => []ShownIsCurrent
<1>1. PagesInv => TypeOK
  <2> SUFFICES ASSUME PagesInv PROVE TypeOK
    OBVIOUS
  <2>1. PayoutsTypeOK /\ VaultFormTypeOK
    BY DEF PagesInv, PayoutsInv, VaultFormInv
  <2>2. AuditTypeOK
    BY DEF PagesInv, AuditInv, LogInv, ApyInv, AuditTypeOK
  <2>3. BrowseTypeOK
    BY DEF PagesInv, BrowseInv, BarInv, AddressInv, DialogInv, Addresses, BrowseTypeOK
  <2>4. AdminTypeOK
    BY DEF PagesInv, WalletInv, WalletFlags, BlacklistInv, FeeInv, PauseInv, AdminTypeOK
  <2>5. PollingTypeOK
    BY DEF PagesInv, PollsInv, BellInv, Notes, PollingTypeOK
  <2>6. copyTimers \in 0..MaxTimers
    BY TimersBound DEF PagesInv, CopyInv
  <2>7. ShellTypeOK
    BY <2>6 DEF PagesInv, FrameInv, CopyInv, QrInv, ShellTypeOK
  <2> QED
    BY <2>1, <2>2, <2>3, <2>4, <2>5, <2>7 DEF PagesInv, TypeOK
<1>2. PagesInv => SignedChangesListed /\ ApyIsCurrent
  BY DEF PagesInv, AuditInv, LogInv, ApyInv, ListedAsConfig, SignedChangesListed
<1>3. PagesInv => DialogShowsItsUser /\ SuggestionsMatch
  BY DEF PagesInv, BrowseInv, BarInv, DialogInv, ResultsMatch, SuggestionsMatch
<1>4. PagesInv => ReadStaysRead /\ ScrollRestored /\ CopiedIsTimed
  BY DEF PagesInv, BellInv, FrameInv, CopyInv
<1>5. PagesInv => ShownIsCurrent
  BY <1>1, <1>2, <1>3, <1>4 DEF ShownIsCurrent
<1> QED
  BY <1>5, PagesInvariant, PTL

\* usePolling keeps the data it loaded last through every error, late answer and
\* change of the query: a section that has shown data never shows none again.
THEOREM LoadedDataStays ==
    ASSUME ~OverlapDrops, ~OverlapSearch
    PROVE  Spec => DataStays
<1>1. ASSUME PagesInv, PollsNext, pollData # NoData
      PROVE  pollData' # NoData
  <2>1. ASSUME NEW p \in polls, PollAnswered(p) PROVE pollData' # NoData
    <3>1. p \in Requests
      BY <1>1 DEF PagesInv, PollsInv, Requests
    <3>2. pollData' \in [of : Queries, as : 0..MaxVersion]
      BY <2>1, <3>1 DEF PollAnswered, Requests
    <3> QED
      BY <3>2, PollingBounds
  <2>2. ASSUME NEW p \in polls, PollFails(p) PROVE pollData' # NoData
    BY <1>1, <2>2 DEF PollFails, DataKept
  <2>3. CASE \/ TypeQuery \/ CommitQuery \/ BackendChanges
             \/ \E q \in intervals : Poll(q)
             \/ \E p \in polls : Serve(p)
    BY <1>1, <2>3 DEF TypeQuery, CommitQuery, BackendChanges, Poll, Serve
  <2> QED
    BY <1>1, <2>1, <2>2, <2>3 DEF PollsNext
<1>2. PagesInv /\ [Next]_vars
          => [pollData # NoData => PollView' = "data" /\ HealthView' # "unknown"]_pollVars
  <2> SUFFICES ASSUME PagesInv, [Next]_vars, pollData # NoData
               PROVE  UNCHANGED pollVars \/ (PollView' = "data" /\ HealthView' # "unknown")
    OBVIOUS
  <2>1. PollsNext \/ UNCHANGED pollVars
    BY DEF Next, vars, Except, OfAdmin, OfPages, OfPolling, OfShell
  <2>2. PollsNext => PollView' = "data" /\ HealthView' # "unknown"
    BY <1>1 DEF PollView, HealthView
  <2> QED
    BY <2>1, <2>2
<1> QED
  BY <1>2, PagesInvariant, PTL DEF Spec, DataStays
=============================================================================
