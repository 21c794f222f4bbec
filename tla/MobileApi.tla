----------------------------- MODULE MobileApi -----------------------------
(***************************************************************************)
(* The mobile app's API client (services/api.ts): the session in the       *)
(* keychain, the fetch wrapper that clears it on a 401, the resolution of  *)
(* usernames with the recent recipients it records, and the exchange of a  *)
(* Privy token for the wallet it is linked to.                             *)
(***************************************************************************)
EXTENDS Naturals, Sequences, FiniteSets

CONSTANTS
    Sessions,         \* tokens logins bring, each once
    NoSession,
    Usernames,
    NoName,
    MaxRecents,       \* MAX_RECENT_RECIPIENTS
    OverlapResolves,  \* usernames may be resolved side by side
    MaxFetches        \* bound: requests sent

ASSUME ApiConstants == MaxRecents \in Nat \ {0} /\ MaxFetches \in Nat /\ OverlapResolves \in BOOLEAN

VARIABLES
    session,          \* the token in the keychain
    used,             \* history: tokens that have been set
    rejected,         \* history: tokens a 401 has answered
    undeleted,        \* history: tokens whose deletion failed
    fetches,          \* requests under way: [n, token, kind, name]
    fetchCount,       \* bound, and the number of a request
    recents,          \* recent_recipient_usernames
    remembering,      \* saveRecentRecipient under way: [name, read]
    log,              \* history: names recorded, in order
    linking           \* recoverWalletViaPrivy: "idle", "verify", "lookup", "linked" or "refused"
apiVars == <<session, used, rejected, undeleted, fetches, fetchCount, recents, remembering, log, linking>>

ApiInit ==
    /\ session = NoSession /\ used = {} /\ rejected = {} /\ undeleted = {} /\ fetches = {} /\ fetchCount = 0
    /\ recents = <<>> /\ remembering = {} /\ log = <<>> /\ linking = "idle"

-----------------------------------------------------------------------------
\* setSessionToken, after a login.
SetSession(t) ==
    /\ t \notin used /\ used' = used \cup {t} /\ session' = t
    /\ UNCHANGED <<rejected, undeleted, fetches, fetchCount, recents, remembering, log, linking>>

\* getSessionToken: a read that fails counts as no token.
ReadTokens == {session, NoSession}

\* apiFetch reads the token and sends it along.
Fetching(kind, name) ==
    /\ fetchCount < MaxFetches /\ fetchCount' = fetchCount + 1
    /\ \E t \in ReadTokens :
         fetches' = fetches \cup {[n |-> fetchCount, token |-> t, kind |-> kind, name |-> name]}

OtherFetch ==
    /\ Fetching("other", NoName)
    /\ UNCHANGED <<session, used, rejected, undeleted, recents, remembering, log, linking>>

\* clearSessionToken: whatever session is stored by then goes, unless the
\* deletion fails, of which nobody is told.
\* The mutant: the user state goes and the token stays.
SessionKept(f) == session' = session /\ UNCHANGED undeleted
SessionCleared(f) ==
    \/ session' = NoSession /\ UNCHANGED undeleted
    \/ session' = session /\ undeleted' = undeleted \cup ({session} \ {NoSession})

\* A 401, of any request.  A recovery it answers has failed.
Unauthorized(f) ==
    /\ f \in fetches /\ fetches' = fetches \ {f}
    /\ SessionCleared(f) /\ rejected' = rejected \cup ({f.token} \ {NoSession})
    /\ linking' = IF f.kind \in {"verify", "lookup"} THEN "refused" ELSE linking
    /\ UNCHANGED <<used, fetchCount, recents, remembering, log>>

\* Any other answer, or a network error, without what was asked for: the
\* callers throw, each with its code.
FetchFails(f) ==
    /\ f \in fetches /\ fetches' = fetches \ {f}
    /\ linking' = IF f.kind \in {"verify", "lookup"} THEN "refused" ELSE linking
    /\ UNCHANGED <<session, used, rejected, undeleted, fetchCount, recents, remembering, log>>

OtherAnswered(f) ==
    /\ f \in fetches /\ f.kind = "other" /\ fetches' = fetches \ {f}
    /\ UNCHANGED <<session, used, rejected, undeleted, fetchCount, recents, remembering, log, linking>>

-----------------------------------------------------------------------------
(* Usernames. *)

NoneResolving == remembering = {} /\ \A f \in fetches : f.kind # "resolve"

\* resolveUsername, also as safeResolveUsername and, side by side, as
\* batchResolveUsernames.
ResolveUsername(name) ==
    /\ OverlapResolves \/ NoneResolving
    /\ Fetching("resolve", name)
    /\ UNCHANGED <<session, used, rejected, undeleted, recents, remembering, log, linking>>

\* A complete answer is recorded: saveRecentRecipient reads the list first.
Resolved(f) ==
    /\ f \in fetches /\ f.kind = "resolve" /\ fetches' = fetches \ {f}
    /\ remembering' = remembering \cup {[name |-> f.name, read |-> recents]}
    /\ UNCHANGED <<session, used, rejected, undeleted, fetchCount, recents, log, linking>>

\* The list without the name.
Others(name, list) ==
    LET kept[i \in 0..Len(list)] ==
            IF i = 0 THEN <<>> ELSE IF list[i] # name THEN Append(kept[i - 1], list[i]) ELSE kept[i - 1]
    IN kept[Len(list)]

\* The name comes first, once, and the list is cut.
\* The mutants: the list is not cut; an earlier mention stays.
Uncut(name, list) == <<name>> \o Others(name, list)
\* mutant: a name is listed twice.
Prepended(name, list) == SubSeq(<<name>> \o list, 1, IF Len(list) < MaxRecents THEN Len(list) + 1 ELSE MaxRecents)
WithRecent(name, list) ==
    LET next == <<name>> \o Others(name, list)
    IN SubSeq(next, 1, IF Len(next) < MaxRecents THEN Len(next) ELSE MaxRecents)

SaveRecentRecipient(s) ==
    /\ s \in remembering /\ remembering' = remembering \ {s}
    /\ recents' = WithRecent(s.name, s.read) /\ log' = Append(log, s.name)
    /\ UNCHANGED <<session, used, rejected, undeleted, fetches, fetchCount, linking>>

-----------------------------------------------------------------------------
(* recoverWalletViaPrivy: the token is verified, then the identity looked up. *)

RecoverWalletViaPrivy ==
    /\ linking \notin {"verify", "lookup"} /\ session # NoSession /\ linking' = "verify"
    /\ Fetching("verify", NoName)
    /\ UNCHANGED <<session, used, rejected, undeleted, recents, remembering, log>>

Verified(f) ==
    /\ f \in fetches /\ f.kind = "verify" /\ linking' = "lookup" /\ fetchCount' = fetchCount + 1
    /\ \E t \in ReadTokens :
         fetches' = (fetches \ {f}) \cup {[n |-> fetchCount, token |-> t, kind |-> "lookup", name |-> NoName]}
    /\ UNCHANGED <<session, used, rejected, undeleted, recents, remembering, log>>

LookedUp(f) ==
    /\ f \in fetches /\ f.kind = "lookup" /\ linking' = "linked" /\ fetches' = fetches \ {f}
    /\ UNCHANGED <<session, used, rejected, undeleted, fetchCount, recents, remembering, log>>

ApiNext ==
    \/ (\E t \in Sessions : SetSession(t)) \/ OtherFetch \/ (\E name \in Usernames : ResolveUsername(name))
    \/ RecoverWalletViaPrivy \/ (\E s \in remembering : SaveRecentRecipient(s))
    \/ \E f \in fetches : \/ Unauthorized(f) \/ FetchFails(f) \/ OtherAnswered(f) \/ Resolved(f) \/ Verified(f)
                          \/ LookedUp(f)

ApiMoves ==
    \/ (\E s \in remembering : SaveRecentRecipient(s))
    \/ \E f \in fetches : \/ Unauthorized(f) \/ FetchFails(f) \/ OtherAnswered(f) \/ Resolved(f) \/ Verified(f)
                          \/ LookedUp(f)

-----------------------------------------------------------------------------
\* Types of the API client.
ApiTypeOK ==
    /\ session \in Sessions \cup {NoSession} /\ used \subseteq Sessions /\ rejected \subseteq used /\ undeleted \subseteq used
    /\ fetches \subseteq [n : 0..2 * MaxFetches, token : Sessions \cup {NoSession},
                          kind : {"other", "resolve", "verify", "lookup"}, name : Usernames \cup {NoName}]
    /\ Len(recents) <= MaxRecents /\ (\A i \in DOMAIN recents : recents[i] \in Usernames)
    /\ linking \in {"idle", "verify", "lookup", "linked", "refused"}

\* A token the server has answered with 401 is not sent again by a later
\* request, whatever other answers arrive in between (api.ts:131-153), unless
\* the keychain refused to delete it, which clearSessionToken swallows (97).
RejectedIsNotStored == session \notin rejected \ undeleted

\* Resolved one after another, the recent recipients are the last names
\* recorded, the latest first and each once, as the log tells them
\* (api.ts:170-184, 312-315).
LastMention(name) == CHOOSE i \in DOMAIN log : log[i] = name /\ \A j \in DOMAIN log : log[j] = name => j <= i
RecentsFollowLog ==
    LET names == {log[i] : i \in DOMAIN log}
        newer(name) == {m \in names : LastMention(m) > LastMention(name)}
    IN /\ \A i \in DOMAIN recents : recents[i] \in names /\ Cardinality(newer(recents[i])) = i - 1
       /\ Len(recents) = IF Cardinality(names) < MaxRecents THEN Cardinality(names) ELSE MaxRecents

\* A request ends, one way or the other.
ApiWorking == fetches # {} \/ remembering # {} \/ linking \in {"verify", "lookup"}
=============================================================================
