-------------------------- MODULE DashboardPolling --------------------------
(***************************************************************************)
(* What the dashboard keeps up to date by polling: usePolling, as the      *)
(* identity grid uses it with a query that changes (the other users of it  *)
(* keep theirs), and the alerts of the notification bell.  Polls overlap   *)
(* when an answer takes longer than the interval, and answers come in any  *)
(* order.                                                                  *)
(***************************************************************************)
EXTENDS Naturals, FiniteSets

CONSTANTS
    Queries,        \* queries of the grid
    NoData,
    MaxVersion,     \* bound: how often what the backend knows changes
    MaxPolls,       \* bound: requests on the wire at a time
    Alerts,         \* alerts the backend may raise
    MaxEdits        \* bound: changes of the query

ASSUME PollingBounds ==
    /\ MaxVersion \in Nat /\ MaxEdits \in Nat
    /\ NoData \notin [of : Queries, as : 0..MaxVersion]

VARIABLES
    searchInput, committedQuery,
    intervals,      \* queries with a running interval
    polls,          \* requests on the wire; served once the backend read its data
    pollData,       \* data: which query it answers and as of when, or NoData
    pollLoading, pollError,
    version,        \* what the backend knows
    edits,          \* bound
    panel,          \* whether the panel of the health indicator or the bell is open
    active,         \* alerts the backend has now
    alertReads,     \* reads of the alerts on the wire
    notifications,  \* [id, read], in the order shown
    dismissed       \* history: alerts marked as read

pollVars == <<searchInput, committedQuery, intervals, polls, pollData, pollLoading, pollError, version, edits>>
bellVars == <<panel, active, alertReads, notifications, dismissed>>

-----------------------------------------------------------------------------
PollingInit ==
    /\ searchInput \in Queries /\ committedQuery = searchInput
    /\ intervals = {committedQuery}
    /\ polls = {[of |-> committedQuery, served |-> FALSE, as |-> 0]}
    /\ pollData = NoData /\ pollLoading = TRUE /\ pollError = FALSE /\ version = 0 /\ edits = 0
    /\ panel = FALSE /\ active = {} /\ alertReads = {} /\ notifications = {} /\ dismissed = {}

\* run: one more request, for the query of the render that made it.
Run(q) == polls' = polls \cup {[of |-> q, served |-> FALSE, as |-> 0]}

\* An interval fires, or the refresh button is pressed.
Poll(q) ==
    /\ q \in intervals /\ Cardinality(polls) < MaxPolls
    /\ Run(q)
    /\ UNCHANGED <<searchInput, committedQuery, intervals, pollData, pollLoading, pollError, version, edits>>

TypeQuery ==
    /\ edits < MaxEdits /\ edits' = edits + 1
    /\ \E q \in Queries \ {searchInput} : searchInput' = q
    /\ UNCHANGED <<committedQuery, intervals, polls, pollData, pollLoading, pollError, version>>

\* mutant: the old interval is not cleared.
IntervalKept(q) == intervals \cup {q}
IntervalReplaced(q) == {q}

\* handleSearch and clearSearch: the effect of usePolling runs again, its
\* cleanup stops the old interval and not what is on the wire.
CommitQuery ==
    /\ searchInput # committedQuery
    /\ committedQuery' = searchInput
    /\ intervals' = IntervalReplaced(searchInput)
    /\ Run(searchInput)
    /\ UNCHANGED <<searchInput, pollData, pollLoading, pollError, version, edits>>

\* The backend reads its data for a request.
Serve(p) ==
    /\ ~p.served
    /\ polls' = (polls \ {p}) \cup {[p EXCEPT !.served = TRUE, !.as = version]}
    /\ UNCHANGED <<searchInput, committedQuery, intervals, pollData, pollLoading, pollError, version, edits>>

\* An answer arrives; whatever arrives last is shown.
PollAnswered(p) ==
    /\ p.served
    /\ polls' = polls \ {p}
    /\ pollData' = [of |-> p.of, as |-> p.as] /\ pollError' = FALSE /\ pollLoading' = FALSE
    /\ UNCHANGED <<searchInput, committedQuery, intervals, version, edits>>

\* mutant: an error takes away what was loaded.
DataDropped == NoData
DataKept == pollData

\* A request fails: the error is shown beside what was loaded last.
PollFails(p) ==
    /\ polls' = polls \ {p}
    /\ pollData' = DataKept /\ pollError' = TRUE /\ pollLoading' = FALSE
    /\ UNCHANGED <<searchInput, committedQuery, intervals, version, edits>>

BackendChanges ==
    /\ version < MaxVersion /\ version' = version + 1
    /\ UNCHANGED <<searchInput, committedQuery, intervals, polls, pollData, pollLoading, pollError, edits>>

\* What a section, a table or a card that polls shows.
PollView ==
    CASE pollLoading /\ pollData = NoData -> "skeleton"
      [] ~pollLoading /\ pollData = NoData -> "empty"
      [] OTHER -> "data"
\* The badge of the health indicator.
HealthView == IF pollData = NoData THEN "unknown" ELSE IF pollError THEN "degraded" ELSE "ok"

PollsNext ==
    \/ \E q \in intervals : Poll(q)
    \/ TypeQuery \/ CommitQuery \/ BackendChanges
    \/ \E p \in polls : Serve(p) \/ PollAnswered(p) \/ PollFails(p)

-----------------------------------------------------------------------------
(* The notification bell. *)

RaiseAlert ==
    /\ \E a \in Alerts : active' = IF a \in active THEN active \ {a} ELSE active \cup {a}
    /\ UNCHANGED <<panel, alertReads, notifications, dismissed>>

\* fetchAlerts asks, every 30 s and at the start.
FetchAlerts ==
    /\ Cardinality(alertReads) < MaxPolls
    /\ alertReads' = alertReads \cup {active}
    /\ UNCHANGED <<panel, active, notifications, dismissed>>

\* mutant: alerts already shown come again as new ones.
SeenNone == {}
\* seenIds: everything that was ever shown.
SeenIds == {n.id : n \in notifications}

\* New alerts go to the front, the rest stay as they were.
AlertsRead(answer) ==
    /\ alertReads' = alertReads \ {answer}
    /\ notifications' = notifications \cup {[id |-> a, read |-> FALSE] : a \in answer \ SeenIds}
    /\ UNCHANGED <<panel, active, dismissed>>

AlertsFail(answer) ==
    /\ alertReads' = alertReads \ {answer}
    /\ UNCHANGED <<panel, active, notifications, dismissed>>

UnreadCount == Cardinality({n \in notifications : ~n.read})

MarkRead(a) ==
    /\ panel /\ a \in SeenIds
    /\ notifications' = {IF n.id = a THEN [n EXCEPT !.read = TRUE] ELSE n : n \in notifications}
    /\ dismissed' = dismissed \cup {a}
    /\ UNCHANGED <<panel, active, alertReads>>

MarkAllRead ==
    /\ panel /\ UnreadCount > 0
    /\ notifications' = {[n EXCEPT !.read = TRUE] : n \in notifications}
    /\ dismissed' = dismissed \cup {n.id : n \in notifications}
    /\ UNCHANGED <<panel, active, alertReads>>

\* The button, or a click outside while it is open.
TogglePanel == panel' = ~panel /\ UNCHANGED <<active, alertReads, notifications, dismissed>>

BellNext ==
    \/ RaiseAlert \/ FetchAlerts \/ MarkAllRead \/ TogglePanel
    \/ \E answer \in alertReads : AlertsRead(answer) \/ AlertsFail(answer)
    \/ \E a \in Alerts : MarkRead(a)

-----------------------------------------------------------------------------
PollingTypeOK ==
    /\ searchInput \in Queries /\ committedQuery \in Queries /\ intervals \subseteq Queries
    /\ polls \subseteq [of : Queries, served : BOOLEAN, as : 0..MaxVersion]
    /\ pollData \in [of : Queries, as : 0..MaxVersion] \cup {NoData}
    /\ pollLoading \in BOOLEAN /\ pollError \in BOOLEAN /\ version \in 0..MaxVersion /\ edits \in 0..MaxEdits
    /\ panel \in BOOLEAN /\ active \subseteq Alerts /\ alertReads \subseteq SUBSET Alerts
    /\ notifications \subseteq [id : Alerts, read : BOOLEAN] /\ dismissed \subseteq Alerts

\* "Returns latest data": once the query and the backend are at rest, what is
\* shown becomes the present answer to the present query and stays so, over
\* late answers to earlier queries and earlier states.
PollConverges == <>[](pollData # NoData /\ pollData.of = committedQuery /\ pollData.as = version)

\* A page that has shown data never falls back to none: an error is "showing
\* the most recently loaded values".
DataStays == [][pollData # NoData => PollView' = "data" /\ HealthView' # "unknown"]_pollVars

\* An alert is listed once and stays read once it was, over overlapping and
\* reordered reads and alerts that end and come back.
ReadStaysRead ==
    \A n \in notifications : /\ n.id \in dismissed => n.read
                             /\ \A m \in notifications : m.id = n.id => m = n
=============================================================================
