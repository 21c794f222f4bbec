--------------------------- MODULE DashboardAudit ---------------------------
(***************************************************************************)
(* The audit and rate-history tabs of the dashboard's yield page: the log  *)
(* merged from local entries and the answers of the backend, its filters   *)
(* and pages, and the rate history that is read on every visit of its tab. *)
(*                                                                         *)
(* A row is its id, its action, its day and whether it contains the text   *)
(* searched for; addresses, volumes and formatting are left out, and so is *)
(* the order of the rows, of which no property speaks.                     *)
(***************************************************************************)
EXTENDS Integers, FiniteSets

CONSTANTS
    SeedRows,       \* MOCK_TXS
    ServerRows,     \* what the backend has
    AuditPageSize,  \* PAGE_SIZE
    MaxFetches,     \* bound: reads of the log
    MaxVisits,      \* bound: visits of the rate history
    MaxChanges      \* bound: configuration changes signed

\* The id of a change signed here is its moment; the backend's ids are its own.
ASSUME AuditConstants ==
    /\ IsFiniteSet(SeedRows) /\ IsFiniteSet(ServerRows)
    /\ \A row \in SeedRows \cup ServerRows : row.hit \in BOOLEAN /\ row.day \in Nat
    /\ \A row \in ServerRows, n \in 0..MaxChanges : row.id # <<"cfg", n>>
    /\ AuditPageSize \in Nat \ {0} /\ MaxFetches \in Nat /\ MaxVisits \in Nat /\ MaxChanges \in Nat

VARIABLES
    auditTab,           \* tab
    auditTransactions,  \* the rows known
    auditLoading,
    auditFetches,       \* reads on the wire, each with its filter
    fetchCount,         \* bound
    auditFilter,        \* search, actionFilter, dateFrom and dateTo
    auditPage,          \* page
    expandedRow,
    recorded,           \* history: ids of the changes signed here
    apyReads,           \* reads of the rate history that are not cancelled
    apyLoading, apyShown, apyError,
    visit               \* how often the rate history was opened

logVars == <<auditTransactions, auditLoading, auditFetches, fetchCount, auditFilter, auditPage, expandedRow, recorded>>
apyVars == <<apyReads, apyLoading, apyShown, apyError, visit>>
auditVars == <<auditTab, logVars, apyVars>>

NoFilter == [search |-> FALSE, action |-> "all", from |-> 0, to |-> 0]
NoRow == <<"none", 0>>

-----------------------------------------------------------------------------
\* filtered: the local query, over whatever rows are known.
Matches(row, f) ==
    /\ f.search => row.hit
    /\ f.action \in {"all", row.action}
    /\ f.from = 0 \/ row.day >= f.from
    /\ f.to = 0 \/ row.day <= f.to
Filtered == {row \in auditTransactions : Matches(row, auditFilter)}

TotalPages == IF Filtered = {} THEN 1 ELSE (Cardinality(Filtered) + AuditPageSize - 1) \div AuditPageSize
\* paginated: how many rows the page shows.
PageLength ==
    LET rest == Cardinality(Filtered) - (auditPage - 1) * AuditPageSize
    IN IF rest < 0 THEN 0 ELSE IF rest > AuditPageSize THEN AuditPageSize ELSE rest

\* mutant: an answer replaces the entries just signed.
KeptNone(answer) == {}
\* The rows kept when an answer comes: the configuration entries it lacks.
KeptConfigs(answer) ==
    {row \in auditTransactions : row.action = "config" /\ \A a \in answer : a.id # row.id}

-----------------------------------------------------------------------------
AuditInit ==
    /\ auditTab = "config" /\ auditTransactions = SeedRows /\ auditLoading = FALSE
    /\ auditFetches = {} /\ fetchCount = 0 /\ auditFilter = NoFilter /\ auditPage = 1
    /\ expandedRow = NoRow /\ recorded = {}
    /\ apyReads = {} /\ apyLoading = FALSE /\ apyShown = 0 /\ apyError = FALSE /\ visit = 0

\* fetchAuditHistory with the filter of the moment; nothing cancels an
\* earlier read.
FetchAuditHistory(f) ==
    /\ fetchCount < MaxFetches
    /\ fetchCount' = fetchCount + 1 /\ auditLoading' = TRUE
    /\ auditFetches' = auditFetches \cup {[n |-> fetchCount + 1, filter |-> f]}

\* mutant: the cleanup does not cancel a read.
CancelledNot == apyReads
CancelledAll == {}
\* The flag that cancels belongs to one visit.
ReadStarted == {visit + 1}

\* Leaving the rate history cancels what is on its way.
AfterLeaving == IF auditTab = "apy-history" THEN CancelledAll ELSE apyReads

\* The tab bar.  The log is read when its tab opens, the rate history on
\* every visit.
SetTab(t) ==
    /\ t # auditTab /\ auditTab' = t
    /\ IF t = "audit" THEN FetchAuditHistory(auditFilter)
       ELSE UNCHANGED <<fetchCount, auditLoading, auditFetches>>
    /\ IF t = "apy-history"
       THEN /\ visit < MaxVisits /\ visit' = visit + 1
            /\ apyReads' = AfterLeaving \cup ReadStarted
            /\ apyLoading' = TRUE /\ apyError' = FALSE
       ELSE apyReads' = AfterLeaving /\ UNCHANGED <<apyLoading, apyError, visit>>
    /\ UNCHANGED <<auditTransactions, auditFilter, auditPage, expandedRow, recorded, apyShown>>

\* A filter changes: back to the first page, and the log is read again.
SetFilter(f) ==
    /\ auditTab = "audit" /\ f # auditFilter
    /\ auditFilter' = f /\ auditPage' = 1
    /\ FetchAuditHistory(f)
    /\ UNCHANGED <<auditTab, auditTransactions, expandedRow, recorded, apyVars>>

EditSearch == SetFilter([auditFilter EXCEPT !.search = ~@])
EditAction == \E a \in {"all", "deposit", "config"} : SetFilter([auditFilter EXCEPT !.action = a])
EditDates == \E d \in 0..2 : SetFilter([auditFilter EXCEPT !.from = d]) \/ SetFilter([auditFilter EXCEPT !.to = d])
ClearFilters == auditFilter # NoFilter /\ SetFilter(NoFilter)

\* The Sync button.
Sync ==
    /\ auditTab = "audit" /\ ~auditLoading
    /\ FetchAuditHistory(auditFilter)
    /\ UNCHANGED <<auditTab, auditTransactions, auditFilter, auditPage, expandedRow, recorded, apyVars>>

\* An answer comes, in any order; an empty one leaves the rows alone.
AuditAnswered(r) ==
    LET answer == {row \in ServerRows : Matches(row, r.filter)}
    IN /\ auditTransactions' = IF answer = {} THEN auditTransactions ELSE KeptConfigs(answer) \cup answer
       /\ auditLoading' = FALSE /\ auditFetches' = auditFetches \ {r}
       /\ UNCHANGED <<auditTab, fetchCount, auditFilter, auditPage, expandedRow, recorded, apyVars>>

AuditFailed(r) ==
    /\ auditLoading' = FALSE /\ auditFetches' = auditFetches \ {r}
    /\ UNCHANGED <<auditTab, auditTransactions, fetchCount, auditFilter, auditPage, expandedRow, recorded, apyVars>>

\* A change of the vault's parameters was signed: its entry is put in front.
\* It contains the text searched for, being the newest thing there is.
RecordConfig ==
    LET id == <<"cfg", Cardinality(recorded)>>
    IN /\ Cardinality(recorded) < MaxChanges
       /\ recorded' = recorded \cup {id}
       /\ auditTransactions' = auditTransactions \cup {[id |-> id, action |-> "config", day |-> 2, hit |-> TRUE]}
       /\ UNCHANGED <<auditTab, auditLoading, auditFetches, fetchCount, auditFilter, auditPage, expandedRow, apyVars>>

\* A header: the order changes and the first page is shown.
ToggleSort ==
    /\ auditTab = "audit" /\ auditPage' = 1
    /\ UNCHANGED <<auditTab, auditTransactions, auditLoading, auditFetches, fetchCount, auditFilter, expandedRow,
                   recorded, apyVars>>

\* A row of the page opens, or closes again.
ExpandRow ==
    /\ auditTab = "audit" /\ PageLength > 0
    /\ \E row \in Filtered : expandedRow' = IF expandedRow = row.id THEN NoRow ELSE row.id
    /\ UNCHANGED <<auditTab, auditTransactions, auditLoading, auditFetches, fetchCount, auditFilter, auditPage,
                   recorded, apyVars>>

\* The page buttons, shown when there is more than one page.
SetPage ==
    /\ auditTab = "audit" /\ TotalPages > 1
    /\ \/ auditPage # 1 /\ auditPage' = auditPage - 1
       \/ \E n \in 1..TotalPages : auditPage' = n
       \/ auditPage # TotalPages /\ auditPage' = IF auditPage < TotalPages THEN auditPage + 1 ELSE TotalPages
    /\ UNCHANGED <<auditTab, auditTransactions, auditLoading, auditFetches, fetchCount, auditFilter, expandedRow,
                   recorded, apyVars>>

\* A read of the rate history that was not cancelled ends.
ApyEnds(v) ==
    /\ v \in apyReads /\ apyReads' = apyReads \ {v} /\ apyLoading' = FALSE
    /\ \/ apyShown' = v /\ UNCHANGED apyError
       \/ apyError' = TRUE /\ UNCHANGED apyShown
    /\ UNCHANGED <<auditTab, logVars, visit>>

AuditNext ==
    \/ \E t \in {"config", "audit", "apy-history"} : SetTab(t)
    \/ EditSearch \/ EditAction \/ EditDates \/ ClearFilters \/ Sync
    \/ \E r \in auditFetches : AuditAnswered(r)
    \/ \E r \in auditFetches : AuditFailed(r)
    \/ RecordConfig \/ ToggleSort \/ ExpandRow \/ SetPage
    \/ \E v \in apyReads : ApyEnds(v)

AuditTypeOK ==
    /\ auditTab \in {"config", "audit", "apy-history"} /\ auditLoading \in BOOLEAN
    /\ \A row \in auditTransactions : row.hit \in BOOLEAN /\ row.day \in Nat
    /\ fetchCount \in 0..MaxFetches /\ \A r \in auditFetches : r.n \in 1..fetchCount
    /\ auditPage \in Nat \ {0}
    /\ apyReads \subseteq 1..visit /\ visit \in 0..MaxVisits /\ apyShown \in 0..visit
    /\ apyLoading \in BOOLEAN /\ apyError \in BOOLEAN

\* A change signed on this page stays in the log whatever the backend, which
\* does not know it yet, answers afterwards and in whatever order.
SignedChangesListed == \A id \in recorded : \E row \in auditTransactions : row.id = id

\* The rate history shown, or its error, is that of the present visit as soon
\* as loading ends: an answer to an earlier visit is never taken for it.
ApyIsCurrent == auditTab = "apy-history" /\ ~apyLoading => (apyShown = visit \/ apyError)

\* The table says "No transactions match your filters" only when none does.
EmptyMeansNoMatch == auditTab = "audit" /\ PageLength = 0 => Filtered = {}
=============================================================================
