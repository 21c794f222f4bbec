---------------------------- MODULE MobileHistory ----------------------------
(***************************************************************************)
(* The history screen of the mobile app: the pages useTransactions reads,  *)
(* the search field with its debounce, the filter chips and sheet, the     *)
(* speed-up of a stuck payment, and the receipt screen.                    *)
(*                                                                         *)
(* Transactions are numbered newest first.  A filter is a selection, all   *)
(* or some of them, and a text, none or one that some of them contain.     *)
(* With OverlapLoads the user does not wait for a reading to end.          *)
(***************************************************************************)
EXTENDS Naturals, Sequences, FiniteSets

CONSTANTS
    Count,          \* transactions the backend has
    Selected, Found,        \* those a selection and a text let through
    PageSize,       \* PAGE_SIZE
    OverlapLoads,
    MaxLoadings     \* bound: readings
ASSUME HistoryConstants ==
    /\ Count \in Nat /\ PageSize \in Nat \ {0} /\ Selected \cup Found \subseteq 1..Count /\ OverlapLoads \in BOOLEAN

VARIABLES
    items, cursor, hasMore,     \* cursor 0 is null
    filters, activeFilters,     \* as shown, and activeFiltersRef
    loading, pulling, loadingMore, historyError,
    loads,          \* fetchTransactions on the wire
    loadings,       \* bound
    searchText, historyTimer,    \* {}, or the filters the timer will apply
    sheetOpen, draft
historyVars == <<items, cursor, hasMore, filters, activeFilters, loading, pulling, loadingMore, historyError, loads,
                 loadings, searchText, historyTimer, sheetOpen, draft>>
listVars == <<items, cursor, hasMore, activeFilters, loading, pulling, loadingMore, historyError, loads, loadings>>
filterVars == <<searchText, historyTimer, sheetOpen, draft>>

VARIABLES speedingUp, bumps, aged       \* the row that spins, fee bumps on the wire, rows older than a minute
speedVars == <<speedingUp, bumps, aged>>

VARIABLES receipt, sharing      \* the receipt screen: loading, missing or shown
receiptVars == <<receipt, sharing>>

Filters == [sel : {"all", "some"}, text : {"none", "some"}]
DefaultFilters == [sel |-> "all", text |-> "none"]

-----------------------------------------------------------------------------
(* fetchTransactions. *)

\* MOCK_TRANSACTIONS, sorted newest first.
AllTransactions == [i \in 1..Count |-> i]

\* The members of a list that are in a set, in their order.
Filter(list, S) ==
    LET kept[i \in 0..Len(list)] ==
          IF i = 0 THEN <<>> ELSE IF list[i] \in S THEN Append(kept[i - 1], list[i]) ELSE kept[i - 1]
    IN  kept[Len(list)]

\* The predicates, and the order newest first.
LetThrough(f) == {i \in 1..Count : (f.sel = "some" => i \in Selected) /\ (f.text = "some" => i \in Found)}
Filtered(f) == Filter(AllTransactions, LetThrough(f))
PageEnd(start, n) == IF start + PageSize < n THEN start + PageSize ELSE n
\* The page after a cursor, and the cursor of the next page.  A cursor that is
\* not in the list starts again at the top.
Page(f, c) ==
    LET all == Filtered(f)
        at == {i \in DOMAIN all : all[i] = c}
        start == IF at = {} THEN 0 ELSE CHOOSE i \in at : TRUE
        end == PageEnd(start, Len(all))
    IN [items |-> SubSeq(all, start + 1, end),
        next |-> IF start + PageSize < Len(all) THEN all[end] ELSE 0]

-----------------------------------------------------------------------------
(* useTransactions. *)

Call(kind, f, c) == [n |-> loadings, kind |-> kind, of |-> f, from |-> c]
Began == loadings < MaxLoadings /\ loadings' = loadings + 1

\* reload, with filters f.
Reload(f) ==
    /\ Began /\ activeFilters' = f /\ cursor' = 0 /\ hasMore' = TRUE /\ loading' = TRUE
    /\ loads' = loads \cup {Call("reload", f, 0)}
    /\ UNCHANGED <<items, pulling, loadingMore, historyError>>
ApplyFilters(f) == filters' = f /\ Reload(f)

HistoryInit ==
    /\ items = <<>> /\ cursor = 0 /\ hasMore = TRUE /\ filters = DefaultFilters /\ activeFilters = DefaultFilters
    /\ loading = TRUE /\ pulling = FALSE /\ loadingMore = FALSE /\ historyError = FALSE
    /\ loads = {[n |-> 0, kind |-> "reload", of |-> DefaultFilters, from |-> 0]} /\ loadings = 1
    /\ searchText = "none" /\ historyTimer = {} /\ sheetOpen = FALSE /\ draft = DefaultFilters

Waited == OverlapLoads \/ (loads = {} /\ historyTimer = {})
ListShown == ~loading /\ ~historyError

\* refresh.
Refresh ==
    /\ Waited /\ ListShown /\ ~pulling /\ Began /\ pulling' = TRUE /\ cursor' = 0 /\ hasMore' = TRUE
    /\ loads' = loads \cup {Call("refresh", activeFilters, 0)}
    /\ UNCHANGED <<items, filters, activeFilters, loading, loadingMore, historyError, filterVars>>

\* loadMore: the list may ask twice before the flag is rendered, also when
\* the user waits for everything else.
LoadMore ==
    /\ ListShown /\ (OverlapLoads \/ (historyTimer = {} /\ \A l \in loads : l.kind = "more"))
    /\ hasMore /\ cursor # 0 /\ Began /\ loadingMore' = TRUE
    /\ loads' = loads \cup {Call("more", activeFilters, cursor)}
    /\ UNCHANGED <<items, cursor, hasMore, filters, activeFilters, loading, pulling, historyError, filterVars>>

\* mutant: a page is appended without a look at the list.
AppendedAll(prev, more) == prev \o more
\* A transaction the list has already is not appended again.
Appended(prev, more) == prev \o Filter(more, 1..Count \ {prev[i] : i \in DOMAIN prev})

\* The flag of the reading that ended.
FlagsAfter(l) ==
    /\ loading' = (loading /\ l.kind # "reload")
    /\ pulling' = (pulling /\ l.kind # "refresh")
    /\ loadingMore' = (loadingMore /\ l.kind # "more")
LoadAnswered(l) ==
    LET page == Page(l.of, l.from)
    IN /\ loads' = loads \ {l} /\ FlagsAfter(l)
       /\ cursor' = page.next /\ hasMore' = (page.next # 0) /\ historyError' = FALSE
       /\ items' = IF l.kind = "more" THEN Appended(items, page.items) ELSE page.items
       /\ UNCHANGED <<filters, activeFilters, loadings, filterVars>>
LoadFails(l) ==
    /\ loads' = loads \ {l} /\ FlagsAfter(l) /\ historyError' = TRUE
    /\ UNCHANGED <<items, cursor, hasMore, filters, activeFilters, loadings, filterVars>>
RetryHistory ==
    /\ Waited /\ historyError /\ ~loading /\ Reload(activeFilters)
    /\ UNCHANGED <<filters, filterVars>>

-----------------------------------------------------------------------------
(* The search field and the filters. *)

\* handleSearch: the timer will apply the filters of this render.
HandleSearch ==
    /\ Waited /\ loadings < MaxLoadings
    /\ \E t \in {"none", "some"} : searchText' = t /\ historyTimer' = {[filters EXCEPT !.text = t]}
    /\ UNCHANGED <<listVars, filters, sheetOpen, draft>>
\* Whatever changes the filters renews the draft of an open sheet.
Synced(f) == draft' = IF sheetOpen THEN f ELSE draft
SearchFires ==
    /\ \E f \in historyTimer : ApplyFilters(f) /\ Synced(f)
    /\ historyTimer' = {}
    /\ UNCHANGED <<searchText, sheetOpen>>
\* The chips under the field: yield, mass payouts, assets and dates.
QuickFilter ==
    /\ Waited /\ ~sheetOpen
    /\ \E s \in {"all", "some"} : ApplyFilters([sel |-> s, text |-> searchText])
    /\ UNCHANGED filterVars
OpenSheet ==
    /\ ~sheetOpen /\ sheetOpen' = TRUE /\ draft' = filters
    /\ UNCHANGED <<listVars, filters, searchText, historyTimer>>
EditDraft ==
    /\ sheetOpen /\ \E s \in {"all", "some"} : draft' = [draft EXCEPT !.sel = s]
    /\ UNCHANGED <<listVars, filters, searchText, historyTimer, sheetOpen>>
ResetDraft ==
    /\ sheetOpen /\ draft' = DefaultFilters
    /\ UNCHANGED <<listVars, filters, searchText, historyTimer, sheetOpen>>
CloseSheet ==
    /\ sheetOpen /\ sheetOpen' = FALSE
    /\ UNCHANGED <<listVars, filters, searchText, historyTimer, draft>>
\* handleApplyFilters keeps the text of the field.
ApplyDraft ==
    /\ Waited /\ sheetOpen /\ sheetOpen' = FALSE
    /\ ApplyFilters([draft EXCEPT !.text = searchText])
    /\ UNCHANGED <<searchText, historyTimer, draft>>

HistoryNext ==
    \/ Refresh \/ LoadMore \/ RetryHistory
    \/ \E l \in loads : LoadAnswered(l) \/ LoadFails(l)
    \/ HandleSearch \/ SearchFires \/ QuickFilter
    \/ OpenSheet \/ EditDraft \/ ResetDraft \/ CloseSheet \/ ApplyDraft

-----------------------------------------------------------------------------
(* Speeding up a stuck payment. *)

SpeedInit == speedingUp = 0 /\ bumps = {} /\ aged = {}
RowAges == \E i \in Selected \ aged : aged' = aged \cup {i} /\ UNCHANGED <<speedingUp, bumps>>
\* canSpeedUp: pending for longer than a minute, with its envelope.
CanSpeedUp(i) == i \in aged
\* The button of a row, disabled while that row spins.
SpeedUpShown(i) == CanSpeedUp(i) /\ speedingUp # i
HandleSpeedUp(i) ==
    /\ SpeedUpShown(i) /\ i \notin {b.of : b \in bumps} /\ speedingUp' = i
    /\ bumps' = bumps \cup {[of |-> i, at |-> "wallet"]} /\ UNCHANGED aged
\* resolveWalletSource and the fee payer, the bump and its signature, the network.
SpeedUpStep(b) ==
    /\ b.at # "network"
    /\ bumps' = (bumps \ {b}) \cup {[b EXCEPT !.at = IF @ = "wallet" THEN "sign" ELSE "network"]}
    /\ UNCHANGED <<speedingUp, aged>>
\* mutant: the row keeps spinning.
NeverStops(i) == i
StopsSpinning(i) == 0
\* Submitted, or any step has thrown.
SpeedUpEnds(b) ==
    /\ bumps' = bumps \ {b} /\ speedingUp' = StopsSpinning(speedingUp)
    /\ aged' \in (IF b.at = "network" THEN {aged, aged \ {b.of}} ELSE {aged})
SpeedNext ==
    \/ RowAges \/ \E i \in 1..Count : HandleSpeedUp(i)
    \/ \E b \in bumps : SpeedUpStep(b) \/ SpeedUpEnds(b)

-----------------------------------------------------------------------------
(* The receipt of a transaction. *)

ReceiptInit == receipt = "loading" /\ sharing = FALSE
\* fetchTransactionById: the cache, then the list.
ReceiptRead == receipt = "loading" /\ receipt' \in {"missing", "shown"} /\ UNCHANGED sharing
HandleShare == receipt = "shown" /\ ~sharing /\ sharing' = TRUE /\ UNCHANGED receipt
ShareEnds == sharing /\ sharing' = FALSE /\ UNCHANGED receipt
ReceiptNext == ReceiptRead \/ HandleShare \/ ShareEnds

-----------------------------------------------------------------------------
HistoryTypeOK ==
    /\ items \in Seq(1..Count) /\ cursor \in 0..Count /\ hasMore \in BOOLEAN
    /\ filters \in Filters /\ activeFilters \in Filters /\ draft \in Filters /\ historyTimer \subseteq Filters
    /\ loading \in BOOLEAN /\ pulling \in BOOLEAN /\ loadingMore \in BOOLEAN /\ historyError \in BOOLEAN
    /\ speedingUp \in 0..Count /\ receipt \in {"loading", "missing", "shown"}

\* Once a page has been read the list is the beginning of what the filters let
\* through: each transaction once and none left out, although the list asks
\* for the same page twice and an old page moves the cursor back.
ListIsPrefix ==
    ~loading /\ ~historyError /\ historyTimer = {} =>
        items = SubSeq(Filtered(filters), 1, Len(items))
=============================================================================
