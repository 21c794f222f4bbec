--------------------------- MODULE DashboardBrowse ---------------------------
(***************************************************************************)
(* Finding payments in the dashboard: the search bar with its delayed      *)
(* calls and suggestions, the transactions page with its filters, pages    *)
(* and exports, and the payment dialog that the page's address opens.  The *)
(* address of the page, which the router changes some time after it was    *)
(* asked to, ties them together.                                           *)
(*                                                                         *)
(* A text typed is empty, too short to search for, or a user's name.       *)
(***************************************************************************)
EXTENDS Integers, FiniteSets

CONSTANTS
    Users,
    FeedRows,       \* [id, hits]: a row and the names that match it
    FeedPageSizes,  \* PAGE_SIZE_OPTIONS
    OverlapSearch,  \* may one type while a search is under way?
    NoUser, Short   \* no text or user; a text of one letter

ASSUME TextsDiffer == NoUser \notin Users /\ Short \notin Users /\ NoUser # Short

VARIABLES
    url,            \* user and q of the page's address
    navigation,     \* the address the router is going to, or the present one
    barQuery, barTimer, barCalls, barResults, barOpen, barLoading,   \* the search bar
    search,         \* the page's own filter
    feedPage, feedPageSize, feed,
    selectedUser,
    dialogLoading, dialogError, dialogPayments, dialogCalls,
    chosen          \* history: the suggestion chosen last, until its dialog is closed

barVars == <<barQuery, barTimer, barCalls, barResults, barOpen, barLoading>>
tableVars == <<search, feedPage, feedPageSize, feed>>
dialogVars == <<dialogLoading, dialogError, dialogPayments, dialogCalls>>
browseVars == <<url, navigation, barVars, tableVars, selectedUser, dialogVars, chosen>>

Texts == Users \cup {NoUser, Short}

-----------------------------------------------------------------------------
\* filterTransactionRows.
FilterRows(rows, query) == IF query = NoUser THEN rows ELSE {r \in rows : query \in r.hits}
ActiveQuery(s, address) == IF s # NoUser THEN s ELSE address.q
FilteredFeed == FilterRows(feed, ActiveQuery(search, url))

\* PaginationFooter: pages are counted from zero.
FeedPages == IF FilteredFeed = {} THEN 1 ELSE (Cardinality(FilteredFeed) + feedPageSize - 1) \div feedPageSize
FooterRange ==
    LET total == Cardinality(FilteredFeed)
    IN << IF total = 0 THEN 0 ELSE feedPage * feedPageSize + 1,
          IF (feedPage + 1) * feedPageSize < total THEN (feedPage + 1) * feedPageSize ELSE total >>

-----------------------------------------------------------------------------
BrowseInit ==
    /\ url = [user |-> NoUser, q |-> NoUser] /\ navigation = url
    /\ barQuery = NoUser /\ barTimer = NoUser /\ barCalls = {} /\ barResults = NoUser
    /\ barOpen = FALSE /\ barLoading = FALSE
    /\ search = NoUser /\ feedPage = 0 /\ feedPageSize \in FeedPageSizes /\ feed = {}
    /\ selectedUser = NoUser
    /\ dialogLoading = FALSE /\ dialogError = FALSE /\ dialogPayments = NoUser /\ dialogCalls = {}
    /\ chosen = NoUser

\* syncQueryToUrl and handleDialogClose start from the address they see.
SyncQueryToUrl(text) == navigation' = [url EXCEPT !.q = text]

\* The router takes milliseconds: inputs before it arrives are left out.
Settled == navigation = url

\* mutant: suggestions outlive their text.
ResultsStay(text) == barResults
\* Too short a text clears the suggestions.
ResultsAfter(text) == IF text \in Users THEN barResults ELSE NoUser

\* Typing: the delay starts over, and nothing stops a call that is out.
Type(text) ==
    /\ Settled /\ text # barQuery
    /\ OverlapSearch \/ barCalls = {}
    /\ barQuery' = text /\ SyncQueryToUrl(text)
    /\ barTimer' = (IF text \in Users THEN text ELSE NoUser)
    /\ barResults' = ResultsAfter(text) /\ barOpen' = (text \in Users /\ barOpen)
    /\ UNCHANGED <<url, barCalls, barLoading, tableVars, selectedUser, dialogVars, chosen>>

\* 300 ms without typing: the users are searched.
DebounceEnds ==
    /\ barTimer # NoUser
    /\ barTimer' = NoUser /\ barCalls' = barCalls \cup {barTimer} /\ barLoading' = TRUE
    /\ UNCHANGED <<url, navigation, barQuery, barResults, barOpen, tableVars, selectedUser, dialogVars, chosen>>

\* A search ends with matches, with none or with an error.
SearchEnds(text) ==
    /\ text \in barCalls /\ barCalls' = barCalls \ {text} /\ barLoading' = FALSE
    /\ \/ barResults' = text /\ barOpen' = TRUE
       \/ barResults' = NoUser /\ barOpen' = FALSE
       \/ barResults' = NoUser /\ UNCHANGED barOpen
    /\ UNCHANGED <<url, navigation, barQuery, barTimer, tableVars, selectedUser, dialogVars, chosen>>

\* onFocus, and onBlur after its delay.
FocusBar ==
    /\ barResults # NoUser \/ barOpen
    /\ barOpen' = ~barOpen
    /\ UNCHANGED <<url, navigation, barQuery, barTimer, barCalls, barResults, barLoading, tableVars,
                   selectedUser, dialogVars, chosen>>

\* handleSelect: a suggestion is pressed and the router is sent to its page.
HandleSelect ==
    /\ barOpen /\ barResults # NoUser /\ Settled
    /\ barQuery' = NoUser /\ barOpen' = FALSE
    /\ navigation' = [user |-> barResults, q |-> NoUser] /\ chosen' = barResults
    /\ UNCHANGED <<url, barTimer, barCalls, barResults, barLoading, tableVars, selectedUser, dialogVars>>

\* mutant: the cleanup does not cancel the read.
CancelsNone(u) == dialogCalls
\* A user's dialog opens and reads that user's payments; the read for another
\* user is cancelled.
CancelsOthers(u) == {}
OpenDialog(u) ==
    /\ selectedUser' = u
    /\ IF u = selectedUser THEN UNCHANGED dialogVars
       ELSE /\ dialogLoading' = TRUE /\ dialogCalls' = CancelsOthers(u) \cup {u}
            /\ UNCHANGED dialogPayments
            /\ dialogError' = (selectedUser # NoUser /\ dialogError)

\* The router has arrived.  The effects of the page run for what changed: a
\* user in the address opens the dialog, another query shows the first page.
Arrive ==
    /\ navigation # url /\ url' = navigation
    /\ IF navigation.user # url.user /\ navigation.user # NoUser
       THEN OpenDialog(navigation.user)
       ELSE UNCHANGED <<selectedUser, dialogVars>>
    /\ feedPage' = IF ActiveQuery(search, navigation) # ActiveQuery(search, url) THEN 0 ELSE feedPage
    /\ UNCHANGED <<navigation, barVars, search, feedPageSize, feed, chosen>>

\* handleRowClick.
RowClick ==
    /\ selectedUser = NoUser /\ FilteredFeed # {}
    /\ \E u \in Users : OpenDialog(u)
    /\ UNCHANGED <<url, navigation, barVars, tableVars, chosen>>

\* mutant: closing leaves the user in the address.
UserKept(address) == address
UserCleared(address) == [address EXCEPT !.user = NoUser]

\* handleDialogClose: by the button, Escape or a click beside the dialog.
\* Unmounting cancels its read.
DialogClose ==
    /\ selectedUser # NoUser /\ Settled
    /\ selectedUser' = NoUser /\ navigation' = UserCleared(url)
    /\ dialogCalls' = {} /\ dialogLoading' = FALSE /\ dialogError' = FALSE /\ dialogPayments' = NoUser
    /\ chosen' = NoUser
    /\ UNCHANGED <<url, barVars, tableVars>>

PaymentsRead(u) ==
    /\ u \in dialogCalls /\ dialogCalls' = dialogCalls \ {u} /\ dialogLoading' = FALSE
    /\ \/ dialogPayments' = u /\ UNCHANGED dialogError
       \/ dialogError' = TRUE /\ UNCHANGED dialogPayments
    /\ UNCHANGED <<url, navigation, barVars, tableVars, selectedUser, chosen>>

\* What the dialog shows.
DialogView ==
    IF selectedUser = NoUser THEN "closed"
    ELSE IF dialogLoading THEN "loading" ELSE IF dialogError THEN "error" ELSE "payments"

\* The feed is polled or refreshed.
FeedPolled ==
    /\ \E rows \in {FeedRows, {}} : feed' = rows
    /\ UNCHANGED <<url, navigation, barVars, search, feedPage, feedPageSize, selectedUser, dialogVars, chosen>>

\* The page's own filter.
EditFilter ==
    /\ selectedUser = NoUser
    /\ \E text \in Texts \ {search} : search' = text
    /\ feedPage' = 0
    /\ UNCHANGED <<url, navigation, barVars, feedPageSize, feed, selectedUser, dialogVars, chosen>>

\* The footer is shown when there is more than one page.
TurnPage ==
    /\ selectedUser = NoUser /\ FeedPages > 1
    /\ \/ feedPage # 0 /\ feedPage' = feedPage - 1 /\ UNCHANGED feedPageSize
       \/ feedPage < FeedPages - 1 /\ feedPage' = feedPage + 1 /\ UNCHANGED feedPageSize
       \/ \E size \in FeedPageSizes : feedPageSize' = size /\ feedPage' = 0
    /\ UNCHANGED <<url, navigation, barVars, search, feed, selectedUser, dialogVars, chosen>>

BrowseNext ==
    \/ \E text \in Texts : Type(text)
    \/ DebounceEnds
    \/ \E text \in barCalls : SearchEnds(text)
    \/ FocusBar \/ HandleSelect \/ Arrive \/ RowClick \/ DialogClose
    \/ \E u \in dialogCalls : PaymentsRead(u)
    \/ FeedPolled \/ EditFilter \/ TurnPage

BrowseTypeOK ==
    /\ url \in [user : Users \cup {NoUser}, q : Texts] /\ navigation \in [user : Users \cup {NoUser}, q : Texts]
    /\ barQuery \in Texts /\ barTimer \in Users \cup {NoUser} /\ barCalls \subseteq Users
    /\ barResults \in Users \cup {NoUser} /\ barOpen \in BOOLEAN /\ barLoading \in BOOLEAN
    /\ search \in Texts /\ feedPage \in Nat /\ feedPageSize \in FeedPageSizes /\ feed \subseteq FeedRows
    /\ selectedUser \in Users \cup {NoUser} /\ chosen \in Users \cup {NoUser}
    /\ dialogLoading \in BOOLEAN /\ dialogError \in BOOLEAN
    /\ dialogPayments \in Users \cup {NoUser} /\ dialogCalls \subseteq Users

\* The payments a dialog lists are those of the user it names, although it
\* may be turned to another user while a read is out.
DialogShowsItsUser == DialogView = "payments" => dialogPayments = selectedUser

\* A suggestion was chosen and its dialog is not open yet: it opens, also when
\* the page showed it before, unless the admin closes or changes it first.
Opening == chosen # NoUser /\ selectedUser # chosen

\* Once typing and searching have ended, the suggestions offered are matches
\* of the text in the bar, for a user who waits for a search before he types on
\* (OverlapSearch = FALSE); otherwise the answer that comes last is shown
\* (SearchBar.tsx:83-94), and the property is violated.
SuggestionsMatch == barOpen /\ barResults # NoUser /\ barCalls = {} /\ barTimer = NoUser => barQuery \in {barResults, NoUser}
=============================================================================
