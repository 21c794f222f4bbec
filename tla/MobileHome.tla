----------------------------- MODULE MobileHome -----------------------------
(***************************************************************************)
(* The home screen of the mobile app: the balances and the yield of the    *)
(* account, read with a timeout; the earnings sheet; the switch for        *)
(* automatic deposits, which is set before the backend has agreed; and the *)
(* feed with its cache, its likes and the drawer of comments.              *)
(*                                                                         *)
(* The yield (yieldHomeVars) and the feed (feedHomeVars) meet in a pull:   *)
(* the feed is read first and the yield after it.  The denomination and    *)
(* the mask of the balance (cardVars) touch neither.                       *)
(***************************************************************************)
EXTENDS Naturals, FiniteSets

CONSTANTS
    Payments,       \* payments of the feed
    FriendPayments, PrivatePayments,    \* those shown to friends, and to nobody
    NoPayment,
    MaxLoads,       \* bound: reads of the yield
    MaxPosts        \* bound: likes and comments
ASSUME FeedIsSorted ==
    /\ FriendPayments \cup PrivatePayments \subseteq Payments /\ NoPayment \notin Payments
    /\ MaxLoads \in Nat \ {0} /\ MaxPosts \in Nat

VARIABLES
    yieldRequest,   \* yieldRequestRef
    yieldCalls,     \* fetches on the wire: their request, and whether it still waits for them
    yieldStatus, yieldOf,       \* yieldOf: the request yieldData is of, which the sheet shows
    balanceOf,      \* the request whose figures the card shows
    autoYield, autoSyncing, autoCalls,
    sheet,          \* the earnings sheet: closed, open or closing
    tooltip,        \* the description of automatic deposits
    refreshing,     \* none, feed or yield: what a pull waits for
    currency, currencyRead,     \* the saved denomination is yet to be read
    masked

yieldHomeVars == <<yieldRequest, yieldCalls, yieldStatus, yieldOf, balanceOf, autoYield, autoSyncing, autoCalls,
                   sheet, tooltip, refreshing>>
loadVars == <<yieldRequest, yieldCalls, yieldStatus, yieldOf, balanceOf>>
autoVars == <<autoYield, autoSyncing, autoCalls>>
sheetVars == <<sheet, tooltip>>
cardVars == <<currency, currencyRead, masked>>

VARIABLES
    feedFrom,       \* initial, cache or fresh
    feedCache,      \* the stored feed: none, or fresh
    mountRead,      \* the first reading: cache, fetch or done
    tab, liked, counts,
    likeCalls,      \* likes on the wire, with the state to go back to
    drawer,         \* commentsModalVisible
    selected, comments, commentCalls,
    posts           \* bound, and the time stamp of a comment
feedHomeVars == <<feedFrom, feedCache, mountRead, tab, liked, counts, likeCalls, drawer, selected, comments,
                  commentCalls, posts>>

-----------------------------------------------------------------------------
YieldHomeInit ==
    /\ yieldRequest = 1 /\ yieldCalls = {[id |-> 1, waits |-> TRUE]}
    /\ yieldStatus = "loading" /\ yieldOf = 0 /\ balanceOf = 0
    /\ autoYield = TRUE /\ autoSyncing = FALSE /\ autoCalls = {}
    /\ sheet = "closed" /\ tooltip = FALSE /\ refreshing = "none"
CardInit == currency = "NGN" /\ currencyRead = TRUE /\ masked = TRUE

\* mutant: an overtaken answer is taken.
AnyRequest(id) == TRUE
\* requestId = yieldRequestRef.current: a later request has not taken over.
IsLatest(id) == id = yieldRequest

\* loadYieldData up to its await.
LoadYieldData ==
    /\ yieldRequest < MaxLoads /\ yieldRequest' = yieldRequest + 1
    /\ yieldCalls' = yieldCalls \cup {[id |-> yieldRequest + 1, waits |-> TRUE]}
    /\ yieldStatus' = "loading"

\* What loadYieldData does when the race it waits for has ended well or not.
Settle(id, good) ==
    IF IsLatest(id)
    THEN /\ yieldStatus' = IF good THEN "success" ELSE "error"
         /\ yieldOf' = IF good THEN id ELSE yieldOf
    ELSE UNCHANGED <<yieldStatus, yieldOf>>
\* onPullRefresh goes on once its own request has settled.
Refreshed(id) == refreshing' = IF refreshing = "yield" /\ IsLatest(id) THEN "none" ELSE refreshing

\* fetchYieldSnapshot writes the balance and the switch as soon as its answer
\* is there, whether anyone still waits for it or not.
YieldAnswered(c) ==
    /\ yieldCalls' = yieldCalls \ {c} /\ balanceOf' = c.id /\ autoYield' \in BOOLEAN
    /\ IF c.waits THEN Settle(c.id, TRUE) /\ Refreshed(c.id) ELSE UNCHANGED <<yieldStatus, yieldOf, refreshing>>
    /\ UNCHANGED <<yieldRequest, autoSyncing, autoCalls, sheetVars>>
YieldFails(c) ==
    /\ yieldCalls' = yieldCalls \ {c}
    /\ IF c.waits THEN Settle(c.id, FALSE) /\ Refreshed(c.id) ELSE UNCHANGED <<yieldStatus, yieldOf, refreshing>>
    /\ UNCHANGED <<yieldRequest, balanceOf, autoVars, sheetVars>>

\* mutant: a request waits for ever.
NoTimeout(c) == FALSE
\* withTimeout: the timer wins the race; the fetch goes on.
WithTimeout(c) == c.waits
YieldTimesOut(c) ==
    /\ WithTimeout(c) /\ yieldCalls' = (yieldCalls \ {c}) \cup {[c EXCEPT !.waits = FALSE]}
    /\ Settle(c.id, FALSE) /\ Refreshed(c.id)
    /\ UNCHANGED <<yieldRequest, balanceOf, autoVars, sheetVars>>

\* The buttons of the card and of the sheet.
RetryShown == yieldStatus = "error"
SheetRetryShown == yieldStatus = "error" /\ sheet # "closed"
HandleYieldRetry ==
    /\ RetryShown \/ SheetRetryShown
    /\ refreshing = "feed" => yieldRequest + 1 < MaxLoads
    /\ LoadYieldData /\ UNCHANGED <<yieldOf, balanceOf, autoVars, sheetVars, refreshing>>

\* onPullRefresh: the feed, then the yield.
OnPullRefresh ==
    /\ refreshing = "none" /\ refreshing' = "feed" /\ yieldRequest < MaxLoads
    /\ UNCHANGED <<loadVars, autoVars, sheetVars>>
PulledFeedRead ==
    /\ refreshing = "feed" /\ refreshing' = "yield"
    /\ LoadYieldData /\ UNCHANGED <<yieldOf, balanceOf, autoVars, sheetVars>>

-----------------------------------------------------------------------------
(* The switch for automatic deposits, in three places. *)

CardSwitch == ~autoSyncing
\* The switch of the sheet is not disabled while the other one is saved.
SheetSwitch == sheet # "closed" /\ yieldStatus = "success"
TooltipButton == tooltip /\ ~autoSyncing

HandleAutoYieldToggle ==
    /\ CardSwitch \/ SheetSwitch \/ TooltipButton
    /\ autoYield' = ~autoYield /\ autoSyncing' = TRUE
    /\ Cardinality(autoCalls) < 2
    /\ autoCalls' = autoCalls \cup {[n |-> IF \E c \in autoCalls : c.n = 1 THEN 2 ELSE 1, was |-> autoYield]}
    /\ tooltip' \in {tooltip, FALSE}
    /\ UNCHANGED <<loadVars, sheet, refreshing>>
AutoEarnSaved(c) ==
    /\ autoCalls' = autoCalls \ {c} /\ autoSyncing' = FALSE /\ autoYield' \in {autoYield, c.was}
    /\ UNCHANGED <<loadVars, sheetVars, refreshing>>

\* The glow of the card.
Glows == autoYield /\ yieldStatus = "success"

-----------------------------------------------------------------------------
(* The sheet, the card and its preferences. *)

OpenEarningsModal ==
    /\ sheet = "closed" /\ sheet' = "open"
    /\ UNCHANGED <<loadVars, autoVars, tooltip, refreshing>>
\* It is gone when the animation has finished.
CloseEarningsModal ==
    /\ sheet # "closed" /\ sheet' = IF sheet = "open" THEN "closing" ELSE "closed"
    /\ UNCHANGED <<loadVars, autoVars, tooltip, refreshing>>
OpenAutoEarnDesc ==
    /\ tooltip' = ~tooltip
    /\ UNCHANGED <<loadVars, autoVars, sheet, refreshing>>

ToggleBalanceMask == masked' = ~masked /\ UNCHANGED <<currency, currencyRead>>
ToggleCurrency ==
    /\ currency' = IF currency = "NGN" THEN "XLM" ELSE "NGN"
    /\ UNCHANGED <<currencyRead, masked>>
\* The preference of an earlier run is there.
RestoreCurrency ==
    /\ currencyRead /\ currencyRead' = FALSE /\ currency' \in {currency, "NGN", "XLM"}
    /\ UNCHANGED masked
CardNext == ToggleBalanceMask \/ ToggleCurrency \/ RestoreCurrency

YieldHomeNext ==
    \/ \E c \in yieldCalls : YieldAnswered(c) \/ YieldFails(c) \/ YieldTimesOut(c)
    \/ HandleYieldRetry \/ OnPullRefresh \/ PulledFeedRead
    \/ HandleAutoYieldToggle \/ \E c \in autoCalls : AutoEarnSaved(c)
    \/ OpenEarningsModal \/ CloseEarningsModal \/ OpenAutoEarnDesc

-----------------------------------------------------------------------------
(* The feed. *)

FeedHomeInit ==
    /\ feedFrom = "initial" /\ feedCache \in {"none", "fresh"} /\ mountRead = "cache" /\ tab = "public"
    /\ liked = [p \in Payments |-> FALSE] /\ counts = [p \in Payments |-> 0] /\ likeCalls = {}
    /\ drawer = FALSE /\ selected = NoPayment /\ comments = {} /\ commentCalls = {} /\ posts = 0

\* filteredFeed.
FilteredFeed ==
    {p \in Payments \ PrivatePayments : tab = "friends" => p \in FriendPayments}
FeedRead(source) ==
    /\ feedFrom' = source /\ liked' \in [Payments -> BOOLEAN]
    /\ counts' = [p \in Payments |-> 0]

\* loadFeed: the cache, then the backend; an empty answer or an error changes
\* nothing.
LoadFeed ==
    /\ \/ /\ mountRead = "cache" /\ mountRead' = "fetch" /\ UNCHANGED feedCache
          /\ IF feedCache = "none" THEN UNCHANGED <<feedFrom, liked, counts>> ELSE FeedRead("cache")
       \/ /\ mountRead = "fetch" /\ mountRead' = "done"
          /\ \/ FeedRead("fresh") /\ feedCache' = "fresh"
             \/ UNCHANGED <<feedFrom, feedCache, liked, counts>>
    /\ UNCHANGED <<tab, likeCalls, drawer, selected, comments, commentCalls, posts>>
\* The feed of a pull.
PulledFeed ==
    /\ FeedRead("fresh") /\ feedCache' = "fresh"
    /\ UNCHANGED <<mountRead, tab, likeCalls, drawer, selected, comments, commentCalls, posts>>
SelectFeedTab ==
    /\ \E t \in {"public", "friends"} : tab' = t
    /\ UNCHANGED <<feedFrom, feedCache, mountRead, liked, counts, likeCalls, drawer, selected, comments, commentCalls, posts>>

LikeShown(p) == p \in FilteredFeed /\ ~drawer
\* handleLike: shown at once, and taken back when the backend refuses.
HandleLike(p) ==
    /\ LikeShown(p) /\ posts < MaxPosts /\ posts' = posts + 1
    /\ likeCalls' = likeCalls \cup {[n |-> posts, of |-> p, was |-> liked[p]]}
    /\ liked' = [liked EXCEPT ![p] = ~@]
    /\ UNCHANGED <<feedFrom, feedCache, mountRead, tab, counts, drawer, selected, comments, commentCalls>>
LikeEnds(c) ==
    /\ likeCalls' = likeCalls \ {c} /\ liked' \in {liked, [liked EXCEPT ![c.of] = c.was]}
    /\ UNCHANGED <<feedFrom, feedCache, mountRead, tab, counts, drawer, selected, comments, commentCalls, posts>>

CommentsButton(p) == p \in FilteredFeed /\ ~drawer
\* mutant: the drawer opens with the comments of another payment.
ListKept == comments
ListEmptied == {}
\* openComments starts from an empty list.
OpenComments(p) ==
    /\ CommentsButton(p) /\ drawer' = TRUE /\ selected' = p /\ comments' = ListEmptied
    /\ UNCHANGED <<feedFrom, feedCache, mountRead, tab, liked, counts, likeCalls, commentCalls, posts>>
CloseComments ==
    /\ drawer /\ drawer' = FALSE
    /\ UNCHANGED <<feedFrom, feedCache, mountRead, tab, liked, counts, likeCalls, selected, comments, commentCalls, posts>>
SendShown == drawer
SubmitComment ==
    /\ SendShown /\ posts < MaxPosts /\ posts' = posts + 1
    /\ comments' = comments \cup {[n |-> posts, of |-> selected, saved |-> FALSE]}
    /\ counts' = [counts EXCEPT ![selected] = @ + 1]
    /\ commentCalls' = commentCalls \cup {[n |-> posts, of |-> selected]}
    /\ UNCHANGED <<feedFrom, feedCache, mountRead, tab, liked, likeCalls, drawer, selected>>
\* The saved comment takes the place of the provisional one, if that is there.
CommentSaved(c) ==
    /\ commentCalls' = commentCalls \ {c}
    /\ comments' = {IF m.n = c.n THEN [m EXCEPT !.saved = TRUE] ELSE m : m \in comments}
    /\ UNCHANGED <<feedFrom, feedCache, mountRead, tab, liked, counts, likeCalls, drawer, selected, posts>>
\* mutant: the clamp at zero is missing.
Less1(n) == n - 1
\* Math.max(0, comments - 1).
LessOne(n) == IF n = 0 THEN 0 ELSE n - 1
CommentFails(c) ==
    /\ commentCalls' = commentCalls \ {c}
    /\ comments' = {m \in comments : m.n # c.n}
    /\ counts' = [counts EXCEPT ![c.of] = LessOne(@)]
    /\ UNCHANGED <<feedFrom, feedCache, mountRead, tab, liked, likeCalls, drawer, selected, posts>>

FeedHomeNext ==
    \/ LoadFeed \/ PulledFeed \/ SelectFeedTab
    \/ \E p \in Payments : HandleLike(p) \/ OpenComments(p)
    \/ \E c \in likeCalls : LikeEnds(c)
    \/ CloseComments \/ SubmitComment
    \/ \E c \in commentCalls : CommentSaved(c) \/ CommentFails(c)

-----------------------------------------------------------------------------
HomeTypeOK ==
    /\ yieldRequest \in 1..MaxLoads /\ yieldOf \in 0..MaxLoads /\ balanceOf \in 0..MaxLoads
    /\ yieldStatus \in {"loading", "success", "error"} /\ sheet \in {"closed", "open", "closing"}
    /\ currency \in {"NGN", "XLM"} /\ refreshing \in {"none", "feed", "yield"}
    /\ counts \in [Payments -> Nat] /\ liked \in [Payments -> BOOLEAN]
    /\ selected \in Payments \cup {NoPayment}

\* The yield of the earnings sheet (yieldData) is that of the last request that
\* was made: one that timed out, was retried or was overtaken by a pull never
\* replaces it (home.tsx:251-253).  Of the balance and the yield on the card it
\* says nothing: fetchYieldSnapshot sets those with every answer, before that
\* check (216-217); balanceOf follows them.
YieldIsLatest == yieldStatus = "success" => yieldOf = yieldRequest

\* The drawer shows comments on its own payment only, although comments on
\* another one may still be on their way when it is opened.
DrawerIsOfItem == drawer => \A m \in comments : m.of = selected
=============================================================================
