--------------------------- MODULE MobileFunding ---------------------------
(***************************************************************************)
(* Money coming in: the funding screen (app/fund.tsx), which quotes a      *)
(* transfer over the bridge, starts it and polls its status, and the claim *)
(* screen (app/claim/[token].tsx), which a link opens and which asks       *)
(* whether the claim token of the link is good.                            *)
(*                                                                         *)
(* A request of the funding screen is retried by fetchWithRetry and ends   *)
(* as an answer or as a failure; the one that starts a transfer is         *)
(* modelled attempt by attempt, since the backend may have acted on one    *)
(* whose answer did not come.  A poll is answered before the next one      *)
(* leaves unless OverlapPolls holds.                                       *)
(***************************************************************************)
EXTENDS Naturals, FiniteSets

CONSTANTS
    Networks, FundAmounts,  \* what a user can choose and type
    NoFunds,                \* an empty amount, or one that is not above zero
    Claims, NoClaim,        \* well-formed claim tokens
    BadClaim,               \* text that is no claim token
    OverlapPolls,           \* polls overtake one another
    FetchRetries,           \* maxRetries of fetchWithRetry
    MaxQuotes, MaxFails     \* bounds: quote requests, failed polls
ASSUME FundingConstants ==
    /\ Networks # {}
    /\ MaxQuotes \in Nat /\ MaxFails \in Nat /\ FetchRetries \in Nat /\ OverlapPolls \in BOOLEAN

LastStep == 4       \* "init", "lock", "relay", "receive"; 0 is no step
NoQuote == [network |-> "none", amount |-> NoFunds]

VARIABLES
    form,           \* the network and the amount chosen
    quoteTimer,     \* the half-second debounce runs
    quoteCalls,     \* forms whose quote is on the wire
    quotes,         \* bound
    loadingQuote, quote, quoteError,
    bridgeStep,     \* 0 the form, 1..4 the progress view
    bridge,         \* the step of the started transfer, or 0
    initiating,     \* the attempt of POST /api/bridge/initiate on the wire, or 0
    orders,         \* history: transfers the backend created since the last press
    interval,       \* the polling interval is set
    polls,          \* steps the polls on the wire will report
    shown,          \* the step of bridgeStatus, or 0
    pollFails,      \* bound
    onFund          \* the screen is mounted
fundVars == <<form, quoteTimer, quoteCalls, quotes, loadingQuote, quote, quoteError, bridgeStep, bridge, initiating,
              orders, interval, polls, shown, pollFails, onFund>>
quoteVars == <<quoteTimer, quoteCalls, quotes, loadingQuote, quote, quoteError>>
bridgeVars == <<bridgeStep, bridge, initiating, orders, interval, polls, shown, pollFails>>

VARIABLES
    claimScreen,    \* "none", or the state of the claim screen on top
    tokenInput,     \* its token field
    validating,     \* the token whose validation is on the wire
    claimResult     \* the token the result was given for
claimVars == <<claimScreen, tokenInput, validating, claimResult>>

-----------------------------------------------------------------------------
(* The quote. *)

FundInit ==
    /\ form = [network |-> CHOOSE n \in Networks : TRUE, amount |-> NoFunds]
    /\ quoteTimer = FALSE /\ quoteCalls = {} /\ quotes = 0
    /\ loadingQuote = FALSE /\ quote = NoQuote /\ quoteError = FALSE
    /\ bridgeStep = 0 /\ bridge = 0 /\ initiating = 0 /\ orders = 0 /\ interval = FALSE
    /\ polls = {} /\ shown = 0 /\ pollFails = 0 /\ onFund = TRUE

\* The effect on the inputs: the quote and the error go, the timer starts
\* again when there is an amount.
QuoteEffect(f) ==
    /\ quote' = NoQuote /\ quoteError' = FALSE /\ quoteTimer' = (f.amount # NoFunds)
    /\ UNCHANGED <<quoteCalls, quotes, loadingQuote>>

FormShown == onFund /\ bridgeStep = 0

SelectNetwork ==
    /\ FormShown
    /\ \E n \in Networks \ {form.network} : form' = [form EXCEPT !.network = n]
    /\ QuoteEffect(form') /\ UNCHANGED <<bridgeVars, onFund>>

EditFundAmount ==
    /\ FormShown
    /\ \E a \in (FundAmounts \cup {NoFunds}) \ {form.amount} : form' = [form EXCEPT !.amount = a]
    /\ QuoteEffect(form') /\ UNCHANGED <<bridgeVars, onFund>>

FetchQuote ==
    /\ onFund /\ quoteTimer /\ quotes < MaxQuotes
    /\ quoteTimer' = FALSE /\ loadingQuote' = TRUE /\ quoteError' = FALSE
    /\ quoteCalls' = quoteCalls \cup {form} /\ quotes' = quotes + 1
    /\ UNCHANGED <<form, quote, bridgeVars, onFund>>

\* An answer is shown whatever the inputs are by then.
QuoteAnswered(f) ==
    /\ f \in quoteCalls /\ quoteCalls' = quoteCalls \ {f}
    /\ quote' = f /\ loadingQuote' = FALSE
    /\ UNCHANGED <<form, quoteTimer, quotes, quoteError, bridgeVars, onFund>>

QuoteFails(f) ==
    /\ f \in quoteCalls /\ quoteCalls' = quoteCalls \ {f}
    /\ quoteError' = TRUE /\ loadingQuote' = FALSE
    /\ UNCHANGED <<form, quoteTimer, quotes, quote, bridgeVars, onFund>>

-----------------------------------------------------------------------------
(* The transfer over the bridge. *)

QuoteShown == FormShown /\ ~loadingQuote /\ quote # NoQuote

StartBridge ==
    /\ QuoteShown
    /\ bridgeStep' = 1 /\ initiating' = 1 /\ orders' = 0
    /\ UNCHANGED <<form, quoteVars, bridge, interval, polls, shown, pollFails, onFund>>

\* The interval starts with the answer, on a screen that may be gone by then.
Initiated ==
    /\ initiating > 0 /\ initiating' = 0 /\ orders' = orders + 1
    /\ bridge' = 1 /\ interval' = TRUE
    /\ UNCHANGED <<form, quoteVars, bridgeStep, polls, shown, pollFails, onFund>>

\* The mutant: the last attempt is followed by another.
OneRetryMore(n) == n <= FetchRetries + 1
\* retryWithBackoff: attempt n of 1 + maxRetries failed.
Retries(n) == n <= FetchRetries

\* An attempt fails: refused, or its answer is lost after the backend acted.
\* fetchWithRetry sends the request again, whatever it was.
InitiateAttemptFails ==
    /\ initiating > 0
    /\ orders' \in {orders, orders + 1}
    /\ IF Retries(initiating) THEN initiating' = initiating + 1 /\ UNCHANGED bridgeStep
       ELSE initiating' = 0 /\ bridgeStep' = 0
    /\ UNCHANGED <<form, quoteVars, bridge, interval, polls, shown, pollFails, onFund>>

\* The bridge's own steps, as the backend reports them.
BridgeMoves ==
    /\ bridge \in 1..(LastStep - 1) /\ bridge' = bridge + 1
    /\ UNCHANGED <<form, quoteVars, bridgeStep, initiating, orders, interval, polls, shown, pollFails, onFund>>

\* The code has no guard on an earlier poll (fund.tsx:149): with OverlapPolls =
\* FALSE each is answered within the 3 s of the interval.
PollTick ==
    /\ interval
    /\ OverlapPolls \/ polls = {}
    /\ polls' = polls \cup {bridge}
    /\ UNCHANGED <<form, quoteVars, bridgeStep, bridge, initiating, orders, interval, shown, pollFails, onFund>>

BridgeDone(step) == step = LastStep

\* The mutant: the last step but one already ends the polling.
StopsEarly(step) == step < LastStep - 1
KeepsPolling(step) == ~BridgeDone(step)

\* setBridgeStatus, the step, and the end of the polling.
PollBridgeStatus(step) ==
    /\ step \in polls /\ polls' = polls \ {step}
    /\ shown' = step /\ bridgeStep' = step
    /\ interval' = (interval /\ KeepsPolling(step))
    /\ UNCHANGED <<form, quoteVars, bridge, initiating, orders, pollFails, onFund>>

PollLost(step) ==
    /\ step \in polls /\ polls' = polls \ {step}
    /\ pollFails < MaxFails /\ pollFails' = pollFails + 1
    /\ UNCHANGED <<form, quoteVars, bridgeStep, bridge, initiating, orders, interval, shown, onFund>>

\* Back, or "Back to Wallet" once the transfer is complete.
LeaveFund ==
    /\ onFund /\ onFund' = FALSE
    /\ quoteTimer' = FALSE /\ interval' = FALSE
    /\ UNCHANGED <<form, quoteCalls, quotes, loadingQuote, quote, quoteError, bridgeStep, bridge, initiating, orders, polls,
                   shown, pollFails>>

QuoteNext ==
    \/ SelectNetwork \/ EditFundAmount \/ FetchQuote
    \/ \E f \in quoteCalls : QuoteAnswered(f) \/ QuoteFails(f)
BridgeNext ==
    \/ StartBridge \/ Initiated \/ InitiateAttemptFails \/ BridgeMoves \/ PollTick
    \/ \E step \in polls : PollBridgeStatus(step) \/ PollLost(step)
FundNext == QuoteNext \/ BridgeNext \/ LeaveFund

\* What happens by itself besides the bridge's own steps: the interval ticks,
\* requests end.
FundMoves == Initiated \/ InitiateAttemptFails \/ PollTick \/ \E step \in polls : PollBridgeStatus(step) \/ PollLost(step)

-----------------------------------------------------------------------------
(* Claim links. *)

ClaimInit == claimScreen = "none" /\ tokenInput = NoClaim /\ validating = NoClaim /\ claimResult = NoClaim

IsValidSdpToken(t) == t \in Claims

\* runValidation with the token it is given.
RunValidation(t) ==
    IF IsValidSdpToken(t)
    THEN claimScreen' = "validating" /\ validating' = t /\ UNCHANGED claimResult
    ELSE claimScreen' = "invalid_token" /\ UNCHANGED <<validating, claimResult>>

\* parseSdpClaimUrl and handleIncomingUrl: a link with a good token opens a
\* screen of its own, which validates the token it was opened with.
\* The mutant: the open screen is given the token and validates nothing.
FieldOnly(t) ==
    /\ tokenInput' = t
    /\ IF claimScreen = "none" THEN RunValidation(t) ELSE UNCHANGED <<claimScreen, validating, claimResult>>
Opened(t) ==
    /\ tokenInput' = t /\ claimScreen' = "validating" /\ validating' = t /\ claimResult' = NoClaim

HandleIncomingUrl == \E t \in Claims : Opened(t)

\* A link that is no claim link or whose token is malformed is ignored; the
\* screen opened with no token asks for one.
OpenEmptyClaim ==
    /\ claimScreen = "none" /\ claimScreen' = "invalid_token"
    /\ tokenInput' = NoClaim /\ claimResult' = NoClaim /\ UNCHANGED validating

EditClaimToken ==
    /\ claimScreen = "invalid_token" /\ tokenInput' \in Claims \cup {NoClaim, BadClaim}
    /\ UNCHANGED <<claimScreen, validating, claimResult>>

ValidatePressed ==
    /\ claimScreen \in {"invalid_token", "error"} /\ RunValidation(tokenInput) /\ UNCHANGED tokenInput

\* validateClaimToken: an answer, or the stand-in for one that did not come.
Validated ==
    /\ claimScreen = "validating"
    /\ claimScreen' \in {"valid", "expired", "already_claimed", "invalid"}
    /\ claimResult' = validating /\ validating' = NoClaim /\ UNCHANGED tokenInput

\* Only reading the stored session can fail.
ValidationFails ==
    /\ claimScreen = "validating" /\ claimScreen' = "error" /\ validating' = NoClaim
    /\ UNCHANGED <<tokenInput, claimResult>>

LeaveClaim ==
    /\ claimScreen # "none" /\ claimScreen' = "none"
    /\ tokenInput' = NoClaim /\ validating' = NoClaim /\ claimResult' = NoClaim

ClaimNext == HandleIncomingUrl \/ OpenEmptyClaim \/ EditClaimToken \/ ValidatePressed \/ Validated
             \/ ValidationFails \/ LeaveClaim

-----------------------------------------------------------------------------
FundForms == [network : Networks, amount : FundAmounts \cup {NoFunds}]

\* Types of the funding and claim screens.
FundingTypeOK ==
    /\ form \in FundForms /\ quoteCalls \subseteq FundForms /\ quote \in FundForms \cup {NoQuote}
    /\ {quoteTimer, loadingQuote, quoteError, interval, onFund} \subseteq BOOLEAN
    /\ quotes \in 0..MaxQuotes /\ pollFails \in 0..MaxFails
    /\ {bridgeStep, bridge, shown} \subseteq 0..LastStep
    /\ polls \subseteq 1..LastStep /\ initiating \in Nat /\ orders \in Nat
    /\ claimScreen \in {"none", "validating", "invalid_token", "error", "valid", "expired", "already_claimed", "invalid"}
    /\ {tokenInput, validating, claimResult} \subseteq Claims \cup {NoClaim, BadClaim}

\* The result view.
ResultShown == claimScreen \in {"valid", "expired", "already_claimed", "invalid"}

\* What the claim screen says of a claim is said of the token it displays,
\* whatever links arrive while an earlier token is being validated
\* (claim/[token].tsx:60-105).
ResultIsOfToken == ResultShown => claimResult = tokenInput

\* One press of "Start Bridge" creates no more transfers than fetchWithRetry has
\* attempts, and the progress view follows one that was created: the request
\* carries nothing by which the backend could tell that it is a repetition
\* (fund.tsx:130-157, retry.ts:10-48).
TransfersPerPress == orders <= FetchRetries + 1 /\ (bridge > 0 /\ initiating = 0 /\ interval => orders > 0)

\* The progress view.
ProgressShown == onFund /\ bridgeStep > 0

\* A started transfer is left, fails, or is reported complete: the polling
\* does not stop before (fund.tsx:118-127, 149-151).
Funding == ProgressShown /\ shown # LastStep
=============================================================================
