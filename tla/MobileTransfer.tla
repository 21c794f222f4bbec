--------------------------- MODULE MobileTransfer ---------------------------
(***************************************************************************)
(* The transfer screen of the mobile app: the recipient with its search    *)
(* and registry check, the review with its fee estimate, the biometric     *)
(* gate and the payment through stellarWallet.ts.  An action is a press or *)
(* the code between two awaits; answers come in any order, and nothing     *)
(* stops the user from going back, editing or pressing again while one is  *)
(* out.  An amount stands for what the keypad entered and the token.       *)
(* Opening the screen again starts from nothing.                           *)
(***************************************************************************)
EXTENDS Integers, FiniteSets

CONSTANTS
    Names,          \* ZAPS IDs
    Addresses,      \* Stellar accounts
    Flagged,        \* the names the registry has blacklisted
    NoOne,
    Federated,      \* federation addresses, name*domain
    Amounts, NoAmount,
    MaxSends,       \* bound: presses of Send
    MaxEdits        \* bound: edits of the recipient and the amount
ASSUME RecipientsDiffer ==
    /\ Flagged \subseteq Names /\ Names \cap (Addresses \cup Federated) = {} /\ Addresses \cap Federated = {}
    /\ NoOne \notin Names \cup Addresses \cup Federated /\ NoAmount \notin Amounts
    /\ MaxSends \in Nat /\ MaxEdits \in Nat

VARIABLES
    step, transferType,
    recipient, selectedUser, amount,
    federationStatus,
    usernameStatus,
    searchTimer,        \* the debounce timer is set
    checks,             \* registry checks on the wire, by name
    searches,           \* searches on the wire, by the name they were made for
    found,              \* searchResults, when the dropdown is shown
    edits,              \* bound
    walletSource,       \* walletState: none, or connected by Freighter, Albedo or the key on the phone
    connecting,
    feeEstimate,        \* none, or the details it is for
    feeCalls,           \* estimates on the wire whose effect is still mounted
    prompts,            \* biometric prompts: the details of the render that asked
    submitting,
    payments,           \* payments on their way: details and how far they are
    presses,            \* bound
    unspent             \* history: prompts passed less payments handed to the network

transferVars == <<step, transferType, recipient, selectedUser, amount, federationStatus,
                  usernameStatus, searchTimer, checks, searches, found, edits, walletSource, connecting, feeEstimate, feeCalls,
                  prompts, submitting, payments, presses, unspent>>
formVars == <<transferType, recipient, selectedUser, amount, federationStatus,
              usernameStatus, searchTimer, checks, searches, found, edits>>
payVars == <<prompts, submitting, payments, presses, unspent>>

Recipients == Names \cup Addresses \cup Federated
None == [to |-> NoOne, amount |-> NoAmount]
Details == [to |-> recipient, amount |-> amount]

TransferInit ==
    /\ step = 0 /\ transferType = "ZAPS" /\ recipient = NoOne /\ selectedUser = NoOne /\ amount = NoAmount
    /\ federationStatus = "idle" /\ edits = 0
    /\ usernameStatus = "idle" /\ searchTimer = FALSE /\ checks = {} /\ searches = {} /\ found = NoOne
    /\ walletSource \in {"none", "connected"} /\ connecting = FALSE
    /\ feeEstimate = None /\ feeCalls = {}
    /\ prompts = {} /\ submitting = FALSE /\ payments = {} /\ presses = 0 /\ unspent = 0

-----------------------------------------------------------------------------
(* The fee estimate: an effect of the step, the wallet and the details. *)

FeeReset == None
\* mutant: the cleanup does not cancel the estimate.
CallsKept == feeCalls
\* The cleanup of the effect: what is on the wire is for a render that is gone.
CallsDropped == {}

\* Runs after a change of step, wallet or details, here given as they will be.
FeeEffect(s, w, d) ==
    IF s # 3 \/ w = "none" \/ d.to = NoOne \/ d.amount = NoAmount
    THEN feeEstimate' = FeeReset /\ feeCalls' = CallsDropped
    ELSE feeEstimate' = feeEstimate /\ feeCalls' = CallsDropped \cup {d}

FeeEstimated ==
    /\ \E d \in feeCalls : feeCalls' = feeCalls \ {d} /\ feeEstimate' \in {d, None}
    /\ UNCHANGED <<step, formVars, walletSource, connecting, payVars>>

-----------------------------------------------------------------------------
(* The recipient. *)

\* renderStep0.
ChooseType(t) ==
    /\ step = 0 /\ transferType' = t /\ searchTimer' = (t = "ZAPS")
    /\ UNCHANGED <<step, recipient, selectedUser, amount, federationStatus, usernameStatus, checks, searches, found, edits,
                   walletSource, connecting, feeEstimate, feeCalls, payVars>>

\* mutant: an edit keeps the recipient that was selected.
SelectionKept == selectedUser
SelectionCleared == NoOne

\* The field is edited; in ZAPS mode an empty field closes the dropdown, any
\* other text leaves what it shows, and the effect restarts the debounce timer.
EditRecipient ==
    /\ step = 1 /\ edits < MaxEdits /\ edits' = edits + 1
    /\ \E r \in Recipients \cup {NoOne} : recipient' = r
    /\ selectedUser' = SelectionCleared
    /\ usernameStatus' = "idle" /\ federationStatus' = "idle"
    /\ found' = IF transferType = "ZAPS" /\ recipient' = NoOne THEN NoOne ELSE found
    /\ searchTimer' = (transferType = "ZAPS")
    /\ FeeEffect(step, walletSource, [Details EXCEPT !.to = recipient'])
    /\ UNCHANGED <<step, transferType, amount, checks, searches, walletSource, connecting, payVars>>

\* The timers fire: the search, and the registry check of the exact name.  A
\* search for what is no name finds nobody, here at once.
\* resolveFederationAddress refers to an SDK the file does not import, so that
\* every lookup ends in its error branch.
DebounceFires ==
    /\ searchTimer /\ searchTimer' = FALSE
    /\ IF recipient \in Names \cup Addresses
       THEN checks' = checks \cup {recipient} /\ usernameStatus' = "checking"
       ELSE UNCHANGED checks /\ usernameStatus' = "idle"
    /\ federationStatus' = IF recipient \in Federated THEN "error" ELSE federationStatus
    /\ IF recipient \in Names THEN searches' = searches \cup {recipient} /\ UNCHANGED found
       ELSE found' = NoOne /\ UNCHANGED searches
    /\ UNCHANGED <<step, transferType, edits, recipient, selectedUser, amount, walletSource, connecting,
                   feeEstimate, feeCalls, payVars>>

\* searchUsers' answer for a name, whatever the field holds by now: its user,
\* or nobody when the request fails.
SearchEnds(r) ==
    /\ searches' = searches \ {r}
    /\ found' \in {r, NoOne}
    /\ UNCHANGED <<step, transferType, recipient, selectedUser, amount, federationStatus, usernameStatus, searchTimer,
                   checks, edits, walletSource, connecting, feeEstimate, feeCalls, payVars>>

\* checkUsernameRegistry's answers for name r; an error keeps nothing.
RegistryStatus(r) ==
    IF r \in Flagged THEN "blacklisted" ELSE IF r \in Names THEN "registered" ELSE "not_registered"
CheckEnds(r) ==
    /\ checks' = checks \ {r} /\ usernameStatus' \in {RegistryStatus(r), "idle"}
    /\ UNCHANGED <<step, transferType, edits, recipient, selectedUser, amount, federationStatus, searchTimer,
                   searches, found, walletSource, connecting, feeEstimate, feeCalls, payVars>>

\* Contacts of the phone are offered while the field is empty, and search
\* results under it.
ContactsOffered == IF recipient = NoOne /\ found = NoOne THEN Names ELSE {}
ResultsOffered == {found} \ {NoOne}

\* handleSelectUser and handleSelectContact: the name changes, and the effect
\* takes the status back to idle and checks again.
SelectUser ==
    /\ step = 1 /\ transferType = "ZAPS"
    /\ \E u \in ContactsOffered \cup ResultsOffered :
         /\ recipient' = u /\ selectedUser' = u
         /\ FeeEffect(step, walletSource, [Details EXCEPT !.to = u])
         /\ usernameStatus' = IF u = recipient THEN "registered" ELSE "idle"
         /\ searchTimer' = (u # recipient \/ searchTimer)
    /\ found' = NoOne
    /\ UNCHANGED <<step, transferType, edits, amount, federationStatus, checks, searches, walletSource, connecting, payVars>>

\* A recent recipient, offered while the field is empty: who was paid, and
\* only accounts are.  Checked at once, and again by the effect.
SelectRecent ==
    /\ step = 1 /\ transferType = "ZAPS" /\ recipient = NoOne
    /\ \E u \in Addresses :
         /\ recipient' = u /\ checks' = checks \cup {u}
         /\ FeeEffect(step, walletSource, [Details EXCEPT !.to = u])
    /\ usernameStatus' = "idle" /\ searchTimer' = TRUE /\ found' = NoOne
    /\ UNCHANGED <<step, transferType, edits, selectedUser, amount, federationStatus, searches, walletSource, connecting, payVars>>

\* handleKeypadPress; the token cards offer another amount of the same set.
TokensOffered == Amounts
EditAmount ==
    /\ step = 1 /\ edits < MaxEdits /\ edits' = edits + 1
    /\ \E a \in TokensOffered \cup {NoAmount} : amount' = a /\ FeeEffect(step, walletSource, [to |-> recipient, amount |-> a])
    /\ UNCHANGED <<step, transferType, recipient, selectedUser, federationStatus, usernameStatus, searchTimer,
                   checks, searches, found, walletSource, connecting, payVars>>

-----------------------------------------------------------------------------
(* The steps. *)

\* The button at the foot of the screen.
NextEnabled ==
    /\ ~submitting /\ step \in 0..3
    /\ step = 1 => /\ recipient # NoOne /\ amount # NoAmount
                   /\ transferType = "ZAPS" => usernameStatus \notin {"not_registered", "blacklisted"}
                   /\ federationStatus # "error"

\* handleNext up to the review; without a wallet it leads to the wallets.
HandleNext ==
    /\ NextEnabled /\ step # 3
    /\ step' = IF step = 2 THEN (IF walletSource = "none" THEN 5 ELSE 3) ELSE step + 1
    /\ FeeEffect(step', walletSource, Details)
    /\ UNCHANGED <<formVars, walletSource, connecting, payVars>>

\* handleBack; from the wallets it leads to the review, with a wallet or not.
HandleBack ==
    /\ step \in 1..3 \cup {5}
    /\ step' = IF step = 5 THEN 3 ELSE step - 1
    /\ FeeEffect(step', walletSource, Details)
    /\ UNCHANGED <<formVars, walletSource, connecting, payVars>>

\* handleConnectWallet.
ConnectWallet ==
    /\ step = 5 /\ walletSource = "none" /\ ~connecting /\ connecting' = TRUE
    /\ UNCHANGED <<step, formVars, walletSource, feeEstimate, feeCalls, payVars>>
WalletConnectEnds ==
    /\ connecting /\ connecting' = FALSE
    /\ walletSource' \in {walletSource, "connected"}
    /\ FeeEffect(step, walletSource', Details)
    /\ UNCHANGED <<step, formVars, payVars>>
\* Continue with this wallet, or disconnect: both lead to the review.
UseWallet ==
    /\ step = 5 /\ walletSource # "none" /\ step' = 3 /\ walletSource' \in {walletSource, "none"}
    /\ FeeEffect(3, walletSource', Details)
    /\ UNCHANGED <<formVars, connecting, payVars>>

-----------------------------------------------------------------------------
(* What is shown before sending: the summary, then the card to review. *)

Summary == Details
DisplayUser == IF selectedUser = NoOne THEN recipient ELSE selectedUser
Card == [to |-> DisplayUser, amount |-> amount, fee |-> feeEstimate]

-----------------------------------------------------------------------------
(* Sending. *)

\* handleNext on the review: the prompt comes before the button is disabled,
\* so that a second press brings a second prompt.
PressSend ==
    /\ step = 3 /\ NextEnabled /\ presses < MaxSends /\ presses' = presses + 1
    /\ prompts' = prompts \cup {[n |-> presses, to |-> recipient, from |-> walletSource]}
    /\ UNCHANGED <<step, formVars, walletSource, connecting, feeEstimate, feeCalls, submitting, payments, unspent>>

\* mutant: a failed prompt lets through.
GateOpen(ok) == TRUE
\* authenticateWithBiometrics: success, or cancelled, failed or an error.
Gate(ok) == ok

\* The prompt is answered.  Who passed submits the details of the render that
\* asked; without a wallet the call throws.
PromptEnds(p) ==
    /\ prompts' = prompts \ {p}
    /\ \E ok \in BOOLEAN :
         IF ~Gate(ok) THEN UNCHANGED <<submitting, payments, unspent>>
         ELSE /\ unspent' = IF ok THEN unspent + 1 ELSE unspent
              /\ IF p.from = "none" THEN submitting' = FALSE /\ UNCHANGED payments
                 ELSE submitting' = TRUE /\ payments' = payments \cup {[n |-> p.n, to |-> p.to, at |-> "build"]}
    /\ UNCHANGED <<step, formVars, walletSource, connecting, feeEstimate, feeCalls, presses>>

\* buildPaymentEnvelope loads the account and makes the operation, which
\* throws for a destination that is no account.
Buildable(to) == to \in Addresses
Built(p) ==
    /\ p.at = "build" /\ Buildable(p.to)
    /\ payments' = (payments \ {p}) \cup {[p EXCEPT !.at = "sign"]}
    /\ UNCHANGED <<step, formVars, walletSource, connecting, feeEstimate, feeCalls, prompts, submitting, presses, unspent>>
\* signAndSubmitTransaction: signed, it is on the network whatever is heard of it.
Submitted(p) ==
    /\ p.at = "sign" /\ unspent' = unspent - 1
    /\ payments' = (payments \ {p}) \cup {[p EXCEPT !.at = "submitted"]}
    /\ UNCHANGED <<step, formVars, walletSource, connecting, feeEstimate, feeCalls, prompts, submitting, presses>>
\* Recorded in the backend with retries, then among the pending transfers and
\* the recent recipients: the success is shown.
PaymentDone(p) ==
    /\ p.at = "submitted" /\ payments' = payments \ {p} /\ submitting' = FALSE /\ step' = 4
    /\ FeeEffect(4, walletSource, Details)
    /\ UNCHANGED <<formVars, walletSource, connecting, prompts, presses, unspent>>
\* mutant: a failure leaves the button disabled.
NotFreed == submitting
FreedSend == FALSE
\* Any step throws: the alert says that the transfer failed.
PaymentFails(p) ==
    /\ payments' = payments \ {p} /\ submitting' = FreedSend
    /\ UNCHANGED <<step, formVars, walletSource, connecting, feeEstimate, feeCalls, prompts, presses, unspent>>

TransferNext ==
    \/ \E t \in {"ZAPS", "external"} : ChooseType(t)
    \/ EditRecipient \/ DebounceFires \/ SelectUser \/ SelectRecent \/ EditAmount
    \/ \E r \in checks : CheckEnds(r)
    \/ \E r \in searches : SearchEnds(r)
    \/ HandleNext \/ HandleBack \/ ConnectWallet \/ WalletConnectEnds \/ UseWallet \/ FeeEstimated
    \/ PressSend
    \/ \E p \in prompts : PromptEnds(p)
    \/ \E p \in payments : Built(p) \/ Submitted(p) \/ PaymentDone(p) \/ PaymentFails(p)
PaymentMoves == \E p \in payments : Built(p) \/ Submitted(p) \/ PaymentDone(p) \/ PaymentFails(p)

-----------------------------------------------------------------------------
TransferTypeOK ==
    /\ step \in 0..5 /\ transferType \in {"ZAPS", "external"}
    /\ recipient \in Recipients \cup {NoOne} /\ selectedUser \in Names \cup {NoOne} /\ amount \in Amounts \cup {NoAmount} /\ edits \in 0..MaxEdits
    /\ usernameStatus \in {"idle", "checking", "registered", "not_registered", "blacklisted"}
    /\ federationStatus \in {"idle", "error"} /\ checks \subseteq Recipients /\ searches \subseteq Names
    /\ walletSource \in {"none", "connected"} /\ submitting \in BOOLEAN
    /\ \A p \in payments : p.at \in {"build", "sign", "submitted"}
    /\ unspent \in 0..MaxSends

\* The card that is reviewed names the account that is paid: however names are
\* typed, chosen, chosen again and edited, the user on the card is the one the
\* summary named (transfer.tsx:1295, 1253).
CardNamesRecipient == step = 3 => Card.to = Summary.to

\* "The transfer is blocked unless the user successfully authenticates": every
\* payment has an authentication of its own, also when Send is pressed twice,
\* and again after a failure.
AuthorisedEach == Cardinality({p \in payments : p.at # "submitted"}) <= unspent

\* The fee on the card is the fee of what the card shows, although estimates
\* of other amounts and recipients are still on the wire.
FeeIsCurrent == Card.fee # None => step = 3 /\ Card.fee = Summary

\* "Send instantly to any Zaps user via their ZAPS ID": what is built into a
\* payment is the account of a name, not the name.
NamesAreResolved == \A p \in payments : Buildable(p.to)
=============================================================================
