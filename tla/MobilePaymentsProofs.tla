------------------------ MODULE MobilePaymentsProofs ------------------------
(***************************************************************************)
(* What the phone promises about money, for every set of recipients,       *)
(* payments, codes, files, networks and sales and however long it is used. *)
(* Each screen has an inductive invariant of its own; the screens share no *)
(* state, so together they are preserved by every step.  The offline queue *)
(* loses nothing and sends nothing more often than kills explain.          *)
(* Assumed is what the code leaves to chance and the runs fix: that no     *)
(* second page of the history is asked for while one is under way, a file  *)
(* is read before another is picked, and no transaction is queued during   *)
(* a flush.                                                                *)
(***************************************************************************)
EXTENDS MobilePayments, OfflineQueue, FiniteSetTheorems, SequenceTheorems, WellFoundedInduction, TLAPS

-----------------------------------------------------------------------------
(***************************************************************************)
(* The transfer screen.                                                    *)
(***************************************************************************)

\* The form, with the user on the card: the recipient, if one was chosen.
FormInv ==
    /\ step \in 0..5 /\ transferType \in {"ZAPS", "external"}
    /\ recipient \in Recipients \cup {NoOne} /\ selectedUser \in Names \cup {NoOne}
    /\ amount \in Amounts \cup {NoAmount} /\ edits \in 0..MaxEdits
    /\ usernameStatus \in {"idle", "checking", "registered", "not_registered", "blacklisted"}
    /\ federationStatus \in {"idle", "error"} /\ checks \subseteq Recipients
    /\ searches \subseteq Names /\ found \in Names \cup {NoOne} /\ walletSource \in {"none", "connected"}
    /\ selectedUser \in {NoOne, recipient}

\* An estimate, on the card or on the wire, is of the present details and is
\* there on the review only.
FeeInv ==
    /\ feeEstimate \in {None, Details} /\ feeCalls \subseteq {Details}
    /\ step # 3 => feeEstimate = None /\ feeCalls = {}

Prompts == [n : Nat, to : Recipients \cup {NoOne}, from : {"none", "connected"}]
Sendings == [n : Nat, to : Recipients \cup {NoOne}, at : {"build", "sign", "submitted"}]
Unsent == {p \in payments : p.at # "submitted"}

LEMMA OneMoreAtMost ==
    ASSUME NEW S, IsFiniteSet(S), NEW x
    PROVE  /\ IsFiniteSet(S \cup {x}) /\ Cardinality(S) \in Nat
           /\ Cardinality(S \cup {x}) \in Nat /\ Cardinality(S \cup {x}) <= Cardinality(S) + 1
<1>1. Cardinality(S) \in Nat
  BY FS_CardinalityType
<1> QED
  BY <1>1, FS_AddElement

LEMMA OneLess ==
    ASSUME NEW S, IsFiniteSet(S), NEW x
    PROVE  /\ IsFiniteSet(S \ {x}) /\ Cardinality(S) \in Nat /\ Cardinality(S \ {x}) \in Nat
           /\ Cardinality(S \ {x}) = IF x \in S THEN Cardinality(S) - 1 ELSE Cardinality(S)
<1>1. Cardinality(S) \in Nat /\ IsFiniteSet(S \ {x})
  BY FS_CardinalityType, FS_RemoveElement
<1>2. Cardinality(S \ {x}) \in Nat
  BY <1>1, FS_CardinalityType
<1> QED
  BY <1>1, <1>2, FS_RemoveElement

\* A press brings at most one prompt and a prompt at most one authentication.
PayInv ==
    /\ submitting \in BOOLEAN /\ presses \in 0..MaxSends /\ unspent \in Nat
    /\ prompts \subseteq Prompts /\ IsFiniteSet(prompts)
    /\ payments \subseteq Sendings /\ IsFiniteSet(payments)
    /\ Cardinality(prompts) + unspent <= presses
    /\ AuthorisedEach

TransferInv == FormInv /\ FeeInv /\ PayInv

LEMMA TransferStarts == ASSUME TransferInit PROVE TransferInv
<1>1. Cardinality({}) = 0 /\ IsFiniteSet({})
  BY FS_EmptySet
<1>2. {p \in payments : p.at # "submitted"} = {}
  BY DEF TransferInit
<1>3. PayInv
  <2>1. AuthorisedEach
    BY <1>1, <1>2 DEF TransferInit, AuthorisedEach
  <2>2. IsFiniteSet(prompts) /\ IsFiniteSet(payments) /\ Cardinality(prompts) = 0
    BY <1>1 DEF TransferInit
  <2>3. prompts \subseteq Prompts /\ payments \subseteq Sendings /\ submitting \in BOOLEAN
    BY DEF TransferInit
  <2> QED
    BY <2>1, <2>2, <2>3, RecipientsDiffer DEF TransferInit, PayInv
<1>4. FormInv
  BY RecipientsDiffer DEF TransferInit, FormInv
<1>5. FeeInv
  BY DEF TransferInit, FeeInv
<1> QED
  BY <1>3, <1>4, <1>5 DEF TransferInv

LEMMA TransferRests ==
    ASSUME TransferInv, UNCHANGED transferVars
    PROVE  TransferInv'
BY DEF TransferInv, transferVars, FormInv, FeeInv, PayInv, AuthorisedEach, Details, None

LEMMA PayRests ==
    ASSUME PayInv, UNCHANGED payVars
    PROVE  PayInv'
BY DEF payVars, PayInv, AuthorisedEach

LEMMA FeeRests ==
    ASSUME FeeInv, UNCHANGED <<step, recipient, amount, feeEstimate, feeCalls>>
    PROVE  FeeInv'
<1>1. Details' = Details /\ None' = None
  BY DEF Details, None
<1> QED
  BY <1>1 DEF FeeInv

\* What the effect leaves: an estimate of the details of the next render.
LEMMA EffectKeeps ==
    ASSUME FeeInv, step = 3 => Details' = Details,
           \/ feeEstimate' = None /\ feeCalls' = {}
           \/ step' = 3 /\ feeEstimate' = feeEstimate /\ feeCalls' = {Details'}
    PROVE  FeeInv'
<1>1. None' = None
  BY DEF None
<1> QED
  BY <1>1 DEF FeeInv

\* The form, its steps and the wallet.
LEMMA FormStep ==
    ASSUME TransferInv,
           \/ \E t \in {"ZAPS", "external"} : ChooseType(t)
           \/ EditRecipient \/ DebounceFires \/ SelectUser \/ SelectRecent \/ EditAmount
           \/ \E r \in checks : CheckEnds(r)
           \/ \E r \in searches : SearchEnds(r)
           \/ HandleNext \/ HandleBack \/ ConnectWallet \/ WalletConnectEnds \/ UseWallet \/ FeeEstimated
    PROVE  TransferInv'
<1> USE DEF TransferInv
<1>1. PayInv'
  BY PayRests DEF ChooseType, EditRecipient, DebounceFires, SelectUser, SelectRecent, EditAmount, CheckEnds, SearchEnds,
     HandleNext, HandleBack, ConnectWallet, WalletConnectEnds, UseWallet, FeeEstimated
<1>2. ASSUME NEW t \in {"ZAPS", "external"}, ChooseType(t) PROVE FormInv' /\ FeeInv'
  BY <1>2, FeeRests DEF ChooseType, FormInv
<1>3. CASE EditRecipient
  <2>1. FormInv'
    BY <1>3, RecipientsDiffer DEF EditRecipient, FormInv, SelectionCleared
  <2>2. (feeEstimate' = None /\ feeCalls' = {}) /\ step' = step /\ step # 3
    BY <1>3 DEF EditRecipient, FeeEffect, FeeReset, CallsDropped
  <2> QED
    BY <1>1, <2>1, <2>2, EffectKeeps
<1>4. CASE DebounceFires
  <2>1. FormInv'
    BY <1>4 DEF DebounceFires, FormInv, Recipients
  <2> QED
    BY <1>1, <1>4, <2>1, FeeRests DEF DebounceFires
<1>5. CASE SelectUser
  <2>1. PICK u \in ContactsOffered \cup ResultsOffered :
             /\ recipient' = u /\ selectedUser' = u /\ FeeEffect(step, walletSource, [Details EXCEPT !.to = u])
             /\ usernameStatus' = IF u = recipient THEN "registered" ELSE "idle"
    BY <1>5 DEF SelectUser
  <2>2. u \in Names
    BY <2>1 DEF FormInv, ContactsOffered, ResultsOffered
  <2>3. FormInv'
    BY <1>5, <2>1, <2>2 DEF SelectUser, FormInv, Recipients
  <2>4. (feeEstimate' = None /\ feeCalls' = {}) /\ step' = step /\ step # 3
    BY <1>5, <2>1 DEF SelectUser, FeeEffect, FeeReset, CallsDropped
  <2> QED
    BY <1>1, <2>3, <2>4, EffectKeeps
<1>6. CASE SelectRecent
  <2>1. PICK u \in Addresses : /\ recipient' = u /\ checks' = checks \cup {u}
                               /\ FeeEffect(step, walletSource, [Details EXCEPT !.to = u])
    BY <1>6 DEF SelectRecent
  <2>2. FormInv'
    BY <1>6, <2>1 DEF SelectRecent, FormInv, Recipients
  <2>3. (feeEstimate' = None /\ feeCalls' = {}) /\ step' = step /\ step # 3
    BY <1>6, <2>1 DEF SelectRecent, FeeEffect, FeeReset, CallsDropped
  <2> QED
    BY <1>1, <2>2, <2>3, EffectKeeps
<1>7. CASE EditAmount
  <2>1. FormInv'
    BY <1>7, RecipientsDiffer DEF EditAmount, TokensOffered, FormInv
  <2>2. (feeEstimate' = None /\ feeCalls' = {}) /\ step' = step /\ step # 3
    BY <1>7 DEF EditAmount, FeeEffect, FeeReset, CallsDropped
  <2> QED
    BY <1>1, <2>1, <2>2, EffectKeeps
<1>8. ASSUME NEW r \in checks, CheckEnds(r) PROVE FormInv' /\ FeeInv'
  <2>1. FormInv'
    BY <1>8 DEF CheckEnds, RegistryStatus, FormInv
  <2> QED
    BY <1>8, <2>1, FeeRests DEF CheckEnds
<1>15. ASSUME NEW r \in searches, SearchEnds(r) PROVE FormInv' /\ FeeInv'
  <2>1. FormInv'
    BY <1>15 DEF SearchEnds, FormInv
  <2> QED
    BY <1>15, <2>1, FeeRests DEF SearchEnds
<1>9. CASE HandleNext
  <2>1. FormInv'
    BY <1>9 DEF HandleNext, NextEnabled, FormInv, formVars
  <2>2. /\ Details' = Details
        /\ \/ feeEstimate' = None /\ feeCalls' = {}
           \/ step' = 3 /\ feeEstimate' = feeEstimate /\ feeCalls' = {Details'}
    BY <1>9 DEF HandleNext, FeeEffect, FeeReset, CallsDropped, formVars, Details
  <2> QED
    BY <1>1, <2>1, <2>2, EffectKeeps
<1>10. CASE HandleBack
  <2>1. FormInv'
    BY <1>10 DEF HandleBack, FormInv, formVars
  <2>2. /\ Details' = Details
        /\ \/ feeEstimate' = None /\ feeCalls' = {}
           \/ step' = 3 /\ feeEstimate' = feeEstimate /\ feeCalls' = {Details'}
    BY <1>10 DEF HandleBack, FeeEffect, FeeReset, CallsDropped, formVars, Details
  <2> QED
    BY <1>1, <2>1, <2>2, EffectKeeps
<1>11. CASE ConnectWallet
  BY <1>1, <1>11, FeeRests DEF ConnectWallet, FormInv, formVars
<1>12. CASE WalletConnectEnds
  <2>1. FormInv'
    BY <1>12 DEF WalletConnectEnds, FormInv, formVars
  <2>2. /\ Details' = Details
        /\ \/ feeEstimate' = None /\ feeCalls' = {}
           \/ step' = 3 /\ feeEstimate' = feeEstimate /\ feeCalls' = {Details'}
    BY <1>12 DEF WalletConnectEnds, FeeEffect, FeeReset, CallsDropped, formVars, Details
  <2> QED
    BY <1>1, <2>1, <2>2, EffectKeeps
<1>13. CASE UseWallet
  <2>1. FormInv'
    BY <1>13 DEF UseWallet, FormInv, formVars
  <2>2. /\ Details' = Details
        /\ \/ feeEstimate' = None /\ feeCalls' = {}
           \/ step' = 3 /\ feeEstimate' = feeEstimate /\ feeCalls' = {Details'}
    BY <1>13 DEF UseWallet, FeeEffect, FeeReset, CallsDropped, formVars, Details
  <2> QED
    BY <1>1, <2>1, <2>2, EffectKeeps
<1>14. CASE FeeEstimated
  <2>1. FormInv' /\ Details' = Details /\ None' = None
    BY <1>14 DEF FeeEstimated, FormInv, formVars, Details, None
  <2> QED
    BY <1>1, <1>14, <2>1 DEF FeeEstimated, FeeInv
<1> QED
  BY <1>1, <1>2, <1>3, <1>4, <1>5, <1>6, <1>7, <1>8, <1>9, <1>10, <1>11, <1>12, <1>13, <1>14, <1>15

LEMMA PressStep == ASSUME TransferInv, PressSend PROVE TransferInv'
<1> USE DEF TransferInv
<1>1. FormInv' /\ FeeInv'
  BY FeeRests DEF PressSend, FormInv, formVars
<1> DEFINE p == [n |-> presses, to |-> recipient, from |-> walletSource]
<1>2. p \in Prompts
  BY DEF FormInv, PayInv, Prompts
<1> HIDE DEF p
<1>3. prompts' = prompts \cup {p}
  BY DEF PressSend, p
<1>4. IsFiniteSet(prompts') /\ Cardinality(prompts') \in Nat /\ Cardinality(prompts') <= Cardinality(prompts) + 1
  BY <1>3, OneMoreAtMost DEF PayInv
<1>5. PayInv'
  BY <1>2, <1>3, <1>4, FS_CardinalityType, RecipientsDiffer DEF PressSend, PayInv, AuthorisedEach
<1> QED
  BY <1>1, <1>5

LEMMA UnsentFinite ==
    ASSUME PayInv
    PROVE  IsFiniteSet(Unsent) /\ Cardinality(Unsent) \in Nat /\ Cardinality(Unsent) <= unspent
BY FS_Subset, FS_CardinalityType DEF PayInv, Unsent, AuthorisedEach

LEMMA PromptStep == ASSUME TransferInv, NEW p \in prompts, PromptEnds(p) PROVE TransferInv'
<1> USE DEF TransferInv
<1>1. FormInv' /\ FeeInv'
  BY FeeRests DEF PromptEnds, FormInv, formVars
<1>2. prompts' = prompts \ {p} /\ presses' = presses /\ p \in Prompts
  BY DEF PromptEnds, PayInv
<1>3. /\ IsFiniteSet(prompts') /\ Cardinality(prompts') = Cardinality(prompts) - 1
      /\ Cardinality(prompts) \in Nat /\ Cardinality(prompts') \in Nat
  BY <1>2, OneLess DEF PayInv
<1>4. CASE UNCHANGED <<submitting, payments, unspent>>
  BY <1>1, <1>2, <1>3, <1>4 DEF PayInv, AuthorisedEach
<1>5. CASE unspent' = unspent + 1 /\ submitting' = FALSE /\ UNCHANGED payments
  <2>1. Unsent' = Unsent
    BY <1>5 DEF Unsent
  <2>2. Cardinality(Unsent') <= unspent'
    BY <1>5, <2>1, UnsentFinite DEF PayInv
  <2>3. AuthorisedEach'
    BY <2>2 DEF AuthorisedEach, Unsent
  <2>4. submitting' \in BOOLEAN
    BY <1>5
  <2> QED
    BY <1>1, <1>2, <1>3, <1>5, <2>3, <2>4 DEF PayInv
<1> DEFINE q == [n |-> p.n, to |-> p.to, at |-> "build"]
<1>6. CASE unspent' = unspent + 1 /\ submitting' = TRUE /\ payments' = payments \cup {q}
  <2>1. q \in Sendings
    BY <1>2 DEF Prompts, Sendings
  <2>2. Unsent' = Unsent \cup {q}
    BY <1>6 DEF Unsent
  <2> HIDE DEF q
  <2>3. Cardinality(Unsent \cup {q}) <= Cardinality(Unsent) + 1 /\ Cardinality(Unsent \cup {q}) \in Nat
    BY UnsentFinite, OneMoreAtMost
  <2>4. IsFiniteSet(payments')
    BY <1>6, OneMoreAtMost DEF PayInv
  <2>5. AuthorisedEach'
    <3>1. Cardinality(Unsent') <= unspent'
      BY <1>6, <2>2, <2>3, UnsentFinite DEF PayInv
    <3> QED
      BY <3>1 DEF AuthorisedEach, Unsent
  <2> QED
    BY <1>1, <1>2, <1>3, <1>6, <2>1, <2>4, <2>5 DEF PayInv
<1> QED
  BY <1>1, <1>4, <1>5, <1>6 DEF PromptEnds, Gate

LEMMA PaymentStep ==
    ASSUME TransferInv, NEW p \in payments, Built(p) \/ Submitted(p) \/ PaymentDone(p) \/ PaymentFails(p)
    PROVE  TransferInv'
<1> USE DEF TransferInv
<1>0. p \in Sendings /\ IsFiniteSet(payments \ {p})
  BY FS_RemoveElement DEF PayInv
<1>1. FormInv'
  BY DEF Built, Submitted, PaymentDone, PaymentFails, FormInv, formVars
<1>2. FeeInv'
  <2>1. CASE PaymentDone(p)
    <3>1. feeEstimate' = None /\ feeCalls' = {} /\ Details' = Details
      BY <2>1 DEF PaymentDone, FeeEffect, FeeReset, CallsDropped, formVars, Details
    <3> QED
      BY <3>1, EffectKeeps
  <2>2. CASE Built(p) \/ Submitted(p) \/ PaymentFails(p)
    BY <2>2, FeeRests DEF Built, Submitted, PaymentFails, formVars
  <2> QED
    BY <2>1, <2>2
<1>3. /\ IsFiniteSet(Unsent \ {p}) /\ Cardinality(Unsent \ {p}) \in Nat
      /\ Cardinality(Unsent \ {p}) = IF p \in Unsent THEN Cardinality(Unsent) - 1 ELSE Cardinality(Unsent)
  BY UnsentFinite, OneLess
<1>4. CASE Built(p)
  <2> DEFINE q == [p EXCEPT !.at = "sign"]
  <2>1. q \in Sendings /\ q.at # "submitted" /\ p \in Unsent /\ payments' = (payments \ {p}) \cup {q}
    BY <1>0, <1>4 DEF Built, Sendings, Unsent
  <2> HIDE DEF q
  <2>2. Unsent' = (Unsent \ {p}) \cup {q}
    BY <2>1 DEF Unsent
  <2>3. Cardinality((Unsent \ {p}) \cup {q}) <= Cardinality(Unsent \ {p}) + 1
        /\ Cardinality((Unsent \ {p}) \cup {q}) \in Nat
    BY <1>3, OneMoreAtMost
  <2>4. AuthorisedEach'
    <3>1. Cardinality(Unsent') <= unspent'
      BY <1>3, <1>4, <2>1, <2>2, <2>3, UnsentFinite DEF Built, PayInv
    <3> QED
      BY <3>1 DEF AuthorisedEach, Unsent
  <2>5. IsFiniteSet(payments')
    BY <1>0, <2>1, OneMoreAtMost
  <2> QED
    BY <1>1, <1>2, <1>4, <2>1, <2>4, <2>5 DEF Built, PayInv
<1>5. CASE Submitted(p)
  <2> DEFINE q == [p EXCEPT !.at = "submitted"]
  <2>1. q \in Sendings /\ q.at = "submitted" /\ p \in Unsent /\ payments' = (payments \ {p}) \cup {q}
    BY <1>0, <1>5 DEF Submitted, Sendings, Unsent
  <2> HIDE DEF q
  <2>2. Unsent' = Unsent \ {p}
    BY <2>1 DEF Unsent
  <2>3. AuthorisedEach' /\ unspent' \in Nat /\ unspent' = unspent - 1
    <3>1. Cardinality(Unsent') <= unspent' /\ unspent' \in Nat /\ unspent' = unspent - 1
      BY <1>3, <1>5, <2>1, <2>2, UnsentFinite DEF Submitted, PayInv
    <3> QED
      BY <3>1 DEF AuthorisedEach, Unsent
  <2>4. IsFiniteSet(payments')
    BY <1>0, <2>1, OneMoreAtMost
  <2>5. Cardinality(prompts) \in Nat
    BY FS_CardinalityType DEF PayInv
  <2> QED
    BY <1>1, <1>2, <1>5, <2>1, <2>3, <2>4, <2>5 DEF Submitted, PayInv
<1>6. CASE PaymentDone(p) \/ PaymentFails(p)
  <2>1. payments' = payments \ {p} /\ UNCHANGED <<prompts, presses, unspent>> /\ submitting' = FALSE
    BY <1>6 DEF PaymentDone, PaymentFails, FreedSend
  <2>2. Unsent' = Unsent \ {p}
    BY <2>1 DEF Unsent
  <2>3. AuthorisedEach'
    <3>1. Cardinality(Unsent') <= unspent'
      BY <1>3, <2>1, <2>2, UnsentFinite DEF PayInv
    <3> QED
      BY <3>1 DEF AuthorisedEach, Unsent
  <2> QED
    BY <1>0, <1>1, <1>2, <2>1, <2>3 DEF PayInv
<1> QED
  BY <1>4, <1>5, <1>6

LEMMA TransferStep == ASSUME TransferInv, TransferNext PROVE TransferInv'
BY FormStep, PressStep, PromptStep, PaymentStep DEF TransferNext

LEMMA TransferShows ==
    ASSUME TransferInv
    PROVE  TransferTypeOK /\ AuthorisedEach /\ CardNamesRecipient /\ FeeIsCurrent
<1>1. unspent \in 0..MaxSends
  BY FS_CardinalityType, RecipientsDiffer DEF TransferInv, PayInv
<1>2. \A p \in payments : p.at \in {"build", "sign", "submitted"}
  BY DEF TransferInv, PayInv, Sendings
<1>3. TransferTypeOK
  BY <1>1, <1>2 DEF TransferInv, FormInv, PayInv, TransferTypeOK
<1>4. CardNamesRecipient
  BY DEF TransferInv, FormInv, CardNamesRecipient, Card, Summary, Details, DisplayUser
<1>5. FeeIsCurrent
  BY DEF TransferInv, FeeInv, FeeIsCurrent, Card, Summary
<1> QED
  BY <1>3, <1>4, <1>5 DEF TransferInv, PayInv

-----------------------------------------------------------------------------
(***************************************************************************)
(* The home screen.                                                        *)
(***************************************************************************)

\* A fetch on the wire is of a request that was made.
YieldHomeInv ==
    /\ yieldRequest \in 1..MaxLoads /\ yieldOf \in 0..MaxLoads /\ balanceOf \in 0..MaxLoads
    /\ yieldCalls \subseteq [id : 1..MaxLoads, waits : BOOLEAN]
    /\ yieldStatus \in {"loading", "success", "error"} /\ sheet \in {"closed", "open", "closing"}
    /\ refreshing \in {"none", "feed", "yield"}
    /\ YieldIsLatest
CardInv == currency \in {"NGN", "XLM"}

LEMMA YieldHomeStarts == ASSUME YieldHomeInit PROVE YieldHomeInv
BY FeedIsSorted DEF YieldHomeInit, YieldHomeInv, YieldIsLatest

LEMMA YieldHomeRests == ASSUME YieldHomeInv, UNCHANGED yieldHomeVars PROVE YieldHomeInv'
BY DEF YieldHomeInv, YieldIsLatest, yieldHomeVars

LEMMA YieldHomeStep == ASSUME YieldHomeInv, YieldHomeNext PROVE YieldHomeInv'
<1>1. ASSUME NEW c \in yieldCalls, YieldAnswered(c) \/ YieldFails(c) \/ YieldTimesOut(c)
      PROVE  YieldHomeInv'
  <2>1. c.id \in 1..MaxLoads /\ c \in [id : 1..MaxLoads, waits : BOOLEAN]
    BY DEF YieldHomeInv
  <2>2. yieldCalls' \subseteq [id : 1..MaxLoads, waits : BOOLEAN]
    <3>1. [c EXCEPT !.waits = FALSE] \in [id : 1..MaxLoads, waits : BOOLEAN]
      BY <2>1
    <3> QED
      BY <1>1, <3>1 DEF YieldHomeInv, YieldAnswered, YieldFails, YieldTimesOut
  <2>3. /\ yieldRequest' = yieldRequest /\ sheet' = sheet
        /\ balanceOf' \in {balanceOf, c.id}
        /\ \/ UNCHANGED <<yieldStatus, yieldOf>>
           \/ yieldStatus' = "error" /\ yieldOf' = yieldOf
           \/ yieldStatus' = "success" /\ yieldOf' = c.id /\ c.id = yieldRequest
        /\ refreshing' \in {refreshing, "none"}
    BY <1>1 DEF YieldAnswered, YieldFails, YieldTimesOut, Settle, Refreshed, IsLatest, sheetVars
  <2> QED
    BY <2>1, <2>2, <2>3 DEF YieldHomeInv, YieldIsLatest
<1>2. CASE HandleYieldRetry \/ PulledFeedRead
  <2>1. [id |-> yieldRequest + 1, waits |-> TRUE] \in [id : 1..MaxLoads, waits : BOOLEAN]
    BY <1>2, FeedIsSorted DEF HandleYieldRetry, PulledFeedRead, LoadYieldData, YieldHomeInv
  <2>2. yieldCalls' \subseteq [id : 1..MaxLoads, waits : BOOLEAN]
    BY <1>2, <2>1 DEF HandleYieldRetry, PulledFeedRead, LoadYieldData, YieldHomeInv
  <2> QED
    BY <1>2, <2>2, FeedIsSorted
       DEF HandleYieldRetry, PulledFeedRead, LoadYieldData, sheetVars, YieldHomeInv, YieldIsLatest
<1>3. CASE \/ OnPullRefresh \/ HandleAutoYieldToggle \/ OpenEarningsModal \/ CloseEarningsModal
           \/ OpenAutoEarnDesc \/ \E c \in autoCalls : AutoEarnSaved(c)
  BY <1>3 DEF OnPullRefresh, HandleAutoYieldToggle, OpenEarningsModal, CloseEarningsModal, OpenAutoEarnDesc,
     AutoEarnSaved, loadVars, sheetVars, YieldHomeInv, YieldIsLatest
<1> QED
  BY <1>1, <1>2, <1>3 DEF YieldHomeNext

LEMMA CardStarts == ASSUME CardInit PROVE CardInv
BY DEF CardInit, CardInv
LEMMA CardRests == ASSUME CardInv, UNCHANGED cardVars PROVE CardInv'
BY DEF CardInv, cardVars
LEMMA CardStep == ASSUME CardInv, CardNext PROVE CardInv'
BY DEF CardInv, CardNext, ToggleBalanceMask, ToggleCurrency, RestoreCurrency

Likes == [n : Nat, of : Payments, was : BOOLEAN]
Comments == [n : Nat, of : Payments, saved : BOOLEAN]

\* The list of comments is of the payment selected last, also when the drawer
\* is closed again.
FeedHomeInv ==
    /\ liked \in [Payments -> BOOLEAN] /\ counts \in [Payments -> Nat]
    /\ likeCalls \subseteq Likes /\ posts \in Nat
    /\ selected \in Payments \cup {NoPayment} /\ (drawer => selected \in Payments)
    /\ comments \subseteq Comments /\ \A m \in comments : m.of = selected
    /\ commentCalls \subseteq [n : Nat, of : Payments]

LEMMA FeedHomeStarts == ASSUME FeedHomeInit PROVE FeedHomeInv
BY DEF FeedHomeInit, FeedHomeInv

LEMMA FeedHomeRests == ASSUME FeedHomeInv, UNCHANGED feedHomeVars PROVE FeedHomeInv'
BY DEF FeedHomeInv, feedHomeVars

LEMMA FeedHomeStep == ASSUME FeedHomeInv, FeedHomeNext PROVE FeedHomeInv'
<1>1. CASE LoadFeed \/ PulledFeed \/ SelectFeedTab
  <2>1. liked' \in [Payments -> BOOLEAN] /\ counts' \in [Payments -> Nat]
    BY <1>1 DEF LoadFeed, PulledFeed, SelectFeedTab, FeedRead, FeedHomeInv
  <2> QED
    BY <1>1, <2>1 DEF LoadFeed, PulledFeed, SelectFeedTab, FeedHomeInv
<1>2. ASSUME NEW p \in Payments, HandleLike(p) PROVE FeedHomeInv'
  <2>1. [n |-> posts, of |-> p, was |-> liked[p]] \in Likes /\ posts' \in Nat
    BY <1>2 DEF HandleLike, FeedHomeInv, Likes
  <2>2. liked' \in [Payments -> BOOLEAN]
    BY <1>2 DEF HandleLike, FeedHomeInv
  <2> QED
    BY <1>2, <2>1, <2>2 DEF HandleLike, FeedHomeInv
<1>3. ASSUME NEW c \in likeCalls, LikeEnds(c) PROVE FeedHomeInv'
  <2>1. c.of \in Payments /\ c.was \in BOOLEAN
    BY DEF FeedHomeInv, Likes
  <2>2. liked' \in [Payments -> BOOLEAN]
    BY <1>3, <2>1 DEF LikeEnds, FeedHomeInv
  <2> QED
    BY <1>3, <2>2 DEF LikeEnds, FeedHomeInv
<1>4. ASSUME NEW p \in Payments, OpenComments(p) PROVE FeedHomeInv'
  BY <1>4 DEF OpenComments, ListEmptied, FeedHomeInv
<1>5. CASE CloseComments
  BY <1>5 DEF CloseComments, FeedHomeInv
<1>6. CASE SubmitComment
  <2>1. selected \in Payments /\ posts \in Nat /\ posts' = posts + 1
    BY <1>6 DEF SubmitComment, SendShown, FeedHomeInv
  <2>2. /\ [n |-> posts, of |-> selected, saved |-> FALSE] \in Comments
        /\ [n |-> posts, of |-> selected] \in [n : Nat, of : Payments]
    BY <2>1 DEF Comments
  <2>3. counts' \in [Payments -> Nat]
    BY <1>6, <2>1 DEF SubmitComment, FeedHomeInv
  <2>4. comments' \subseteq Comments /\ \A m \in comments' : m.of = selected'
    <3> DEFINE new == [n |-> posts, of |-> selected, saved |-> FALSE]
    <3>1. new.of = selected /\ new \in Comments
      BY <2>2
    <3> HIDE DEF new
    <3>2. comments' = comments \cup {new} /\ selected' = selected
      BY <1>6 DEF SubmitComment, new
    <3> QED
      BY <3>1, <3>2 DEF FeedHomeInv
  <2>5. commentCalls' \subseteq [n : Nat, of : Payments]
    BY <1>6, <2>2 DEF SubmitComment, FeedHomeInv
  <2> QED
    BY <1>6, <2>1, <2>3, <2>4, <2>5 DEF SubmitComment, FeedHomeInv
<1>7. ASSUME NEW c \in commentCalls, CommentSaved(c) PROVE FeedHomeInv'
  <2>1. ASSUME NEW m \in comments
        PROVE  [m EXCEPT !.saved = TRUE] \in Comments /\ [m EXCEPT !.saved = TRUE].of = selected
    <3>1. m \in Comments /\ m.of = selected
      BY DEF FeedHomeInv
    <3> QED
      BY <3>1 DEF Comments
  <2>2. comments' \subseteq Comments /\ \A m \in comments' : m.of = selected'
    BY <1>7, <2>1 DEF CommentSaved, FeedHomeInv
  <2> QED
    BY <1>7, <2>2 DEF CommentSaved, FeedHomeInv
<1>8. ASSUME NEW c \in commentCalls, CommentFails(c) PROVE FeedHomeInv'
  <2>1. counts' \in [Payments -> Nat]
    BY <1>8 DEF CommentFails, LessOne, FeedHomeInv
  <2> QED
    BY <1>8, <2>1 DEF CommentFails, FeedHomeInv
<1> QED
  BY <1>1, <1>2, <1>3, <1>4, <1>5, <1>6, <1>7, <1>8 DEF FeedHomeNext

LEMMA HomeShows ==
    ASSUME YieldHomeInv, CardInv, FeedHomeInv
    PROVE  HomeTypeOK /\ YieldIsLatest /\ DrawerIsOfItem
BY DEF YieldHomeInv, CardInv, FeedHomeInv, HomeTypeOK, DrawerIsOfItem

-----------------------------------------------------------------------------
(***************************************************************************)
(* Lists.  What the filter of a list computes is shown without induction,  *)
(* by looking at a smallest index that would be an exception.              *)
(***************************************************************************)

LEMMA Smallest ==
    ASSUME NEW B, B \subseteq Nat, B # {}
    PROVE  \E n \in B : \A m \in B : n <= m
<1>1. PICK n \in B : \A m \in B : ~ (<<m, n>> \in OpToRel(<, Nat))
  BY NatLessThanWellFounded, WFMin
<1>2. ASSUME NEW m \in B PROVE n <= m
  <2>1. ~ (m < n)
    BY <1>1 DEF OpToRel
  <2> QED
    BY <2>1
<1> QED
  BY <1>2

\* g filters the first n members of a list.
IsFilter(g, list, S, n) ==
    g = [i \in 0..n |-> IF i = 0 THEN <<>>
                        ELSE IF list[i] \in S THEN Append(g[i - 1], list[i]) ELSE g[i - 1]]
\* The recursive function of the filter.
Sifts(list, S) == CHOOSE g : IsFilter(g, list, S, Len(list))

LEMMA FilterIsChoice ==
    ASSUME NEW list, NEW S
    PROVE  Filter(list, S) = Sifts(list, S)[Len(list)]
BY DEF Filter, Sifts, IsFilter

LEMMA FilterExists ==
    ASSUME NEW list, NEW S, Len(list) \in Nat
    PROVE  IsFilter(Sifts(list, S), list, S, Len(list))
<1> DEFINE B == {n \in Nat : \A g : ~IsFilter(g, list, S, n)}
<1>1. B = {}
  <2> SUFFICES ASSUME B # {} PROVE FALSE
    OBVIOUS
  <2>1. PICK n \in B : \A m \in B : n <= m
    <3> HIDE DEF B
    <3>1. B \subseteq Nat
      BY DEF B
    <3> QED
      BY <3>1, Smallest
  <2>2. n \in Nat /\ \A g : ~IsFilter(g, list, S, n)
    BY <2>1
  <2>3. CASE n = 0
    <3> DEFINE h == [i \in 0..0 |-> <<>>]
    <3>1. IsFilter(h, list, S, 0)
      BY DEF IsFilter
    <3> QED
      BY <2>2, <2>3, <3>1
  <2>4. CASE n > 0
    <3>1. n - 1 \in Nat /\ n - 1 \notin B
      BY <2>1, <2>2, <2>4
    <3>2. PICK g : IsFilter(g, list, S, n - 1)
      BY <3>1
    <3> DEFINE h == [i \in 0..n |-> IF i = n THEN (IF list[n] \in S THEN Append(g[n - 1], list[n]) ELSE g[n - 1])
                                    ELSE g[i]]
    <3>3. ASSUME NEW i \in 0..n
          PROVE  h[i] = IF i = 0 THEN <<>>
                        ELSE IF list[i] \in S THEN Append(h[i - 1], list[i]) ELSE h[i - 1]
      <4>1. CASE i = n
        <5>1. h[n - 1] = g[n - 1]
          BY <2>2, <2>4
        <5> QED
          BY <2>4, <4>1, <5>1
      <4>2. CASE i # n
        <5>1. i \in 0..(n - 1) /\ h[i] = g[i] /\ (i # 0 => h[i - 1] = g[i - 1])
          BY <2>2, <4>2
        <5>2. g[i] = IF i = 0 THEN <<>>
                     ELSE IF list[i] \in S THEN Append(g[i - 1], list[i]) ELSE g[i - 1]
          BY <3>2, <5>1 DEF IsFilter
        <5> QED
          BY <5>1, <5>2
      <4> QED
        BY <4>1, <4>2
    <3>4. IsFilter(h, list, S, n)
      BY <3>3 DEF IsFilter
    <3> QED
      BY <2>2, <3>4
  <2> QED
    BY <2>2, <2>3, <2>4
<1>2. \E g : IsFilter(g, list, S, Len(list))
  BY <1>1
<1> QED
  BY <1>2 DEF Sifts

LEMMA FilterAt ==
    ASSUME NEW list, NEW S, NEW g, NEW n \in Nat, IsFilter(g, list, S, n), NEW i \in 0..n
    PROVE  g[i] = IF i = 0 THEN <<>>
                  ELSE IF list[i] \in S THEN Append(g[i - 1], list[i]) ELSE g[i - 1]
BY DEF IsFilter

\* A sequence without repetition.
Listing == {s \in Seq(1..Count) : \A i, j \in 1..Len(s) : s[i] = s[j] => i = j}

\* The transactions a filter lets through are listed once each.
LEMMA FilteredLists == ASSUME NEW f PROVE Filtered(f) \in Listing
<1> DEFINE S == LetThrough(f)
           g == Sifts(AllTransactions, S)
           Good(s, n) == /\ s \in Seq(1..Count) /\ \A i \in 1..Len(s) : s[i] <= n
                         /\ \A i, j \in 1..Len(s) : s[i] = s[j] => i = j
           B == {n \in 0..Count : ~Good(g[n], n)}
<1>1. Len(AllTransactions) = Count /\ Count \in Nat /\ \A i \in 1..Count : AllTransactions[i] = i
  BY HistoryConstants DEF AllTransactions
<1>2. IsFilter(g, AllTransactions, S, Count)
  <2> HIDE DEF S
  <2> QED
    BY <1>1, FilterExists
<1> HIDE DEF S, g
<1>3. B = {}
  <2> SUFFICES ASSUME B # {} PROVE FALSE
    OBVIOUS
  <2>1. PICK n \in B : \A m \in B : n <= m
    <3> HIDE DEF B
    <3>1. B \subseteq Nat
      BY <1>1 DEF B
    <3> QED
      BY <3>1, Smallest
  <2>2. n \in 0..Count /\ ~Good(g[n], n)
    BY <2>1
  <2>3. n # 0
    <3>1. g[0] = <<>>
      BY <1>1, <1>2, FilterAt
    <3>2. Good(<<>>, 0)
      OBVIOUS
    <3> QED
      BY <2>2, <3>1, <3>2
  <2>4. n - 1 \in 0..Count /\ n - 1 \notin B
    <3>1. n - 1 \in 0..Count /\ ~(n <= n - 1)
      BY <1>1, <2>2, <2>3
    <3> HIDE DEF B
    <3> QED
      BY <2>1, <3>1
  <2>5. Good(g[n - 1], n - 1)
    BY <2>4
  <2>6. g[n] = IF n \in S THEN Append(g[n - 1], n) ELSE g[n - 1]
    BY <1>1, <1>2, <2>2, <2>3, FilterAt
  <2> DEFINE s == g[n - 1]
             t == Append(s, n)
  <2>7. Good(t, n)
    <3>0. s \in Seq(1..Count) /\ \A i \in 1..Len(s) : s[i] <= n - 1
      BY <2>5
    <3> HIDE DEF s
    <3>1. s \in Seq(1..Count) /\ n \in 1..Count
      BY <1>1, <2>2, <2>3, <3>0
    <3>2. /\ t \in Seq(1..Count) /\ Len(t) = Len(s) + 1 /\ Len(s) \in Nat
          /\ \A i \in 1..Len(s) : t[i] = s[i]
          /\ t[Len(s) + 1] = n
      BY <3>1
    <3> HIDE DEF t
    <3>3. \A i \in 1..Len(s) : s[i] <= n - 1 /\ s[i] \in 1..Count
      <4>1. \A i \in 1..Len(s) : s[i] \in 1..Count
        BY <3>1, ElementOfSeq
      <4> QED
        BY <3>0, <4>1
    <3>4. \A i, j \in 1..Len(s) : s[i] = s[j] => i = j
      BY <2>5 DEF s
    <3>5. ASSUME NEW i \in 1..Len(t) PROVE t[i] <= n
      <4>1. CASE i = Len(s) + 1
        BY <3>1, <3>2, <4>1
      <4>2. CASE i \in 1..Len(s)
        BY <1>1, <3>1, <3>2, <3>3, <4>2
      <4> QED
        BY <3>2, <4>1, <4>2
    <3>6. ASSUME NEW i \in 1..Len(t), NEW j \in 1..Len(t), t[i] = t[j] PROVE i = j
      <4>1. \A k \in 1..Len(s) : t[k] # n
        BY <1>1, <3>1, <3>2, <3>3
      <4>2. CASE i = Len(s) + 1
        BY <3>2, <3>6, <4>1, <4>2
      <4>3. CASE j = Len(s) + 1
        BY <3>2, <3>6, <4>1, <4>3
      <4>4. CASE i \in 1..Len(s) /\ j \in 1..Len(s)
        BY <3>2, <3>4, <3>6, <4>4
      <4> QED
        BY <3>2, <4>2, <4>3, <4>4
    <3> QED
      BY <3>2, <3>5, <3>6
  <2>8. Good(g[n - 1], n)
    BY <1>1, <2>2, <2>5
  <2> QED
    BY <2>2, <2>6, <2>7, <2>8
<1>4. Good(g[Count], Count)
  BY <1>1, <1>3
<1>5. Filtered(f) = g[Count]
  BY <1>1, FilterIsChoice DEF Filtered, g, S
<1> QED
  BY <1>4, <1>5 DEF Listing

\* items is the beginning of a list.
Begins(s, F) == s \in Seq(1..Count) /\ Len(s) <= Len(F) /\ \A i \in 1..Len(s) : s[i] = F[i]

\* Appending a page of a list to a beginning that reaches it gives a beginning,
\* which reaches as far as either did.
LEMMA AppendedBegins ==
    ASSUME NEW F \in Listing, NEW s, Begins(s, F), NEW k \in 0..Len(s), NEW e \in k..Len(F)
    PROVE  /\ Begins(Appended(s, SubSeq(F, k + 1, e)), F)
           /\ e <= Len(Appended(s, SubSeq(F, k + 1, e))) /\ Len(s) <= Len(Appended(s, SubSeq(F, k + 1, e)))
<1> DEFINE m == Len(s)
           more == SubSeq(F, k + 1, e)
           S == 1..Count \ {s[i] : i \in DOMAIN s}
           g == Sifts(more, S)
           Size(j) == IF k + j <= m THEN 0 ELSE k + j - m
           Good(t, j) == /\ t \in Seq(1..Count) /\ Len(t) = Size(j)
                         /\ \A i \in 1..Len(t) : t[i] = F[m + i]
           B == {j \in 0..(e - k) : ~Good(g[j], j)}
<1>0. F \in Seq(1..Count) /\ s \in Seq(1..Count) /\ Len(F) \in Nat /\ m \in Nat
  BY DEF Listing, Begins
<1>1. /\ m <= Len(F) /\ k \in 0..m /\ e \in k..Len(F) /\ k \in Nat /\ e \in Nat /\ e - k \in Nat
      /\ F \in Seq(1..Count) /\ Len(F) \in Nat /\ m \in Nat
      /\ \A i, j \in 1..Len(F) : F[i] = F[j] => i = j
      /\ \A i \in 1..Len(F) : F[i] \in 1..Count
  <2>1. \A i \in 1..Len(F) : F[i] \in 1..Count
    BY <1>0, ElementOfSeq
  <2>2. \A i, j \in 1..Len(F) : F[i] = F[j] => i = j
    BY DEF Listing
  <2>3. m <= Len(F)
    BY DEF Begins
  <2>4. k \in Nat /\ e \in Nat /\ e - k \in Nat
    BY <1>0
  <2> QED
    BY <1>0, <2>1, <2>2, <2>3, <2>4
<1>2. /\ more \in Seq(1..Count) /\ Len(more) = e - k /\ \A j \in 1..(e - k) : more[j] = F[k + j]
  BY <1>1
<1>3. \A i \in 1..Len(F) : F[i] \in S <=> i > m
  <2>1. s \in Seq(1..Count) /\ \A i \in 1..m : s[i] = F[i]
    BY DEF Begins
  <2>2. {s[i] : i \in DOMAIN s} = {F[i] : i \in 1..m}
    BY <2>1
  <2> SUFFICES ASSUME NEW i \in 1..Len(F) PROVE F[i] \in S <=> i > m
    OBVIOUS
  <2>3. CASE i <= m
    <3>1. i \in 1..m
      BY <1>1, <2>3
    <3>2. F[i] \notin S
      BY <2>2, <3>1
    <3>3. ~(i > m)
      BY <1>1, <2>3
    <3> QED
      BY <3>2, <3>3
  <2>4. CASE i > m
    <3>1. \A j \in 1..m : F[j] # F[i]
      BY <1>1, <2>4
    <3> QED
      BY <1>1, <2>2, <2>4, <3>1
  <2> QED
    BY <1>1, <2>3, <2>4
<1>4. IsFilter(g, more, S, e - k)
  <2> HIDE DEF S, more
  <2> QED
    BY <1>1, <1>2, FilterExists
<1>5. Filter(more, S) = g[e - k]
  BY <1>2, FilterIsChoice
<1> HIDE DEF more, S, g, m
<1>6. B = {}
  <2> SUFFICES ASSUME B # {} PROVE FALSE
    OBVIOUS
  <2>1. PICK n \in B : \A j \in B : n <= j
    <3> HIDE DEF B
    <3>1. B \subseteq Nat
      BY <1>1 DEF B
    <3> QED
      BY <3>1, Smallest
  <2>2. n \in 0..(e - k) /\ ~Good(g[n], n) /\ e - k \in Nat
    BY <1>1, <2>1
  <2>3. n # 0
    <3>1. g[0] = <<>>
      BY <1>4, <2>2, FilterAt
    <3>2. Good(<<>>, 0)
      BY <1>1
    <3> QED
      BY <2>2, <3>1, <3>2
  <2>4. n - 1 \in 0..(e - k) /\ n - 1 \notin B
    <3>1. n - 1 \in 0..(e - k) /\ ~(n <= n - 1)
      BY <1>1, <2>2, <2>3
    <3> HIDE DEF B
    <3> QED
      BY <2>1, <3>1
  <2>5. Good(g[n - 1], n - 1)
    BY <2>4
  <2>6. n \in 1..(e - k) /\ k + n \in 1..Len(F) /\ more[n] = F[k + n]
    BY <1>1, <1>2, <2>2, <2>3
  <2>7. g[n] = IF F[k + n] \in S THEN Append(g[n - 1], F[k + n]) ELSE g[n - 1]
    BY <1>4, <2>2, <2>3, <2>6, FilterAt
  <2> DEFINE t == g[n - 1]
             u == Append(t, F[k + n])
  <2>8. t \in Seq(1..Count) /\ Len(t) = Size(n - 1) /\ \A i \in 1..Len(t) : t[i] = F[m + i]
    BY <2>5
  <2> HIDE DEF t
  <2>9. CASE k + n <= m
    <3>1. g[n] = t
      BY <1>3, <2>6, <2>7, <2>9, <1>1 DEF t
    <3>2. Size(n) = 0 /\ Size(n - 1) = 0
      BY <1>1, <2>2, <2>9
    <3> HIDE DEF Size
    <3> QED
      BY <2>2, <2>8, <3>1, <3>2
  <2>10. CASE k + n > m
    <3>1. g[n] = u
      BY <1>3, <2>6, <2>7, <2>10 DEF t
    <3>2. Size(n) = k + n - m /\ Size(n - 1) = k + n - m - 1 /\ m + Size(n) = k + n
      BY <1>1, <2>2, <2>3, <2>10
    <3> HIDE DEF Size
    <3>3. /\ u \in Seq(1..Count) /\ Len(u) = Len(t) + 1 /\ Len(t) \in Nat
          /\ \A i \in 1..Len(t) : u[i] = t[i]
          /\ u[Len(t) + 1] = F[k + n]
      <4>1. F[k + n] \in 1..Count /\ t \in Seq(1..Count) /\ Len(t) \in Nat
        BY <1>1, <2>6, <2>8
      <4> HIDE DEF Good
      <4> QED
        BY <4>1, AppendProperties
    <3>4. Len(u) = Size(n)
      BY <1>1, <2>2, <2>8, <3>2, <3>3
    <3>5. ASSUME NEW i \in 1..Len(u) PROVE u[i] = F[m + i]
      <4>1. CASE i = Len(t) + 1
        BY <3>2, <3>3, <3>4, <4>1
      <4>2. CASE i \in 1..Len(t)
        BY <2>8, <3>3, <4>2
      <4>3. i \in 1..Len(t) \/ i = Len(t) + 1
        <5> HIDE DEF u
        <5> QED
          BY <3>3
      <4> QED
        BY <4>1, <4>2, <4>3
    <3> HIDE DEF u
    <3> QED
      BY <2>2, <3>1, <3>3, <3>4, <3>5
  <2> QED
    BY <1>1, <2>2, <2>9, <2>10
<1>7. Good(g[e - k], e - k)
  <2>1. e - k \in 0..(e - k)
    BY <1>1
  <2> QED
    BY <1>6, <2>1
<1> DEFINE r == g[e - k]
<1>8. r \in Seq(1..Count) /\ Len(r) = (IF e <= m THEN 0 ELSE e - m) /\ \A i \in 1..Len(r) : r[i] = F[m + i]
  BY <1>1, <1>7
<1>9. Appended(s, SubSeq(F, k + 1, e)) = s \o r
  BY <1>5 DEF Appended, more, S
<1> HIDE DEF r
<1>10. /\ s \o r \in Seq(1..Count) /\ Len(s \o r) = m + Len(r)
       /\ \A i \in 1..(m + Len(r)) : (s \o r)[i] = IF i <= m THEN s[i] ELSE r[i - m]
  <2>1. s \in Seq(1..Count) /\ m = Len(s) /\ m \in Nat /\ Len(r) \in Nat
    BY <1>0, <1>8 DEF m
  <2> QED
    BY <1>8, <2>1, ConcatProperties
<1>11. ASSUME NEW i \in 1..(m + Len(r)) PROVE (s \o r)[i] = F[i]
  <2>1. CASE i <= m
    BY <1>1, <1>10, <2>1 DEF Begins, m
  <2>2. CASE i > m
    <3>1. i - m \in 1..Len(r) /\ m + (i - m) = i
      BY <1>1, <1>8, <2>2
    <3> QED
      <4>1. ~(i <= m)
        BY <1>1, <1>8, <2>2
      <4> QED
        BY <1>8, <1>10, <3>1, <4>1
  <2>3. i <= m \/ i > m
    BY <1>1, <1>8
  <2> QED
    BY <2>1, <2>2, <2>3
<1>12. m + Len(r) <= Len(F) /\ e <= m + Len(r) /\ m <= m + Len(r)
  BY <1>1, <1>8
<1> QED
  BY <1>9, <1>10, <1>11, <1>12 DEF Begins, m

\* A page starts after its cursor, or at the top, and its own cursor is where
\* it ends.
FollowsOn(F, k, p) == \E e \in k..Len(F) : /\ p.items = SubSeq(F, k + 1, e)
                                           /\ p.next = 0 \/ (e > 0 /\ p.next = F[e])

LEMMA PageFollows ==
    ASSUME NEW f, NEW F, F = Filtered(f), NEW k \in 0..Len(F),
           NEW c, (k = 0 /\ c = 0) \/ (k # 0 /\ c = F[k])
    PROVE  FollowsOn(F, k, Page(f, c))
<1>1. /\ F \in Seq(1..Count) /\ Len(F) \in Nat /\ DOMAIN F = 1..Len(F)
      /\ \A i, j \in 1..Len(F) : F[i] = F[j] => i = j
      /\ \A i \in 1..Len(F) : F[i] \in 1..Count
  <2>1. F \in Seq(1..Count) /\ \A i, j \in 1..Len(F) : F[i] = F[j] => i = j
    BY FilteredLists DEF Listing
  <2>2. \A i \in 1..Len(F) : F[i] \in 1..Count
    BY <2>1, ElementOfSeq
  <2> QED
    BY <2>1, <2>2
<1> DEFINE at == {i \in DOMAIN F : F[i] = c}
           start == IF at = {} THEN 0 ELSE CHOOSE i \in at : TRUE
           e == PageEnd(start, Len(F))
<1>2. start = k
  <2>1. CASE k = 0
    <3>1. at = {}
      BY <1>1, <2>1, HistoryConstants
    <3> QED
      BY <2>1, <3>1
  <2>2. CASE k # 0
    <3>1. at = {k}
      BY <1>1, <2>2
    <3> QED
      BY <3>1
  <2> QED
    BY <2>1, <2>2
<1>3. /\ Page(f, c).items = SubSeq(F, start + 1, e)
      /\ Page(f, c).next = IF start + PageSize < Len(F) THEN F[e] ELSE 0
  BY DEF Page
<1> HIDE DEF start
<1>4. e \in k..Len(F) /\ (start + PageSize < Len(F) => e > 0)
  <2>1. k \in Nat /\ k <= Len(F) /\ PageSize \in Nat /\ PageSize > 0
    BY <1>1, HistoryConstants
  <2>2. e = IF k + PageSize < Len(F) THEN k + PageSize ELSE Len(F)
    BY <1>2 DEF PageEnd
  <2> HIDE DEF e
  <2>3. CASE k + PageSize < Len(F)
    BY <1>1, <1>2, <2>1, <2>2, <2>3
  <2>4. CASE ~(k + PageSize < Len(F))
    BY <1>1, <1>2, <2>1, <2>2, <2>4
  <2> QED
    BY <2>3, <2>4
<1> HIDE DEF e
<1> QED
  BY <1>2, <1>3, <1>4 DEF FollowsOn

-----------------------------------------------------------------------------
(***************************************************************************)
(* The history screen.                                                     *)
(***************************************************************************)

\* A transaction of the list, from which a page is asked for.
Reached(c) == \E k \in 1..Len(items) : items[k] = c

\* The list is one of the present filters: it is shown, or a reading that
\* began on it is on the wire.
ListCurrent == (~loading /\ ~historyError) \/ \E l \in loads : l.kind # "reload"

\* A user who waits has one reading on the wire, or several for more, and none
\* while the timer of the search runs; all are for the present filters.
LoadsInv ==
    /\ \A l \in loads : l.kind \in {"reload", "refresh", "more"} /\ l.of = filters
    /\ \A l \in loads : l.kind # "more" => loads = {l} /\ l.from = 0
    /\ \A l \in loads : l.kind = "more" => Reached(l.from)
    /\ loading <=> \E l \in loads : l.kind = "reload"
    /\ historyTimer # {} => loads = {}

HistoryInv ==
    /\ items \in Seq(1..Count) /\ cursor \in 0..Count /\ hasMore \in BOOLEAN
    /\ filters \in Filters /\ draft \in Filters /\ historyTimer \subseteq Filters
    /\ searchText \in {"none", "some"} /\ activeFilters = filters
    /\ loading \in BOOLEAN /\ pulling \in BOOLEAN /\ loadingMore \in BOOLEAN /\ historyError \in BOOLEAN
    /\ LoadsInv
    /\ ListCurrent => Begins(items, Filtered(filters)) /\ (cursor = 0 \/ Reached(cursor))

LEMMA HistoryStarts == ASSUME HistoryInit PROVE HistoryInv
<1>1. DefaultFilters \in Filters
  BY DEF DefaultFilters, Filters
<1> DEFINE l == [n |-> 0, kind |-> "reload", of |-> DefaultFilters, from |-> 0]
<1>2. l.kind = "reload" /\ l.of = DefaultFilters /\ l.from = 0
  OBVIOUS
<1> HIDE DEF l
<1>3. loads = {l}
  BY DEF HistoryInit, l
<1>4. loading = TRUE /\ loading \in BOOLEAN /\ pulling \in BOOLEAN /\ loadingMore \in BOOLEAN
      /\ historyError \in BOOLEAN /\ hasMore \in BOOLEAN
  BY DEF HistoryInit
<1>5. LoadsInv
  BY <1>2, <1>3, <1>4 DEF HistoryInit, LoadsInv
<1>6. ~ListCurrent
  BY <1>2, <1>3, <1>4 DEF ListCurrent
<1> QED
  BY <1>1, <1>4, <1>5, <1>6, HistoryConstants DEF HistoryInit, HistoryInv

LEMMA HistoryRests == ASSUME HistoryInv, UNCHANGED historyVars PROVE HistoryInv'
<1>1. Filtered(filters)' = Filtered(filters)
  BY DEF historyVars, Filtered, LetThrough, AllTransactions
<1> QED
  BY <1>1 DEF HistoryInv, LoadsInv, Reached, ListCurrent, historyVars

\* Steps that neither read nor change the filters.
LEMMA SheetKeeps ==
    ASSUME HistoryInv, UNCHANGED <<listVars, filters>>, draft' \in Filters,
           searchText' \in {"none", "some"}, historyTimer' \subseteq Filters,
           historyTimer' # {} => loads = {}
    PROVE  HistoryInv'
<1>1. Filtered(filters)' = Filtered(filters)
  BY DEF Filtered, LetThrough, AllTransactions
<1> QED
  BY <1>1 DEF HistoryInv, LoadsInv, Reached, ListCurrent, listVars

\* Other filters, or the same again, when no reading is on the wire.
LEMMA ReloadKeeps ==
    ASSUME HistoryInv, loads = {}, NEW f \in Filters, Reload(f), filters' = f,
           draft' \in Filters, searchText' \in {"none", "some"}, historyTimer' = {}
    PROVE  HistoryInv'
<1> DEFINE l == Call("reload", f, 0)
<1>1. l.kind = "reload" /\ l.of = f /\ l.from = 0
  BY DEF Call
<1> HIDE DEF l
<1>2. /\ loads' = {l} /\ activeFilters' = f /\ cursor' = 0 /\ UNCHANGED <<items, pulling, loadingMore, historyError>>
  BY DEF Reload, l
<1>3. hasMore' \in BOOLEAN /\ loading' \in BOOLEAN /\ loading'
  BY DEF Reload
<1>4. LoadsInv'
  BY <1>1, <1>2, <1>3 DEF LoadsInv
<1>5. ~ListCurrent'
  BY <1>1, <1>2, <1>3 DEF ListCurrent
<1> QED
  BY <1>2, <1>3, <1>4, <1>5, HistoryConstants DEF HistoryInv

LEMMA RefreshKeeps == ASSUME HistoryInv, ~OverlapLoads, Refresh PROVE HistoryInv'
<1> DEFINE l == Call("refresh", activeFilters, 0)
<1>1. l.kind = "refresh" /\ l.of = filters /\ l.from = 0
  BY DEF Call, HistoryInv
<1> HIDE DEF l
<1>2. /\ loads = {} /\ historyTimer = {} /\ loads' = {l} /\ cursor' = 0 /\ ~loading /\ ~historyError
      /\ UNCHANGED <<items, filters, activeFilters, loading, loadingMore, historyError, filterVars>>
  BY DEF Refresh, Waited, ListShown, l
<1>3. hasMore' \in BOOLEAN /\ pulling' \in BOOLEAN
  BY DEF Refresh
<1>4. LoadsInv'
  BY <1>1, <1>2 DEF LoadsInv, filterVars
<1>5. Begins(items, Filtered(filters)) /\ Begins(items', Filtered(filters'))
  BY <1>2 DEF HistoryInv, ListCurrent
<1> QED
  BY <1>2, <1>3, <1>4, <1>5, HistoryConstants DEF HistoryInv, filterVars

LEMMA LoadMoreKeeps == ASSUME HistoryInv, ~OverlapLoads, LoadMore PROVE HistoryInv'
<1> DEFINE l == Call("more", activeFilters, cursor)
<1>1. l.kind = "more" /\ l.of = filters /\ l.from = cursor
  BY DEF Call, HistoryInv
<1> HIDE DEF l
<1>2. /\ historyTimer = {} /\ loads' = loads \cup {l} /\ ~loading /\ ~historyError /\ cursor # 0
      /\ \A k \in loads : k.kind = "more"
      /\ UNCHANGED <<items, cursor, hasMore, filters, activeFilters, loading, pulling, historyError, filterVars>>
  BY DEF LoadMore, ListShown, l
<1>3. loadingMore' \in BOOLEAN
  BY DEF LoadMore
<1>4. Begins(items, Filtered(filters)) /\ Reached(cursor)
  BY <1>2 DEF HistoryInv, ListCurrent
<1>5. LoadsInv'
  BY <1>1, <1>2, <1>4 DEF HistoryInv, LoadsInv, Reached, filterVars
<1>6. Begins(items', Filtered(filters')) /\ Reached(cursor)'
  BY <1>2, <1>4 DEF Reached
<1> QED
  BY <1>2, <1>3, <1>5, <1>6 DEF HistoryInv, filterVars

LEMMA LoadFailsKeeps == ASSUME HistoryInv, NEW l \in loads, LoadFails(l) PROVE HistoryInv'
<1>1. /\ loads' = loads \ {l} /\ historyError' = TRUE
      /\ UNCHANGED <<items, cursor, hasMore, filters, activeFilters, filterVars>>
  BY DEF LoadFails
<1>2. /\ loading' = (loading /\ l.kind # "reload") /\ loading' \in BOOLEAN /\ pulling' \in BOOLEAN
      /\ loadingMore' \in BOOLEAN /\ historyError' \in BOOLEAN
  BY DEF LoadFails, FlagsAfter, HistoryInv
<1>3. LoadsInv'
  BY <1>1, <1>2 DEF HistoryInv, LoadsInv, Reached, filterVars
<1>4. ListCurrent' => ListCurrent
  BY <1>1 DEF ListCurrent
<1>5. ListCurrent' => Begins(items', Filtered(filters')) /\ (cursor' = 0 \/ Reached(cursor)')
  BY <1>1, <1>4 DEF HistoryInv, Reached
<1> QED
  BY <1>1, <1>2, <1>3, <1>5 DEF HistoryInv, filterVars

LEMMA LoadAnsweredKeeps == ASSUME HistoryInv, NEW l \in loads, LoadAnswered(l) PROVE HistoryInv'
<1> DEFINE page == Page(l.of, l.from)
<1>1. /\ loads' = loads \ {l} /\ cursor' = page.next /\ historyError' = FALSE
      /\ items' = IF l.kind = "more" THEN Appended(items, page.items) ELSE page.items
      /\ UNCHANGED <<filters, activeFilters, filterVars>>
  BY DEF LoadAnswered
<1>2. /\ loading' = (loading /\ l.kind # "reload") /\ loading' \in BOOLEAN /\ pulling' \in BOOLEAN
      /\ loadingMore' \in BOOLEAN /\ historyError' \in BOOLEAN /\ hasMore' \in BOOLEAN
  BY DEF LoadAnswered, FlagsAfter, HistoryInv
<1>3. l.of = filters /\ l.kind \in {"reload", "refresh", "more"}
  BY DEF HistoryInv, LoadsInv
<1>4. PICK F : F \in Listing /\ F = Filtered(filters)
  BY FilteredLists
<1>5. F \in Seq(1..Count) /\ Len(F) \in Nat /\ \A i \in 1..Len(F) : F[i] \in 1..Count
  <2>1. F \in Seq(1..Count)
    BY <1>4 DEF Listing
  <2>2. \A i \in 1..Len(F) : F[i] \in 1..Count
    BY <2>1, ElementOfSeq
  <2> QED
    BY <2>1, <2>2
<1> HIDE DEF page
\* The list begins F and reaches as far as before and as its cursor.
<1>6. /\ Begins(items', F) /\ (cursor' = 0 \/ \E k \in 1..Len(items') : items'[k] = cursor')
      /\ l.kind = "more" => Len(items) <= Len(items') /\ \A k \in 1..Len(items) : items'[k] = items[k]
  <2>1. CASE l.kind = "more"
    <3>1. Begins(items, F) /\ Reached(l.from)
      BY <1>4, <2>1 DEF HistoryInv, LoadsInv, ListCurrent
    <3>2. PICK k \in 1..Len(items) : items[k] = l.from
      BY <3>1 DEF Reached
    <3>3. items \in Seq(1..Count) /\ Len(items) \in Nat /\ Len(items) <= Len(F) /\ F[k] = l.from
      BY <3>1, <3>2 DEF Begins
    <3>4. k \in 0..Len(F) /\ k \in 0..Len(items) /\ k # 0
      BY <1>5, <3>2, <3>3
    <3>5. PICK e \in k..Len(F) : page.items = SubSeq(F, k + 1, e) /\ (page.next = 0 \/ (e > 0 /\ page.next = F[e]))
      <4>1. F = Filtered(l.of) /\ ((k = 0 /\ l.from = 0) \/ (k # 0 /\ l.from = F[k]))
        BY <1>3, <1>4, <3>3, <3>4
      <4>2. FollowsOn(F, k, page)
        BY <3>4, <4>1, PageFollows DEF page
      <4> QED
        BY <4>2 DEF FollowsOn
    <3>6. Begins(items', F) /\ e <= Len(items') /\ Len(items) <= Len(items')
      BY <1>1, <1>4, <2>1, <3>1, <3>4, <3>5, AppendedBegins
    <3>7. items' \in Seq(1..Count) /\ Len(items') \in Nat /\ Len(items') <= Len(F)
          /\ \A i \in 1..Len(items') : items'[i] = F[i]
      BY <3>6 DEF Begins
    <3>8. \A i \in 1..Len(items) : items'[i] = items[i]
      BY <3>1, <3>3, <3>6, <3>7 DEF Begins
    <3>9. cursor' = 0 \/ (e \in 1..Len(items') /\ items'[e] = cursor')
      BY <1>1, <1>5, <3>3, <3>4, <3>5, <3>6, <3>7
    <3> QED
      BY <3>6, <3>8, <3>9
  <2>2. CASE l.kind # "more"
    <3>1. l.from = 0
      BY <2>2 DEF HistoryInv, LoadsInv
    <3>2. 0 \in 0..Len(F)
      BY <1>5
    <3>3. PICK e \in 0..Len(F) : page.items = SubSeq(F, 0 + 1, e) /\ (page.next = 0 \/ (e > 0 /\ page.next = F[e]))
      <4> DEFINE z == 0
      <4>1. F = Filtered(l.of) /\ z \in 0..Len(F) /\ ((z = 0 /\ l.from = 0) \/ (z # 0 /\ l.from = F[z]))
        BY <1>3, <1>4, <3>1, <3>2
      <4> HIDE DEF z
      <4>2. FollowsOn(F, z, page)
        BY <4>1, PageFollows DEF page
      <4> QED
        BY <4>2 DEF FollowsOn, z
    <3>4. items' = SubSeq(F, 1, e) /\ e \in Nat /\ e <= Len(F)
      BY <1>1, <1>5, <2>2, <3>3
    <3>5. \A i \in 1..e : F[i] \in 1..Count
      BY <1>5, <3>4
    <3>6. items' \in Seq(1..Count) /\ Len(items') = e /\ \A i \in 1..e : items'[i] = F[i]
      BY <1>5, <3>4, <3>5, SubSeqProperties
    <3>7. Begins(items', F)
      BY <3>4, <3>6 DEF Begins
    <3>8. cursor' = 0 \/ (e \in 1..Len(items') /\ items'[e] = cursor')
      BY <1>1, <3>3, <3>4, <3>6
    <3> QED
      BY <2>2, <3>7, <3>8
  <2> QED
    BY <2>1, <2>2
<1>7. LoadsInv'
  <2>1. ASSUME NEW m \in loads' PROVE m \in loads /\ l.kind = "more" /\ m.kind = "more"
    BY <1>1, <1>3, <2>1 DEF HistoryInv, LoadsInv
  <2>2. ASSUME NEW m \in loads' PROVE \E k \in 1..Len(items') : items'[k] = m.from
    <3>1. PICK k \in 1..Len(items) : items[k] = m.from
      BY <2>1 DEF HistoryInv, LoadsInv, Reached
    <3>2. k \in 1..Len(items') /\ items'[k] = items[k]
      <4>1. items \in Seq(1..Count) /\ items' \in Seq(1..Count)
        BY <1>6 DEF HistoryInv, Begins
      <4> QED
        BY <1>6, <2>1, <3>1, <4>1
    <3> QED
      BY <3>1, <3>2
  <2>3. ~loading' /\ \A m \in loads' : m.kind # "reload"
    <3>1. CASE l.kind = "reload"
      BY <1>2, <2>1, <3>1
    <3>2. CASE l.kind # "reload"
      BY <1>2, <2>1, <3>2, <1>3 DEF HistoryInv, LoadsInv
    <3> QED
      BY <3>1, <3>2
  <2>4. \A m \in loads' : m.kind = "more" /\ m.of = filters'
    BY <1>1, <2>1 DEF HistoryInv, LoadsInv
  <2>5. historyTimer' # {} => loads' = {}
    BY <1>1 DEF HistoryInv, LoadsInv, filterVars
  <2> QED
    BY <2>2, <2>3, <2>4, <2>5 DEF LoadsInv, Reached
<1>8. items' \in Seq(1..Count) /\ cursor' \in 0..Count
  <2>1. items' \in Seq(1..Count)
    BY <1>6 DEF Begins
  <2>2. \A k \in 1..Len(items') : items'[k] \in 1..Count
    BY <2>1, ElementOfSeq
  <2> QED
    BY <1>6, <2>1, <2>2, HistoryConstants
<1>9. Begins(items', Filtered(filters')) /\ (cursor' = 0 \/ Reached(cursor)')
  BY <1>1, <1>4, <1>6 DEF Reached
<1> QED
  BY <1>1, <1>2, <1>7, <1>8, <1>9 DEF HistoryInv, filterVars

LEMMA FiltersKeep ==
    ASSUME HistoryInv, ~OverlapLoads,
           \/ RetryHistory \/ HandleSearch \/ SearchFires \/ QuickFilter
           \/ OpenSheet \/ EditDraft \/ ResetDraft \/ CloseSheet \/ ApplyDraft
    PROVE  HistoryInv'
<1>0. /\ filters \in Filters /\ draft \in Filters /\ activeFilters = filters /\ historyTimer \subseteq Filters
      /\ searchText \in {"none", "some"} /\ (historyTimer # {} => loads = {})
  BY DEF HistoryInv, LoadsInv
<1>1. CASE RetryHistory
  <2>1. loads = {} /\ historyTimer = {} /\ Reload(filters) /\ UNCHANGED <<filters, filterVars>>
    BY <1>0, <1>1 DEF RetryHistory, Waited
  <2> QED
    BY <1>0, <2>1, ReloadKeeps DEF filterVars
<1>2. CASE HandleSearch
  <2>1. PICK t \in {"none", "some"} : searchText' = t /\ historyTimer' = {[filters EXCEPT !.text = t]}
    BY <1>2 DEF HandleSearch
  <2>2. [filters EXCEPT !.text = t] \in Filters
    BY <1>0 DEF Filters
  <2>3. loads = {} /\ UNCHANGED <<listVars, filters, draft>>
    BY <1>2 DEF HandleSearch, Waited
  <2> QED
    BY <1>0, <2>1, <2>2, <2>3, SheetKeeps
<1>3. CASE SearchFires
  <2>1. PICK f \in historyTimer : ApplyFilters(f) /\ Synced(f)
    BY <1>3 DEF SearchFires
  <2>2. f \in Filters /\ loads = {} /\ draft' \in Filters
    BY <1>0, <2>1 DEF Synced
  <2>3. Reload(f) /\ filters' = f /\ historyTimer' = {} /\ searchText' = searchText
    BY <1>3, <2>1 DEF SearchFires, ApplyFilters
  <2> QED
    BY <1>0, <2>2, <2>3, ReloadKeeps
<1>4. CASE QuickFilter
  <2>1. PICK s \in {"all", "some"} : ApplyFilters([sel |-> s, text |-> searchText])
    BY <1>4 DEF QuickFilter
  <2> DEFINE f == [sel |-> s, text |-> searchText]
  <2>2. f \in Filters
    BY <1>0 DEF Filters
  <2>3. Reload(f) /\ filters' = f /\ loads = {} /\ historyTimer = {} /\ UNCHANGED filterVars
    BY <1>4, <2>1 DEF QuickFilter, ApplyFilters, Waited
  <2> HIDE DEF f
  <2> QED
    BY <1>0, <2>2, <2>3, ReloadKeeps DEF filterVars
<1>5. CASE ApplyDraft
  <2> DEFINE f == [draft EXCEPT !.text = searchText]
  <2>1. f \in Filters
    BY <1>0 DEF Filters
  <2>2. Reload(f) /\ filters' = f /\ loads = {} /\ historyTimer = {} /\ UNCHANGED <<searchText, historyTimer, draft>>
    BY <1>5 DEF ApplyDraft, ApplyFilters, Waited
  <2> HIDE DEF f
  <2> QED
    BY <1>0, <2>1, <2>2, ReloadKeeps
<1>6. CASE OpenSheet \/ EditDraft \/ ResetDraft \/ CloseSheet
  <2>1. draft' \in Filters
    <3>1. \A s \in {"all", "some"} : [draft EXCEPT !.sel = s] \in Filters
      BY <1>0 DEF Filters
    <3>2. DefaultFilters \in Filters
      BY DEF DefaultFilters, Filters
    <3> QED
      BY <1>0, <1>6, <3>1, <3>2 DEF OpenSheet, EditDraft, ResetDraft, CloseSheet
  <2>2. UNCHANGED <<listVars, filters, searchText, historyTimer>>
    BY <1>6 DEF OpenSheet, EditDraft, ResetDraft, CloseSheet
  <2> QED
    BY <1>0, <2>1, <2>2, SheetKeeps
<1> QED
  BY <1>1, <1>2, <1>3, <1>4, <1>5, <1>6

LEMMA HistoryStep == ASSUME HistoryInv, ~OverlapLoads, HistoryNext PROVE HistoryInv'
BY RefreshKeeps, LoadMoreKeeps, LoadFailsKeeps, LoadAnsweredKeeps, FiltersKeep DEF HistoryNext

SpeedInv == speedingUp \in 0..Count
ReceiptInv == receipt \in {"loading", "missing", "shown"}

LEMMA SpeedStarts == ASSUME SpeedInit PROVE SpeedInv
BY HistoryConstants DEF SpeedInit, SpeedInv
LEMMA SpeedRests == ASSUME SpeedInv, UNCHANGED speedVars PROVE SpeedInv'
BY DEF SpeedInv, speedVars
LEMMA SpeedStep == ASSUME SpeedInv, SpeedNext PROVE SpeedInv'
BY HistoryConstants DEF SpeedInv, SpeedNext, RowAges, HandleSpeedUp, SpeedUpStep, SpeedUpEnds, StopsSpinning

LEMMA ReceiptStarts == ASSUME ReceiptInit PROVE ReceiptInv
BY DEF ReceiptInit, ReceiptInv
LEMMA ReceiptRests == ASSUME ReceiptInv, UNCHANGED receiptVars PROVE ReceiptInv'
BY DEF ReceiptInv, receiptVars
LEMMA ReceiptStep == ASSUME ReceiptInv, ReceiptNext PROVE ReceiptInv'
BY DEF ReceiptInv, ReceiptNext, ReceiptRead, HandleShare, ShareEnds

LEMMA HistoryShows ==
    ASSUME HistoryInv, SpeedInv, ReceiptInv
    PROVE  HistoryTypeOK /\ ListIsPrefix
<1>1. HistoryTypeOK
  BY DEF HistoryInv, SpeedInv, ReceiptInv, HistoryTypeOK
<1>2. ASSUME ~loading, ~historyError PROVE items = SubSeq(Filtered(filters), 1, Len(items))
  <2> DEFINE F == Filtered(filters)
  <2>1. Begins(items, F)
    BY <1>2 DEF HistoryInv, ListCurrent
  <2>2. F \in Seq(1..Count) /\ \A i \in 1..Len(F) : F[i] \in 1..Count
    BY FilteredLists, ElementOfSeq DEF Listing
  <2> HIDE DEF F
  <2>3. items \in Seq(1..Count) /\ Len(items) \in Nat /\ Len(items) <= Len(F) /\ Len(F) \in Nat
    BY <2>1, <2>2 DEF Begins
  <2> DEFINE p == SubSeq(F, 1, Len(items))
  <2>4. \A i \in 1..Len(items) : F[i] \in 1..Count
    BY <2>2, <2>3
  <2>5. p \in Seq(1..Count) /\ Len(p) = Len(items) /\ \A i \in 1..Len(items) : p[i] = F[i]
    BY <2>3, <2>4, SubSeqProperties
  <2> HIDE DEF p
  <2>6. \A i \in 1..Len(items) : items[i] = p[i]
    BY <2>1, <2>5 DEF Begins
  <2>7. items = p
    BY <2>3, <2>5, <2>6, SeqEqual
  <2> QED
    BY <2>7 DEF p, F
<1> QED
  BY <1>1, <1>2 DEF ListIsPrefix

-----------------------------------------------------------------------------
(***************************************************************************)
(* The code screens.                                                       *)
(***************************************************************************)

Payable(p) == p.to \in {"stellar", "federated", "XDR Transaction"} /\ p.amount # "bad"

\* What is previewed can be paid, and the latch is on exactly in the views it
\* led to.
ScanInv ==
    /\ camera \in {"undetermined", "granted", "denied"} /\ asking \in BOOLEAN
    /\ scanScreen \in {"scanner", "manual", "preview", "error"} /\ scanned \in BOOLEAN
    /\ typed \in Codes \cup {NoCode} /\ flash \in BOOLEAN
    /\ preview \in ScannedPayments \cup {NoCode} /\ (preview # NoCode => Payable(preview))
    /\ confirmed \subseteq ScannedPayments /\ ConfirmedIsPayable
    /\ ScannerListens
ReceiveInv == receiveStep \in {0, 1} /\ receiveType \in {"none", "ZAPS", "external"}
TapInv == tapStep \in {"ready", "searching", "left"}

\* What the parser reads has a destination, and an amount or none.
LEMMA ReadIsPayable ==
    ASSUME NEW c \in Codes, Readable(c)
    PROVE  PreviewOf(c) \in ScannedPayments /\ Payable(PreviewOf(c))
<1>1. c \in CodeType
  BY CodesAreRead
<1>2. CASE c.scheme = "web+stellar"
  BY <1>1, <1>2 DEF Readable, DetectQrContentType, ParseSep0007Uri, IsValidStellarDestination, PreviewOf, Payable,
     ScannedPayments, Kinds, CodeType
<1>3. CASE c.scheme = "zaps"
  BY <1>1, <1>3 DEF Readable, DetectQrContentType, ParseZapsPayUri, IsValidStellarDestination, PreviewOf, Payable,
     ScannedPayments, Kinds, CodeType
<1>4. CASE c.scheme = "plain"
  BY <1>1, <1>4 DEF Readable, DetectQrContentType, IsValidStellarDestination, PreviewOf, Payable,
     ScannedPayments, Kinds, CodeType
<1> QED
  BY <1>1, <1>2, <1>3, <1>4 DEF CodeType

LEMMA ScanStarts == ASSUME ScanInit PROVE ScanInv
BY DEF ScanInit, ScanInv, ConfirmedIsPayable, ScannerListens

LEMMA ScanRests == ASSUME ScanInv, UNCHANGED scanVars PROVE ScanInv'
BY DEF ScanInv, ConfirmedIsPayable, ScannerListens, Payable, scanVars

LEMMA ScanStep == ASSUME ScanInv, ScanNext PROVE ScanInv'
<1> USE DEF ConfirmedIsPayable, ScannerListens
<1>1. CASE RequestPermission \/ PermissionAnswered \/ ToManual \/ ToggleFlash \/ TypeAddress
  <2>1. asking' \in BOOLEAN /\ flash' \in BOOLEAN
    BY <1>1 DEF RequestPermission, PermissionAnswered, ToManual, ToggleFlash, TypeAddress, ScanInv
  <2>2. CASE RequestPermission \/ PermissionAnswered
    <3>1. /\ camera' \in {"undetermined", "granted", "denied"}
          /\ UNCHANGED <<scanScreen, scanned, typed, preview, confirmed, flash>>
      BY <2>2 DEF RequestPermission, PermissionAnswered, ScanInv
    <3> QED
      BY <2>1, <3>1 DEF ScanInv, Payable
  <2>3. CASE ToManual
    BY <2>1, <2>3 DEF ToManual, ScanInv, Payable
  <2>4. CASE ToggleFlash
    BY <2>1, <2>4 DEF ToggleFlash, ScanInv, Payable
  <2>5. CASE TypeAddress
    BY <2>1, <2>5 DEF TypeAddress, ScanInv, Payable
  <2> QED
    BY <1>1, <2>2, <2>3, <2>4, <2>5
<1>2. CASE BarcodeScanned
  <2>1. PICK first, last \in Codes :
          /\ scanned' = TRUE
          /\ scanScreen' = IF Readable(last) THEN "preview" ELSE "error"
          /\ preview' = IF Readable(last) THEN PreviewOf(last)
                        ELSE IF Readable(first) THEN PreviewOf(first) ELSE preview
    BY <1>2 DEF BarcodeScanned
  <2>2. preview' \in ScannedPayments \cup {NoCode} /\ (preview' # NoCode => Payable(preview'))
    BY <2>1, ReadIsPayable DEF ScanInv
  <2> QED
    BY <1>2, <2>1, <2>2 DEF BarcodeScanned, ScanInv, Payable
<1>3. CASE HandleManualSubmit
  <2>1. typed \in Codes
    BY <1>3 DEF HandleManualSubmit, ScanInv
  <2>2. preview' \in ScannedPayments \cup {NoCode} /\ (preview' # NoCode => Payable(preview'))
    BY <1>3, <2>1, ReadIsPayable DEF HandleManualSubmit, HandleQrData, ScanInv
  <2> QED
    BY <1>3, <2>2 DEF HandleManualSubmit, HandleQrData, ScanInv, Payable
<1>4. CASE ErrorToManual \/ ResetScanner
  BY <1>4 DEF ErrorToManual, ResetScanner, LatchReleased, ScanInv, Payable
<1>5. CASE HandleConfirmPayment
  BY <1>5 DEF HandleConfirmPayment, ScanInv, Payable
<1> QED
  BY <1>1, <1>2, <1>3, <1>4, <1>5 DEF ScanNext

LEMMA ReceiveStarts == ASSUME ReceiveInit PROVE ReceiveInv
BY DEF ReceiveInit, ReceiveInv
LEMMA ReceiveRests == ASSUME ReceiveInv, UNCHANGED receiveVars PROVE ReceiveInv'
BY DEF ReceiveInv, receiveVars
LEMMA ReceiveStepKeeps == ASSUME ReceiveInv, ReceiveNext PROVE ReceiveInv'
BY DEF ReceiveInv, ReceiveNext, ChooseReceive, ReceiveNextStep, ReceiveBack

LEMMA TapStarts == ASSUME TapInit PROVE TapInv
BY DEF TapInit, TapInv
LEMMA TapRests == ASSUME TapInv, UNCHANGED tapStep PROVE TapInv'
BY DEF TapInv
LEMMA TapStepKeeps == ASSUME TapInv, TapNext PROVE TapInv'
BY DEF TapInv, TapNext, TapGoNext, TapBack, ScanInstead

LEMMA ScanShows ==
    ASSUME ScanInv, ReceiveInv, TapInv
    PROVE  ScanTypeOK /\ ConfirmedIsPayable /\ ScannerListens
BY DEF ScanInv, ReceiveInv, TapInv, ScanTypeOK

-----------------------------------------------------------------------------
(***************************************************************************)
(* Money coming in.                                                        *)
(***************************************************************************)

QuoteInv ==
    /\ form \in FundForms /\ quoteCalls \subseteq FundForms /\ quote \in FundForms \cup {NoQuote}
    /\ quoteTimer \in BOOLEAN /\ loadingQuote \in BOOLEAN /\ quoteError \in BOOLEAN
    /\ quotes \in 0..MaxQuotes

\* The form comes back only when every attempt has failed, so that a transfer
\* that was started is the only one; each attempt but the one on the wire has
\* created a transfer at most.
BridgeInv ==
    /\ interval \in BOOLEAN /\ onFund \in BOOLEAN /\ pollFails \in 0..MaxFails
    /\ bridgeStep \in 0..LastStep /\ bridge \in 0..LastStep /\ shown \in 0..LastStep
    /\ initiating \in 0..(FetchRetries + 1) /\ orders \in 0..(FetchRetries + 1)
    /\ polls \subseteq 1..LastStep
    /\ initiating > 0 => orders < initiating /\ bridge = 0 /\ bridgeStep > 0
    /\ bridge > 0 => bridgeStep > 0 /\ orders > 0
    /\ interval \/ polls # {} => bridge > 0

FundInv == QuoteInv /\ BridgeInv

LEMMA FundStarts == ASSUME FundInit PROVE FundInv
<1>1. (CHOOSE n \in Networks : TRUE) \in Networks
  BY FundingConstants
<1>2. form \in FundForms
  BY <1>1 DEF FundInit, FundForms
<1>3. QuoteInv
  <2>1. quoteTimer \in BOOLEAN /\ loadingQuote \in BOOLEAN /\ quoteError \in BOOLEAN
    BY DEF FundInit
  <2> QED
    BY <1>2, <2>1, FundingConstants DEF FundInit, QuoteInv
<1>4. BridgeInv
  <2>1. interval \in BOOLEAN /\ ~interval /\ onFund \in BOOLEAN
    BY DEF FundInit
  <2> QED
    BY <2>1, FundingConstants DEF FundInit, BridgeInv, LastStep
<1> QED
  BY <1>3, <1>4 DEF FundInv

LEMMA QuoteRests == ASSUME QuoteInv, UNCHANGED <<form, quoteVars>> PROVE QuoteInv'
BY DEF QuoteInv, quoteVars
LEMMA BridgeRests == ASSUME BridgeInv, UNCHANGED <<bridgeVars, onFund>> PROVE BridgeInv'
BY DEF BridgeInv, bridgeVars
LEMMA FundRests == ASSUME FundInv, UNCHANGED fundVars PROVE FundInv'
BY QuoteRests, BridgeRests DEF FundInv, fundVars, quoteVars, bridgeVars

LEMMA QuoteStep == ASSUME FundInv, QuoteNext PROVE FundInv'
<1>1. BridgeInv'
  BY BridgeRests DEF FundInv, QuoteNext, SelectNetwork, EditFundAmount, FetchQuote, QuoteAnswered, QuoteFails
<1>2. CASE SelectNetwork \/ EditFundAmount
  <2>1. form' \in FundForms
    BY <1>2 DEF SelectNetwork, EditFundAmount, FundInv, QuoteInv, FundForms
  <2>2. quoteTimer' \in BOOLEAN /\ loadingQuote' \in BOOLEAN /\ quoteError' \in BOOLEAN
    BY <1>2 DEF SelectNetwork, EditFundAmount, QuoteEffect, FundInv, QuoteInv
  <2> QED
    BY <1>1, <1>2, <2>1, <2>2 DEF SelectNetwork, EditFundAmount, QuoteEffect, FundInv, QuoteInv
<1>3. CASE FetchQuote
  <2>1. quoteTimer' \in BOOLEAN /\ loadingQuote' \in BOOLEAN /\ quoteError' \in BOOLEAN
    BY <1>3 DEF FetchQuote
  <2> QED
    BY <1>1, <1>3, <2>1, FundingConstants DEF FetchQuote, FundInv, QuoteInv
<1>4. ASSUME NEW f \in quoteCalls, QuoteAnswered(f) \/ QuoteFails(f) PROVE FundInv'
  <2>1. quoteTimer' \in BOOLEAN /\ loadingQuote' \in BOOLEAN /\ quoteError' \in BOOLEAN
    BY <1>4 DEF QuoteAnswered, QuoteFails, FundInv, QuoteInv
  <2> QED
    BY <1>1, <1>4, <2>1 DEF QuoteAnswered, QuoteFails, FundInv, QuoteInv
<1> QED
  BY <1>2, <1>3, <1>4 DEF QuoteNext

LEMMA BridgeStep == ASSUME FundInv, BridgeNext PROVE FundInv'
<1>1. QuoteInv'
  BY QuoteRests DEF FundInv, BridgeNext, StartBridge, Initiated, InitiateAttemptFails, BridgeMoves, PollTick,
     PollBridgeStatus, PollLost
<1> USE FundingConstants DEF FundInv, BridgeInv, LastStep
<1>2. CASE StartBridge
  BY <1>1, <1>2 DEF StartBridge, QuoteShown, FormShown
<1>3. CASE Initiated
  BY <1>1, <1>3 DEF Initiated
<1>4. CASE InitiateAttemptFails
  BY <1>1, <1>4 DEF InitiateAttemptFails, Retries
<1>5. CASE BridgeMoves
  BY <1>1, <1>5 DEF BridgeMoves
<1>6. CASE PollTick
  BY <1>1, <1>6 DEF PollTick
<1>7. ASSUME NEW s \in polls, PollBridgeStatus(s) PROVE FundInv'
  <2>1. interval' \in BOOLEAN /\ (interval' => interval)
    BY <1>7 DEF PollBridgeStatus
  <2> QED
    BY <1>1, <1>7, <2>1 DEF PollBridgeStatus
<1>8. ASSUME NEW s \in polls, PollLost(s) PROVE FundInv'
  BY <1>1, <1>8 DEF PollLost
<1> QED
  BY <1>2, <1>3, <1>4, <1>5, <1>6, <1>7, <1>8 DEF BridgeNext

LEMMA FundStep == ASSUME FundInv, FundNext PROVE FundInv'
<1>1. CASE LeaveFund
  <2>1. quoteTimer' \in BOOLEAN /\ interval' \in BOOLEAN /\ onFund' \in BOOLEAN /\ ~interval'
    BY <1>1 DEF LeaveFund
  <2>2. QuoteInv'
    BY <1>1, <2>1 DEF LeaveFund, FundInv, QuoteInv
  <2>3. BridgeInv'
    BY <1>1, <2>1 DEF LeaveFund, FundInv, BridgeInv
  <2> QED
    BY <2>2, <2>3 DEF FundInv
<1> QED
  BY <1>1, QuoteStep, BridgeStep DEF FundNext

\* The token that is validated is the one in the field, and so is the one the
\* result is about.
ClaimInv ==
    /\ claimScreen \in {"none", "validating", "invalid_token", "error", "valid", "expired", "already_claimed", "invalid"}
    /\ tokenInput \in Claims \cup {NoClaim, BadClaim} /\ validating \in Claims \cup {NoClaim, BadClaim}
    /\ claimResult \in Claims \cup {NoClaim, BadClaim}
    /\ claimScreen = "validating" => validating = tokenInput
    /\ ResultIsOfToken

LEMMA ClaimStarts == ASSUME ClaimInit PROVE ClaimInv
BY DEF ClaimInit, ClaimInv, ResultIsOfToken, ResultShown
LEMMA ClaimRests == ASSUME ClaimInv, UNCHANGED claimVars PROVE ClaimInv'
BY DEF ClaimInv, ResultIsOfToken, ResultShown, claimVars
LEMMA ClaimStep == ASSUME ClaimInv, ClaimNext PROVE ClaimInv'
<1> USE DEF ClaimInv, ResultIsOfToken, ResultShown
<1>1. CASE HandleIncomingUrl
  BY <1>1 DEF HandleIncomingUrl, Opened
<1>2. CASE OpenEmptyClaim \/ EditClaimToken \/ LeaveClaim
  BY <1>2 DEF OpenEmptyClaim, EditClaimToken, LeaveClaim
<1>3. CASE ValidatePressed
  BY <1>3 DEF ValidatePressed, RunValidation, IsValidSdpToken
<1>4. CASE Validated \/ ValidationFails
  BY <1>4 DEF Validated, ValidationFails
<1> QED
  BY <1>1, <1>2, <1>3, <1>4 DEF ClaimNext

LEMMA FundsShow ==
    ASSUME FundInv, ClaimInv
    PROVE  FundingTypeOK /\ TransfersPerPress /\ ResultIsOfToken
<1>1. {quoteTimer, loadingQuote, quoteError, interval, onFund} \subseteq BOOLEAN
  BY DEF FundInv, QuoteInv, BridgeInv
<1>2. FundingTypeOK
  BY <1>1, FundingConstants DEF FundInv, QuoteInv, BridgeInv, ClaimInv, FundingTypeOK
<1>3. TransfersPerPress
  BY FundingConstants DEF FundInv, BridgeInv, TransfersPerPress
<1> QED
  BY <1>2, <1>3 DEF ClaimInv

-----------------------------------------------------------------------------
(***************************************************************************)
(* Distribution lists.                                                     *)
(***************************************************************************)

Rows == UNION {f.rows : f \in Files}

\* Rows that were taken have no fault; the preview has some, and no file is
\* being read while it is shown.
BatchInv ==
    /\ batchStep \in {0, 1, 2, 4, 9} /\ batchFile \in Files \cup {NoFile} /\ reading \subseteq Files
    /\ batchItems \subseteq Rows /\ listPosted \subseteq Rows /\ listsPosted \in 0..MaxBatchPosts
    /\ batchErrors \in BOOLEAN /\ uploading \in BOOLEAN
    /\ \A row \in batchItems : row.faults = {}
    /\ batchStep = 2 => batchItems # {} /\ reading = {}
    /\ PostedIsPayable
DetailInv ==
    /\ exporting \in BOOLEAN /\ batchOpen \in BOOLEAN
    /\ batchFilter \in {"all", "completed", "pending", "failed"}

LEMMA BatchStarts == ASSUME BatchInit PROVE BatchInv
<1>1. batchErrors \in BOOLEAN /\ uploading \in BOOLEAN
  BY DEF BatchInit
<1> QED
  BY <1>1, BatchConstants DEF BatchInit, BatchInv, PostedIsPayable

LEMMA BatchRests == ASSUME BatchInv, UNCHANGED batchVars PROVE BatchInv'
BY DEF BatchInv, PostedIsPayable, batchVars

LEMMA BatchStepKeeps == ASSUME BatchInv, ~SlowReads, BatchNext PROVE BatchInv'
<1> USE DEF BatchInv, PostedIsPayable
<1>1. CASE HandlePickFile
  BY <1>1 DEF HandlePickFile, UploadShown
<1>2. CASE BatchContinue
  BY <1>2 DEF BatchContinue, ButtonEnabled, UploadShown, Settled
<1>3. CASE HandleSubmitBatch
  <2>1. uploading' \in BOOLEAN
    BY <1>3 DEF HandleSubmitBatch
  <2> QED
    BY <1>3, <2>1, BatchConstants DEF HandleSubmitBatch, PreviewShown
<1>4. CASE UploadEnds
  <2>1. uploading' \in BOOLEAN
    BY <1>4 DEF UploadEnds, UploadEnded
  <2> QED
    BY <1>4, <2>1 DEF UploadEnds
<1>5. CASE BatchBack
  BY <1>5 DEF BatchBack, Settled
<1>6. ASSUME NEW f \in reading, FileRead(f) PROVE BatchInv'
  <2>1. f \in Files /\ f.rows \subseteq Rows
    BY DEF Rows
  <2>2. batchItems' \subseteq Rows /\ \A row \in batchItems' : row.faults = {}
    BY <1>6, <2>1 DEF FileRead, ParseItems, RowTaken
  <2>3. batchErrors' \in BOOLEAN
    BY <1>6 DEF FileRead, ParseErrors, MissingHeaders
  <2> QED
    BY <1>6, <2>2, <2>3 DEF FileRead
<1>7. ASSUME NEW f \in reading, ReadFails(f) PROVE BatchInv'
  <2>1. batchErrors' \in BOOLEAN
    BY <1>7 DEF ReadFails
  <2> QED
    BY <1>7, <2>1 DEF ReadFails
<1> QED
  BY <1>1, <1>2, <1>3, <1>4, <1>5, <1>6, <1>7 DEF BatchNext

LEMMA DetailStarts == ASSUME DetailInit PROVE DetailInv
BY DEF DetailInit, DetailInv
LEMMA DetailRests == ASSUME DetailInv, UNCHANGED detailVars PROVE DetailInv'
BY DEF DetailInv, detailVars
LEMMA DetailStep == ASSUME DetailInv, DetailNext PROVE DetailInv'
<1>1. exporting' \in BOOLEAN /\ batchOpen' \in BOOLEAN
  BY DEF DetailInv, DetailNext, SelectFilter, HandleExportReceipt, ExportEnds, LeaveDetail
<1> QED
  BY <1>1 DEF DetailInv, DetailNext, SelectFilter, HandleExportReceipt, ExportEnds, LeaveDetail

LEMMA BatchShows ==
    ASSUME BatchInv, DetailInv
    PROVE  BatchTypeOK /\ PostedIsPayable
<1>1. {batchErrors, uploading, exporting, batchOpen} \subseteq BOOLEAN
  BY DEF BatchInv, DetailInv
<1>2. FilteredItems \subseteq BatchItems /\ StepsPast \subseteq 1..3
  BY DEF FilteredItems, WithStatus, StepsPast, CurrentStep, BatchSummary
<1>3. {Progress, SuccessRate} \subseteq 0..100
  BY DEF Progress, SuccessRate, BatchSummary
<1> QED
  BY <1>1, <1>2, <1>3 DEF BatchInv, DetailInv, BatchTypeOK, Rows

-----------------------------------------------------------------------------
(***************************************************************************)
(* The merchant's screens.                                                 *)
(***************************************************************************)

Screens == [name : ScreenNames, id : 0..MaxScreens, sale : Sales \cup {NoSale},
            choice : {"none", "tap", "qr", "withdraw", "history", "typed"}]
Fades == [id : 1..MaxScreens, to : {"contact", "received", "tabs", "success"}, sale : Sales \cup {NoSale}]

\* The amounts a screen may show when those of e were entered: one of these in
\* a collection, none on the code screen.
SaleFits(name, sale, e) ==
    /\ name \in {"waiting", "contact", "received"} => sale \in e
    /\ name = "accept" => sale \in e \cup {NoSale}
    /\ name = "qr" => sale = NoSale
\* What the invariant says of a screen when n were pushed: only the first one
\* has the id 0.
ScreenFits(s, n, e) == s.id <= n /\ (s.name # "tabs" => s.id > 0) /\ SaleFits(s.name, s.sale, e)

\* Ids tell screens apart, so that a timer is that of a waiting or contact
\* screen; a closing animation pushes an amount that was entered.
MerchantInv ==
    /\ pushed \in 0..MaxScreens /\ stack \in Seq(Screens) /\ Len(stack) \in 1..(pushed + 1)
    /\ entered \subseteq Sales
    /\ \A i \in 1..Len(stack) : ScreenFits(stack[i], pushed, entered)
    /\ \A i, j \in 1..Len(stack) : stack[i].id = stack[j].id => i = j
    /\ \A id \in timers : \E i \in 1..Len(stack) : stack[i].id = id /\ stack[i].name \in {"waiting", "contact"}
    /\ fades \subseteq Fades
    /\ \A f \in fades : f.to \in {"contact", "received"} => f.sale \in entered
TabsInv ==
    /\ merchantTab \in {"home", "history", "settings"} /\ salesFilter \in {"All", "Transfer", "Received"}
    /\ biometricsOn \in BOOLEAN

LEMMA MerchantStarts == ASSUME MerchantInit PROVE MerchantInv
<1> DEFINE s == [name |-> "tabs", id |-> 0, sale |-> NoSale, choice |-> "none"]
<1>1. s \in Screens
  BY MerchantConstants DEF Screens, ScreenNames
<1>2. s.id = 0 /\ s.name = "tabs"
  OBVIOUS
<1> HIDE DEF s
<1>3. stack = <<s>> /\ pushed = 0 /\ timers = {} /\ fades = {} /\ entered = {}
  BY DEF MerchantInit, s
<1>4. stack \in Seq(Screens) /\ Len(stack) = 1 /\ stack[1] = s
  BY <1>1, <1>3
<1> QED
  BY <1>2, <1>3, <1>4, MerchantConstants DEF MerchantInv, ScreenFits, SaleFits

LEMMA MerchantRests == ASSUME MerchantInv, UNCHANGED merchantVars PROVE MerchantInv'
BY DEF MerchantInv, ScreenFits, merchantVars

LEMMA TopTyped ==
    ASSUME MerchantInv
    PROVE  /\ Top = stack[Len(stack)] /\ Len(stack) \in 1..Len(stack) /\ Top \in Screens /\ ScreenFits(Top, pushed, entered)
           /\ \A i \in 1..Len(stack) : stack[i] \in Screens
BY DEF MerchantInv, Top, Last

\* A screen that fits is pushed.
LEMMA PushKeeps ==
    ASSUME MerchantInv, NEW name \in ScreenNames, NEW sale \in Sales \cup {NoSale}, Push(name, sale),
           SaleFits(name, sale, entered), fades' \subseteq fades, entered' = entered
    PROVE  MerchantInv'
<1> DEFINE s == Screen(name, sale)
<1>1. /\ s \in Screens /\ s.id = pushed + 1 /\ s.name = name /\ s.sale = sale
      /\ pushed' = pushed + 1 /\ pushed + 1 \in 0..MaxScreens
  BY MerchantConstants DEF Push, Screen, Screens, MerchantInv
<1>2. /\ stack' = Append(stack, s)
      /\ timers' = IF name \in {"waiting", "contact"} THEN timers \cup {pushed + 1} ELSE timers
  BY DEF Push
<1> HIDE DEF s
<1>3. /\ stack' \in Seq(Screens) /\ Len(stack') = Len(stack) + 1 /\ Len(stack) \in Nat
      /\ \A i \in 1..Len(stack) : stack'[i] = stack[i]
      /\ stack'[Len(stack) + 1] = s
  BY <1>1, <1>2 DEF MerchantInv
<1>4. ASSUME NEW i \in 1..Len(stack') PROVE ScreenFits(stack'[i], pushed', entered')
  <2>1. CASE i \in 1..Len(stack)
    <3>1. ScreenFits(stack[i], pushed, entered) /\ stack[i].id \in 0..MaxScreens /\ stack'[i] = stack[i]
      BY <1>3, <2>1, TopTyped DEF MerchantInv, Screens
    <3> QED
      BY <1>1, <3>1 DEF ScreenFits, SaleFits, MerchantInv
  <2>2. CASE i = Len(stack) + 1
    BY <1>1, <1>3, <2>2 DEF ScreenFits, SaleFits, MerchantInv
  <2> QED
    BY <1>3, <2>1, <2>2
<1>5. ASSUME NEW i \in 1..Len(stack'), NEW j \in 1..Len(stack'), stack'[i].id = stack'[j].id PROVE i = j
  <2>1. ASSUME NEW k \in 1..Len(stack) PROVE stack'[k] = stack[k] /\ stack[k].id # pushed + 1
    <3>1. ScreenFits(stack[k], pushed, entered) /\ stack[k].id \in 0..MaxScreens
      BY TopTyped DEF MerchantInv, Screens
    <3> QED
      BY <1>1, <1>3, <3>1, MerchantConstants DEF ScreenFits, MerchantInv
  <2> QED
    BY <1>1, <1>3, <1>5, <2>1 DEF MerchantInv
<1>6. ASSUME NEW id \in timers'
      PROVE  \E i \in 1..Len(stack') : stack'[i].id = id /\ stack'[i].name \in {"waiting", "contact"}
  <2>1. CASE id \in timers
    <3>1. PICK i \in 1..Len(stack) : stack[i].id = id /\ stack[i].name \in {"waiting", "contact"}
      BY <2>1 DEF MerchantInv
    <3> QED
      BY <1>3, <3>1
  <2>2. CASE id = pushed + 1 /\ name \in {"waiting", "contact"}
    BY <1>1, <1>3, <2>2
  <2> QED
    BY <1>2, <1>6, <2>1, <2>2
<1>7. fades' \subseteq Fades /\ \A f \in fades' : f.to \in {"contact", "received"} => f.sale \in entered'
  BY DEF MerchantInv
<1>8. Len(stack') \in 1..(pushed' + 1) /\ entered' \subseteq Sales
  BY <1>1, <1>3 DEF MerchantInv
<1> QED
  BY <1>1, <1>3, <1>4, <1>5, <1>6, <1>7, <1>8 DEF MerchantInv

\* The screen on top is changed in place, and keeps its name and id.
LEMMA EditKeeps ==
    ASSUME MerchantInv, NEW s \in Screens, stack' = [stack EXCEPT ![Len(stack)] = s],
           s.name = Top.name, s.id = Top.id,
           s.sale = Top.sale \/ SaleFits(s.name, s.sale, entered'),
           UNCHANGED <<pushed, timers, fades>>, entered \subseteq entered', entered' \subseteq Sales
    PROVE  MerchantInv'
<1>1. /\ stack' \in Seq(Screens) /\ Len(stack') = Len(stack)
      /\ \A i \in 1..Len(stack) : stack'[i] = IF i = Len(stack) THEN s ELSE stack[i]
  BY DEF MerchantInv
<1>2. ASSUME NEW i \in 1..Len(stack') PROVE ScreenFits(stack'[i], pushed', entered')
  <2>1. CASE i = Len(stack)
    BY <1>1, <2>1, TopTyped DEF ScreenFits, SaleFits
  <2>2. CASE i # Len(stack)
    <3>1. ScreenFits(stack[i], pushed, entered) /\ stack'[i] = stack[i]
      BY <1>1, <2>2 DEF MerchantInv
    <3> QED
      BY <3>1 DEF ScreenFits, SaleFits
  <2> QED
    BY <2>1, <2>2
<1>3. ASSUME NEW i \in 1..Len(stack) PROVE stack'[i].id = stack[i].id /\ stack'[i].name = stack[i].name
  BY <1>1, TopTyped
<1>4. ASSUME NEW i \in 1..Len(stack'), NEW j \in 1..Len(stack'), stack'[i].id = stack'[j].id PROVE i = j
  <2>1. stack[i].id = stack[j].id /\ i \in 1..Len(stack) /\ j \in 1..Len(stack)
    BY <1>1, <1>3, <1>4
  <2> QED
    BY <2>1 DEF MerchantInv
<1>5. ASSUME NEW id \in timers'
      PROVE  \E i \in 1..Len(stack') : stack'[i].id = id /\ stack'[i].name \in {"waiting", "contact"}
  <2>1. PICK i \in 1..Len(stack) : stack[i].id = id /\ stack[i].name \in {"waiting", "contact"}
    BY DEF MerchantInv
  <2> QED
    BY <1>1, <1>3, <2>1
<1>6. fades' \subseteq Fades /\ \A f \in fades' : f.to \in {"contact", "received"} => f.sale \in entered'
  BY DEF MerchantInv
<1> QED
  BY <1>1, <1>2, <1>4, <1>5, <1>6 DEF MerchantInv

LEMMA BackKeeps == ASSUME MerchantInv, Back PROVE MerchantInv'
<1>1. /\ Len(stack) > 1 /\ stack' = SubSeq(stack, 1, Len(stack) - 1) /\ timers' = timers \ {Top.id}
      /\ UNCHANGED <<pushed, fades, entered>>
  BY DEF Back, Front, TimerCleared
<1>2. /\ stack' \in Seq(Screens) /\ Len(stack') = Len(stack) - 1
      /\ \A i \in 1..Len(stack') : i \in 1..Len(stack) /\ stack'[i] = stack[i]
  BY <1>1 DEF MerchantInv
<1>3. ASSUME NEW i \in 1..Len(stack') PROVE ScreenFits(stack'[i], pushed', entered')
  <2>1. ScreenFits(stack[i], pushed, entered) /\ stack'[i] = stack[i]
    BY <1>2 DEF MerchantInv
  <2> QED
    BY <1>1, <2>1 DEF ScreenFits, SaleFits
<1>4. \A i, j \in 1..Len(stack') : stack'[i].id = stack'[j].id => i = j
  BY <1>2 DEF MerchantInv
<1>5. ASSUME NEW id \in timers'
      PROVE  \E i \in 1..Len(stack') : stack'[i].id = id /\ stack'[i].name \in {"waiting", "contact"}
  <2>1. PICK i \in 1..Len(stack) : stack[i].id = id /\ stack[i].name \in {"waiting", "contact"}
    BY <1>1 DEF MerchantInv
  <2>2. i # Len(stack)
    BY <1>1, <2>1, TopTyped
  <2>3. i \in 1..Len(stack')
    BY <1>1, <1>2, <2>2
  <2> QED
    BY <1>2, <2>1, <2>3
<1> QED
  BY <1>1, <1>2, <1>3, <1>4, <1>5 DEF MerchantInv

\* An animation starts, and a timer may have ended.
LEMMA FadeKeeps ==
    ASSUME MerchantInv, NEW f \in Fades, f.to \in {"contact", "received"} => f.sale \in entered,
           fades' = fades \cup {f}, timers' \subseteq timers, UNCHANGED <<stack, pushed, entered>>
    PROVE  MerchantInv'
<1>1. fades' \subseteq Fades /\ \A g \in fades' : g.to \in {"contact", "received"} => g.sale \in entered'
  BY DEF MerchantInv
<1> QED
  BY <1>1 DEF MerchantInv, ScreenFits

LEMMA TimeoutKeeps == ASSUME MerchantInv, TimeoutFires PROVE MerchantInv'
<1>1. PICK i \in 1..Len(stack) :
        /\ stack[i].id \in timers /\ timers' = timers \ {stack[i].id}
        /\ fades' = fades \cup {[id |-> stack[i].id, to |-> AfterTimer(stack[i].name), sale |-> stack[i].sale]}
        /\ UNCHANGED <<stack, pushed, entered>>
  BY DEF TimeoutFires
<1>2. PICK j \in 1..Len(stack) : stack[j].id = stack[i].id /\ stack[j].name \in {"waiting", "contact"}
  BY <1>1 DEF MerchantInv
<1>3. stack[i].name \in {"waiting", "contact"}
  BY <1>2 DEF MerchantInv
<1>4. stack[i].id \in 1..MaxScreens /\ stack[i].sale \in entered /\ stack[i].sale \in Sales \cup {NoSale}
  <2>1. ScreenFits(stack[i], pushed, entered) /\ stack[i] \in Screens
    BY TopTyped DEF MerchantInv
  <2> QED
    BY <1>3, <2>1 DEF ScreenFits, SaleFits, Screens
<1> DEFINE f == [id |-> stack[i].id, to |-> AfterTimer(stack[i].name), sale |-> stack[i].sale]
<1>5. f \in Fades /\ f.sale \in entered
  BY <1>3, <1>4 DEF AfterTimer, Fades
<1> HIDE DEF f
<1>6. fades' = fades \cup {f} /\ timers' \subseteq timers /\ UNCHANGED <<stack, pushed, entered>>
  BY <1>1 DEF f
<1> QED
  BY <1>5, <1>6, FadeKeeps

LEMMA ChooseKeeps ==
    ASSUME MerchantInv, NEW V, V \subseteq {"tap", "qr", "withdraw", "history", "typed"}, Choose(V)
    PROVE  MerchantInv'
<1>1. PICK v \in V : stack' = [stack EXCEPT ![Len(stack)].choice = v]
  BY DEF Choose
<1> DEFINE s == [Top EXCEPT !.choice = v]
<1>2. /\ s \in Screens /\ s.name = Top.name /\ s.id = Top.id /\ s.sale = Top.sale
  BY TopTyped DEF Screens
<1>3. stack' = [stack EXCEPT ![Len(stack)] = s] /\ UNCHANGED <<pushed, timers, fades, entered>>
  BY <1>1, TopTyped DEF Choose
<1> HIDE DEF s
<1>4. entered' \subseteq Sales /\ entered \subseteq entered'
  BY <1>3 DEF MerchantInv
<1> QED
  BY <1>2, <1>3, <1>4, EditKeeps

LEMMA SaleKeeps ==
    ASSUME MerchantInv, Top.name \in {"accept", "withdraw"}, NEW a \in Sales \cup {NoSale},
           stack' = [stack EXCEPT ![Len(stack)].sale = a], UNCHANGED <<pushed, timers, fades>>,
           Top.name = "accept" => a \in entered' \cup {NoSale},
           entered \subseteq entered', entered' \subseteq Sales
    PROVE  MerchantInv'
<1> DEFINE s == [Top EXCEPT !.sale = a]
<1>1. s \in Screens /\ s.name = Top.name /\ s.id = Top.id /\ s.sale = a
  BY TopTyped DEF Screens
<1>2. stack' = [stack EXCEPT ![Len(stack)] = s]
  BY TopTyped
<1> HIDE DEF s
<1>3. SaleFits(s.name, s.sale, entered')
  BY <1>1 DEF SaleFits
<1> QED
  BY <1>1, <1>2, <1>3, EditKeeps

LEMMA MerchantStep == ASSUME MerchantInv, MerchantNext PROVE MerchantInv'
<1>1. CASE (~Shows("qr") /\ Back) \/ LeaveQr
  BY <1>1, BackKeeps DEF LeaveQr
<1>2. CASE EditBankAccount \/ SelectMethod \/ WithdrawTabs
  <2>1. /\ {"typed"} \subseteq {"tap", "qr", "withdraw", "history", "typed"}
        /\ {"tap", "qr"} \subseteq {"tap", "qr", "withdraw", "history", "typed"}
        /\ {"withdraw", "history"} \subseteq {"tap", "qr", "withdraw", "history", "typed"}
    OBVIOUS
  <2> QED
    BY <1>2, <2>1, ChooseKeeps DEF EditBankAccount, SelectMethod, WithdrawTabs
<1>3. CASE OpenFromTabs \/ HandleContinue \/ HandleScanInstead \/ HandleWithdraw \/ SuccessDone
  <2>1. PICK name \in {"options", "withdraw", "bank", "accept", "qr", "summary", "splash"} : Push(name, NoSale)
    BY <1>3 DEF OpenFromTabs, HandleContinue, HandleScanInstead, HandleWithdraw, SuccessDone
  <2>2. name \in ScreenNames /\ SaleFits(name, NoSale, entered) /\ UNCHANGED <<fades, entered>>
    BY <1>3 DEF OpenFromTabs, HandleContinue, HandleScanInstead, HandleWithdraw, SuccessDone, ScreenNames, SaleFits
  <2> QED
    BY <2>1, <2>2, PushKeeps
<1>4. CASE HandleAmountSelect
  <2>1. PICK a \in Sales \cup {NoSale} :
          stack' = [stack EXCEPT ![Len(stack)].sale = a] /\ entered' = entered \cup ({a} \cap Sales)
    BY <1>4 DEF HandleAmountSelect
  <2>2. entered \subseteq entered' /\ entered' \subseteq Sales /\ a \in entered' \cup {NoSale}
    BY <2>1 DEF MerchantInv
  <2> QED
    BY <1>4, <2>1, <2>2, SaleKeeps DEF HandleAmountSelect, Shows
<1>5. CASE HandleMaxPress
  <2>1. PICK a \in Sales \cup {NoSale} : stack' = [stack EXCEPT ![Len(stack)].sale = a]
    BY <1>5 DEF HandleMaxPress
  <2>2. entered \subseteq entered' /\ entered' \subseteq Sales
    BY <1>5 DEF HandleMaxPress, MerchantInv
  <2> QED
    BY <1>5, <2>1, <2>2, SaleKeeps DEF HandleMaxPress, Shows
<1>6. CASE HandleGenerateQR
  <2>1. "waiting" \in ScreenNames /\ Top.sale \in Sales \cup {NoSale} /\ Push("waiting", Top.sale)
        /\ UNCHANGED <<fades, entered>>
    BY <1>6, TopTyped DEF HandleGenerateQR, Screens, ScreenNames
  <2>2. SaleFits("waiting", Top.sale, entered)
    BY <1>6, TopTyped DEF HandleGenerateQR, Shows, CanGenerate, ScreenFits, SaleFits
  <2> QED
    BY <2>1, <2>2, PushKeeps
<1>7. CASE TimeoutFires
  BY <1>7, TimeoutKeeps
<1>8. ASSUME NEW f \in fades, FadeEnds(f) PROVE MerchantInv'
  <2>1. f.to \in ScreenNames /\ f.to # "qr" /\ f.to # "waiting" /\ f.sale \in Sales \cup {NoSale}
    BY DEF MerchantInv, Fades, ScreenNames
  <2>2. SaleFits(f.to, f.sale, entered)
    BY DEF MerchantInv, Fades, SaleFits
  <2>3. Push(f.to, f.sale) /\ fades' \subseteq fades /\ entered' = entered
    BY <1>8 DEF FadeEnds
  <2> QED
    BY <2>1, <2>2, <2>3, PushKeeps
<1>9. CASE HandleDone \/ HandleConfirm
  <2>1. PICK to \in {"tabs", "success"} : fades' = fades \cup {[id |-> Top.id, to |-> to, sale |-> NoSale]}
    BY <1>9 DEF HandleDone, HandleConfirm
  <2>2. Top.id \in 1..MaxScreens
    BY <1>9, TopTyped DEF HandleDone, HandleConfirm, Shows, ScreenFits, Screens
  <2> DEFINE f == [id |-> Top.id, to |-> to, sale |-> NoSale]
  <2>3. f \in Fades /\ f.to \notin {"contact", "received"}
    BY <2>2 DEF Fades
  <2> HIDE DEF f
  <2>4. fades' = fades \cup {f} /\ timers' \subseteq timers /\ UNCHANGED <<stack, pushed, entered>>
    BY <1>9, <2>1 DEF HandleDone, HandleConfirm, f
  <2> QED
    BY <2>3, <2>4, FadeKeeps
<1> QED
  BY <1>1, <1>2, <1>3, <1>4, <1>5, <1>6, <1>7, <1>8, <1>9 DEF MerchantNext

LEMMA TabsStart == ASSUME TabInit PROVE TabsInv
BY DEF TabInit, TabsInv
LEMMA TabsRest == ASSUME TabsInv, UNCHANGED tabVars PROVE TabsInv'
BY DEF TabsInv, tabVars
LEMMA TabsStep == ASSUME TabsInv, TabNext PROVE TabsInv'
<1>1. biometricsOn' \in BOOLEAN
  BY DEF TabsInv, TabNext, SelectTab, SetActiveFilter, SetBiometrics
<1> QED
  BY <1>1 DEF TabsInv, TabNext, SelectTab, SetActiveFilter, SetBiometrics

LEMMA MerchantShows ==
    ASSUME MerchantInv, TabsInv
    PROVE  MerchantTypeOK /\ TimersAreMounted /\ CollectsWhatWasEntered
<1>1. \A i \in 1..Len(stack) : stack[i] \in Screens
  BY TopTyped
<1>2. Len(stack) \in 1..(MaxScreens + 1) /\ pushed \in 0..MaxScreens
  BY MerchantConstants DEF MerchantInv
<1>3. timers \subseteq 1..MaxScreens
  <2> SUFFICES ASSUME NEW id \in timers PROVE id \in 1..MaxScreens
    OBVIOUS
  <2>1. PICK i \in 1..Len(stack) : stack[i].id = id /\ stack[i].name \in {"waiting", "contact"}
    BY DEF MerchantInv
  <2>2. stack[i].id \in 0..MaxScreens /\ stack[i].id > 0
    BY <1>1, <2>1 DEF MerchantInv, ScreenFits, Screens
  <2> QED
    BY <2>1, <2>2
<1>4. \A f \in fades : f.id \in 1..MaxScreens /\ f.to \in ScreenNames /\ f.sale \in Sales \cup {NoSale}
  BY DEF MerchantInv, Fades, ScreenNames
<1>5. MerchantTypeOK
  BY <1>1, <1>2, <1>3, <1>4 DEF MerchantInv, TabsInv, MerchantTypeOK, SalesShown, Screens
<1>6. TimersAreMounted
  BY DEF MerchantInv, TimersAreMounted
<1>7. CollectsWhatWasEntered
  BY DEF MerchantInv, ScreenFits, SaleFits, CollectsWhatWasEntered, WaitingAmount, ReceivedAmount, QrAmount
<1> QED
  BY <1>5, <1>6, <1>7

-----------------------------------------------------------------------------
(***************************************************************************)
(* The screens side by side: one is used, the others rest.                 *)
(***************************************************************************)
PaymentsInv ==
    /\ part \in Parts
    /\ TransferInv
    /\ YieldHomeInv /\ CardInv /\ FeedHomeInv
    /\ HistoryInv /\ SpeedInv /\ ReceiptInv
    /\ ScanInv /\ ReceiveInv /\ TapInv
    /\ FundInv /\ ClaimInv
    /\ BatchInv /\ DetailInv
    /\ MerchantInv /\ TabsInv

LEMMA PaymentsStart == Init => PaymentsInv
BY TransferStarts, YieldHomeStarts, CardStarts, FeedHomeStarts, HistoryStarts, SpeedStarts, ReceiptStarts,
   ScanStarts, ReceiveStarts, TapStarts, FundStarts, ClaimStarts, BatchStarts, DetailStarts,
   MerchantStarts, TabsStart DEF Init, PaymentsInv

\* What a step does to the parts of a screen: one of their own steps, or nothing.
LEMMA PartsMove ==
    ASSUME [Next]_vars
    PROVE  /\ part' = part
           /\ TransferNext \/ UNCHANGED transferVars
           /\ YieldHomeNext \/ UNCHANGED yieldHomeVars
           /\ CardNext \/ UNCHANGED cardVars
           /\ FeedHomeNext \/ UNCHANGED feedHomeVars
           /\ HistoryNext \/ UNCHANGED historyVars
           /\ SpeedNext \/ UNCHANGED speedVars
           /\ ReceiptNext \/ UNCHANGED receiptVars
           /\ ScanNext \/ UNCHANGED scanVars
           /\ ReceiveNext \/ UNCHANGED receiveVars
           /\ TapNext \/ UNCHANGED tapStep
           /\ FundNext \/ UNCHANGED fundVars
           /\ ClaimNext \/ UNCHANGED claimVars
           /\ BatchNext \/ UNCHANGED batchVars
           /\ DetailNext \/ UNCHANGED detailVars
           /\ MerchantNext \/ UNCHANGED merchantVars
           /\ TabNext \/ UNCHANGED tabVars
<1> USE DEF Next, vars, Except, OfHome, OfHistory, OfScan, OfFunds, OfBatch, OfMerchant,
            NotHome, NotHistory, NotScan, NotFunds, NotBatch, NotMerchant
<1>1. part' = part /\ (TransferNext \/ UNCHANGED transferVars)
  OBVIOUS
<1>2. /\ YieldHomeNext \/ UNCHANGED yieldHomeVars
      /\ CardNext \/ UNCHANGED cardVars
      /\ FeedHomeNext \/ UNCHANGED feedHomeVars
  OBVIOUS
<1>3. /\ HistoryNext \/ UNCHANGED historyVars
      /\ SpeedNext \/ UNCHANGED speedVars
      /\ ReceiptNext \/ UNCHANGED receiptVars
  OBVIOUS
<1>4. /\ ScanNext \/ UNCHANGED scanVars
      /\ ReceiveNext \/ UNCHANGED receiveVars
      /\ TapNext \/ UNCHANGED tapStep
  OBVIOUS
<1>5. /\ FundNext \/ UNCHANGED fundVars
      /\ ClaimNext \/ UNCHANGED claimVars
      /\ BatchNext \/ UNCHANGED batchVars
      /\ DetailNext \/ UNCHANGED detailVars
  OBVIOUS
<1>6. /\ MerchantNext \/ UNCHANGED merchantVars
      /\ TabNext \/ UNCHANGED tabVars
  OBVIOUS
<1> QED
  BY <1>1, <1>2, <1>3, <1>4, <1>5, <1>6

LEMMA PaymentsStep ==
    ASSUME ~OverlapLoads, ~SlowReads
    PROVE  PaymentsInv /\ [Next]_vars => PaymentsInv'
<1> SUFFICES ASSUME PaymentsInv, [Next]_vars PROVE PaymentsInv'
  OBVIOUS
<1>1. TransferInv'
  BY PartsMove, TransferStep, TransferRests DEF PaymentsInv
<1>2. YieldHomeInv' /\ CardInv' /\ FeedHomeInv'
  BY PartsMove, YieldHomeStep, YieldHomeRests, CardStep, CardRests, FeedHomeStep, FeedHomeRests DEF PaymentsInv
<1>3. HistoryInv' /\ SpeedInv' /\ ReceiptInv'
  BY PartsMove, HistoryStep, HistoryRests, SpeedStep, SpeedRests, ReceiptStep, ReceiptRests DEF PaymentsInv
<1>4. ScanInv' /\ ReceiveInv' /\ TapInv'
  BY PartsMove, ScanStep, ScanRests, ReceiveStepKeeps, ReceiveRests, TapStepKeeps, TapRests DEF PaymentsInv
<1>5. FundInv' /\ ClaimInv'
  BY PartsMove, FundStep, FundRests, ClaimStep, ClaimRests DEF PaymentsInv
<1>6. BatchInv' /\ DetailInv'
  BY PartsMove, BatchStepKeeps, BatchRests, DetailStep, DetailRests DEF PaymentsInv
<1>7. MerchantInv' /\ TabsInv'
  BY PartsMove, MerchantStep, MerchantRests, TabsStep, TabsRest DEF PaymentsInv
<1>8. part' \in Parts
  BY PartsMove DEF PaymentsInv, Parts
<1> QED
  BY <1>1, <1>2, <1>3, <1>4, <1>5, <1>6, <1>7, <1>8 DEF PaymentsInv

LEMMA PaymentsHold ==
    ASSUME ~OverlapLoads, ~SlowReads
    PROVE  Spec => []PaymentsInv
BY PaymentsStart, PaymentsStep, PTL DEF Spec

\* Whatever the user edits, however often a button is pressed and in whatever
\* order answers come, for every set of recipients, codes, files, networks and
\* sales: each payment was authenticated for itself, under the name and the fee
\* of its recipient, what a code, a file or a till hands on can be paid, and a
\* bridge transfer is started once a press and once a repetition.  Assumed: no
\* second page of the history is asked for while one is under way, and a file
\* is read before another is picked (transfer.tsx's handleSend, scan.tsx's
\* handleBarCodeScanned, fund.tsx's handleContinue, the merchant's screens).
THEOREM AlwaysPaysWhatWasMeant ==
    ASSUME ~OverlapLoads, ~SlowReads
    PROVE  Spec => []PaysWhatWasMeant
<1>1. PaymentsInv => PaysWhatWasMeant
  BY TransferShows, ScanShows, FundsShow, BatchShows, MerchantShows DEF PaymentsInv, PaysWhatWasMeant
<1> QED
  BY <1>1, PaymentsHold, PTL

\* Under the same assumptions a screen shows what was asked for last: the yield
\* of the last request, the comments of the payment that was opened, a prefix of
\* the history the present filter lets through, whatever its length and the size
\* of its pages, and the claim of the token that was typed; the scanner listens
\* when nothing is shown, and no timer outlives its screen (home.tsx, history.tsx,
\* claim.tsx, scan.tsx, the merchant's screens).
THEOREM ScreensAlwaysFollow ==
    ASSUME ~OverlapLoads, ~SlowReads
    PROVE  Spec => []ScreensFollow
<1>1. PaymentsInv => TypeOK
  BY TransferShows, HomeShows, HistoryShows, ScanShows, FundsShow, BatchShows, MerchantShows DEF PaymentsInv, TypeOK
<1>2. PaymentsInv => ScreensFollow
  BY <1>1, HomeShows, HistoryShows, ScanShows, FundsShow, MerchantShows DEF PaymentsInv, ScreensFollow
<1> QED
  BY <1>2, PaymentsHold, PTL

-----------------------------------------------------------------------------
(***************************************************************************)
(* The offline queue.                                                      *)
(***************************************************************************)
Sending == flush.pc = "sending"

FlushState ==
    [pc : {"idle", "reading", "sending"}, now : SUBSET (Txs \X Nat), todo : Seq(Items), kept : Seq(Items)]

Members(q) == {q[i] : i \in DOMAIN q}
Once(q) == \A i, j \in DOMAIN q : q[i].tx = q[j].tx => i = j

\* Who is going to write the stored queue has read it as it is.
OneWriter ==
    /\ \A t \in Txs : call[t] = "appending" => ~Sending /\ seen[t] = queue
    /\ \A t, u \in Txs : call[t] = "appending" /\ call[u] = "appending" => t = u

OnceStored == Once(queue) /\ \A t \in TxsIn(queue) : call[t] = "queued"

\* While a flush sends, what it read is to do, kept, or done with.
FlushSplits == Sending =>
    /\ Once(flush.todo) /\ Once(flush.kept)
    /\ Members(flush.todo) \subseteq Members(queue)
    /\ TxsIn(flush.kept) \subseteq TxsIn(queue)
    /\ TxsIn(flush.kept) \cap TxsIn(flush.todo) = {}
    /\ \A t \in TxsIn(queue) : \/ t \in TxsIn(flush.todo) \cup TxsIn(flush.kept)
                               \/ answers[t] > 0 \/ t \in dropped

\* The tries written down are the sends, but for one of each flush that died.
Counted(q, more) ==
    \A m \in Members(q) : sends[m.tx] <= m.tries + kills + more /\ answers[m.tx] <= kills + more
Counts ==
    /\ Counted(queue, IF Sending THEN 1 ELSE 0)
    /\ Sending => Counted(flush.todo, 0) /\ Counted(flush.kept, 0)
    /\ \A t \in Txs : /\ sends[t] <= MaxRetries + kills /\ answers[t] <= 1 + kills
                      /\ call[t] # "queued" => sends[t] = 0 /\ answers[t] = 0

QueueInv ==
    /\ QueueTypeOK /\ flush \in FlushState
    /\ OneWriter /\ OnceStored /\ FlushSplits /\ Counts /\ NothingLost

LEMMA MembersTyped ==
    ASSUME NEW q \in Seq(Items)
    PROVE  /\ Members(q) \subseteq Items /\ TxsIn(q) \subseteq Txs
           /\ \A m \in Members(q) : m.tx \in TxsIn(q) /\ m.tx \in Txs /\ m.tries \in Nat /\ m.tries < MaxRetries
           /\ \A t \in TxsIn(q) : \E m \in Members(q) : m.tx = t
<1>1. \A i \in DOMAIN q : q[i] \in Items
  OBVIOUS
<1>2. \A m \in Items : m.tx \in Txs /\ m.tries \in Nat /\ m.tries < MaxRetries
  BY QueueAssumption DEF Items
<1> QED
  BY <1>1, <1>2 DEF Members, TxsIn

LEMMA OnceMeans ==
    ASSUME NEW q, Once(q)
    PROVE  \A m, n \in Members(q) : m.tx = n.tx => m = n
BY DEF Once, Members

LEMMA OfAppend ==
    ASSUME NEW q \in Seq(Items), NEW x \in Items
    PROVE  /\ Append(q, x) \in Seq(Items) /\ Members(Append(q, x)) = Members(q) \cup {x}
           /\ TxsIn(Append(q, x)) = TxsIn(q) \cup {x.tx}
           /\ Once(q) /\ x.tx \notin TxsIn(q) => Once(Append(q, x))
<1> DEFINE a == Append(q, x)
<1>1. /\ a \in Seq(Items) /\ Len(q) \in Nat /\ DOMAIN q = 1..Len(q) /\ DOMAIN a = 1..(Len(q) + 1)
      /\ a[Len(q) + 1] = x /\ \A i \in 1..Len(q) : a[i] = q[i]
  OBVIOUS
<1> HIDE DEF a
<1>2. \A i \in DOMAIN a : i \in DOMAIN q \/ i = Len(q) + 1
  BY <1>1
<1>3. Members(a) = Members(q) \cup {x} /\ TxsIn(a) = TxsIn(q) \cup {x.tx}
  <2>1. DOMAIN a = DOMAIN q \cup {Len(q) + 1}
    BY <1>1
  <2> QED
    BY <1>1, <2>1 DEF Members, TxsIn
<1>4. Once(q) /\ x.tx \notin TxsIn(q) => Once(a)
  BY <1>1, <1>2 DEF Once, TxsIn
<1> QED
  BY <1>1, <1>3, <1>4 DEF a

LEMMA OfTail ==
    ASSUME NEW q \in Seq(Items), q # <<>>
    PROVE  /\ Tail(q) \in Seq(Items) /\ Head(q) \in Items
           /\ Members(q) = Members(Tail(q)) \cup {Head(q)}
           /\ TxsIn(q) = TxsIn(Tail(q)) \cup {Head(q).tx}
           /\ Once(q) => Once(Tail(q)) /\ Head(q).tx \notin TxsIn(Tail(q))
<1> DEFINE a == Tail(q)
           h == Head(q)
<1>1. /\ a \in Seq(Items) /\ Len(q) \in Nat /\ Len(q) > 0 /\ DOMAIN q = 1..Len(q)
      /\ DOMAIN a = 1..(Len(q) - 1)
      /\ h = q[1] /\ h \in Items /\ \A i \in 1..(Len(q) - 1) : a[i] = q[i + 1]
  OBVIOUS
<1> HIDE DEF a, h
<1>2. /\ 1 \in DOMAIN q /\ \A i \in DOMAIN a : i + 1 \in DOMAIN q /\ a[i] = q[i + 1] /\ i + 1 # 1
      /\ \A i \in DOMAIN q : i = 1 \/ (i - 1 \in DOMAIN a /\ a[i - 1] = q[i])
  BY <1>1
<1>3. Members(q) = Members(a) \cup {h} /\ TxsIn(q) = TxsIn(a) \cup {h.tx}
  BY <1>1, <1>2 DEF Members, TxsIn
<1>4. Once(q) => Once(a) /\ h.tx \notin TxsIn(a)
  <2> SUFFICES ASSUME Once(q) PROVE Once(a) /\ h.tx \notin TxsIn(a)
    OBVIOUS
  <2>1. Once(a)
    <3> SUFFICES ASSUME NEW i \in DOMAIN a, NEW j \in DOMAIN a, a[i].tx = a[j].tx PROVE i = j
      BY DEF Once
    <3>1. i + 1 = j + 1
      BY <1>2 DEF Once
    <3> QED
      BY <1>1, <3>1
  <2>2. h.tx \notin TxsIn(a)
    BY <1>1, <1>2 DEF Once, TxsIn
  <2> QED
    BY <2>1, <2>2
<1> QED
  BY <1>1, <1>3, <1>4 DEF a, h

LEMMA OfEmpty == <<>> \in Seq(Items) /\ Members(<<>>) = {} /\ TxsIn(<<>>) = {} /\ Once(<<>>)
BY DEF Members, TxsIn, Once

LEMMA QueueTypes ==
    ASSUME QueueInv
    PROVE  /\ queue \in Seq(Items) /\ seen \in [Txs -> Seq(Items)] /\ flush \in FlushState
           /\ flush.todo \in Seq(Items) /\ flush.kept \in Seq(Items)
           /\ call \in [Txs -> {"new", "direct", "sent", "enqueue", "appending", "queued", "gone"}]
           /\ kills \in Nat /\ sends \in [Txs -> Nat] /\ answers \in [Txs -> Nat] /\ dropped \subseteq Txs
           /\ MaxRetries \in Nat \ {0}
BY QueueAssumption DEF QueueInv, QueueTypeOK

\* Steps of the clock and the network: at most a flush is called.
LEMMA QuietStep ==
    ASSUME QueueInv, UNCHANGED <<queue, callVars, kills, history>>, flush' \in FlushState,
           Sending' <=> Sending, flush'.todo = flush.todo, flush'.kept = flush.kept,
           online' \in BOOLEAN, booted' \in BOOLEAN, was' \in {"null", "online", "offline"},
           elapsed' \subseteq Txs \X Nat
    PROVE  QueueInv'
<1>0. UNCHANGED <<queue, call, seen, kills, sends, answers, dropped>>
  BY DEF callVars, history
<1>1. QueueTypeOK' /\ flush' \in FlushState
  BY <1>0 DEF QueueInv, QueueTypeOK, FlushState
<1>2. OneWriter' /\ OnceStored' /\ NothingLost'
  BY <1>0 DEF QueueInv, OneWriter, OnceStored, NothingLost, TxsIn, Once
<1>3. FlushSplits'
  BY <1>0 DEF QueueInv, FlushSplits
<1>4. Counts'
  BY <1>0 DEF QueueInv, Counts, Counted, Members
<1> QED
  BY <1>1, <1>2, <1>3, <1>4 DEF QueueInv, FlushState

LEMMA NetworkStep ==
    ASSUME QueueInv, NetworkChange \/ InitialFetch \/ BackoffElapses \/ UNCHANGED queueVars
    PROVE  QueueInv'
<1>0. flush' = flush \/ (flush.pc = "idle" /\ flush' = [flush EXCEPT !.pc = "reading"])
  BY DEF NetworkChange, InitialFetch, BackoffElapses, queueVars, FlushCalled
<1>1. /\ flush' \in FlushState /\ (Sending' <=> Sending)
      /\ flush'.todo = flush.todo /\ flush'.kept = flush.kept
  BY <1>0, QueueTypes DEF FlushState, Sending
<1>2. UNCHANGED <<queue, callVars, kills, history>>
  BY DEF NetworkChange, InitialFetch, BackoffElapses, queueVars
<1>3. online' \in BOOLEAN /\ booted' \in BOOLEAN /\ was' \in {"null", "online", "offline"}
  BY DEF NetworkChange, InitialFetch, BackoffElapses, queueVars, netVars, QueueInv, QueueTypeOK
<1>4. elapsed' \subseteq Txs \X Nat
  <2>1. elapsed \subseteq Txs \X Nat
    BY DEF QueueInv, QueueTypeOK
  <2>2. ASSUME NEW t \in Txs, NEW n \in 1..(MaxRetries - 1) PROVE <<t, n>> \in Txs \X Nat
    BY QueueAssumption
  <2>3. elapsed' = elapsed \/ \E t \in Txs, n \in 1..(MaxRetries - 1) : elapsed' = elapsed \cup {<<t, n>>}
    BY DEF NetworkChange, InitialFetch, BackoffElapses, queueVars
  <2> QED
    BY <2>1, <2>2, <2>3
<1> QED
  BY <1>1, <1>2, <1>3, <1>4, QuietStep

\* A call goes on without touching the stored queue.
LEMMA CallStep ==
    ASSUME QueueInv, NEW t \in Txs, CheckNetwork(t) \/ DirectRequest(t)
    PROVE  QueueInv'
<1>0. /\ call[t] \in {"new", "direct"} /\ UNCHANGED <<queue, netVars, seen, flush, elapsed, kills, history>>
      /\ \E c \in {"direct", "enqueue", "sent"} : call' = [call EXCEPT ![t] = c]
  BY DEF CheckNetwork, DirectRequest
<1>1. UNCHANGED <<queue, online, was, booted, seen, flush, elapsed, kills, sends, answers, dropped>>
  BY <1>0 DEF netVars, history
<1>2. /\ call' \in [Txs -> {"new", "direct", "sent", "enqueue", "appending", "queued", "gone"}]
      /\ \A u \in Txs : /\ call'[u] = "queued" <=> call[u] = "queued"
                        /\ call'[u] = "appending" <=> call[u] = "appending"
  BY <1>0, QueueTypes
<1>3. QueueTypeOK' /\ flush' \in FlushState
  BY <1>1, <1>2 DEF QueueInv, QueueTypeOK, FlushState
<1>4. OneWriter' /\ NothingLost'
  BY <1>1, <1>2 DEF QueueInv, OneWriter, NothingLost, Sending, TxsIn
<1>5. OnceStored'
  <2>1. TxsIn(queue) \subseteq Txs
    BY QueueTypes, MembersTyped
  <2> QED
    BY <1>1, <1>2, <2>1 DEF QueueInv, OnceStored, TxsIn, Once
<1>6. FlushSplits'
  BY <1>1 DEF QueueInv, FlushSplits, Sending
<1>7. Counts'
  BY <1>1, <1>2 DEF QueueInv, Counts, Counted, Members, Sending
<1> QED
  BY <1>3, <1>4, <1>5, <1>6, <1>7 DEF QueueInv, FlushState

\* enqueueTransaction reads the queue while nobody else is about to write it.
LEMMA EnqueueReadStep ==
    ASSUME QueueInv, ~Overlaps, NEW t \in Txs, EnqueueRead(t)
    PROVE  QueueInv'
<1>0. /\ call[t] = "enqueue" /\ StorageIsQuiet /\ call' = [call EXCEPT ![t] = "appending"]
      /\ seen' = [seen EXCEPT ![t] = queue]
      /\ UNCHANGED <<queue, online, was, booted, flush, elapsed, kills, sends, answers, dropped>>
  BY DEF EnqueueRead, netVars, history
<1>1. ~Sending /\ \A u \in Txs : call[u] # "appending"
  BY <1>0 DEF StorageIsQuiet, Sending
<1>2. /\ call' \in [Txs -> {"new", "direct", "sent", "enqueue", "appending", "queued", "gone"}]
      /\ \A u \in Txs : /\ call'[u] = "queued" <=> call[u] = "queued"
                        /\ call'[u] = "appending" <=> u = t
      /\ seen' \in [Txs -> Seq(Items)] /\ seen'[t] = queue
  BY <1>0, <1>1, QueueTypes
<1>3. QueueTypeOK' /\ flush' \in FlushState
  BY <1>0, <1>2 DEF QueueInv, QueueTypeOK, FlushState
<1>4. OneWriter' /\ NothingLost'
  BY <1>0, <1>1, <1>2 DEF QueueInv, OneWriter, NothingLost, Sending, TxsIn
<1>5. OnceStored'
  <2>1. TxsIn(queue) \subseteq Txs
    BY QueueTypes, MembersTyped
  <2> QED
    BY <1>0, <1>2, <2>1 DEF QueueInv, OnceStored, TxsIn, Once
<1>6. FlushSplits'
  BY <1>0, <1>1 DEF FlushSplits, Sending
<1>7. Counts'
  BY <1>0, <1>2 DEF QueueInv, Counts, Counted, Members, Sending
<1> QED
  BY <1>3, <1>4, <1>5, <1>6, <1>7 DEF QueueInv, FlushState

LEMMA EnqueueWriteStep ==
    ASSUME QueueInv, NEW t \in Txs, EnqueueWrite(t)
    PROVE  QueueInv'
<1> DEFINE x == [tx |-> t, tries |-> 0]
<1>0. /\ call[t] = "appending" /\ call' = [call EXCEPT ![t] = "queued"]
      /\ queue' = Append(seen[t], x) /\ seen' = [seen EXCEPT ![t] = <<>>]
      /\ UNCHANGED <<online, was, booted, flush, elapsed, kills, sends, answers, dropped>>
  BY DEF EnqueueWrite, netVars, history
<1>1. ~Sending /\ seen[t] = queue /\ \A u \in Txs : call[u] = "appending" => u = t
  BY <1>0 DEF QueueInv, OneWriter
<1>2. x \in Items /\ x.tx = t /\ x.tries = 0
  BY QueueAssumption DEF Items
<1>3. t \notin TxsIn(queue)
  BY <1>0 DEF QueueInv, OnceStored
<1> HIDE DEF x
<1>4. /\ queue' \in Seq(Items) /\ Members(queue') = Members(queue) \cup {x}
      /\ TxsIn(queue') = TxsIn(queue) \cup {t} /\ Once(queue')
  <2>1. Once(queue) /\ queue \in Seq(Items)
    BY QueueTypes DEF QueueInv, OnceStored
  <2> QED
    BY <1>0, <1>1, <1>2, <1>3, <2>1, OfAppend
<1>5. /\ call' \in [Txs -> {"new", "direct", "sent", "enqueue", "appending", "queued", "gone"}]
      /\ \A u \in Txs : /\ call'[u] = "queued" <=> (call[u] = "queued" \/ u = t)
                        /\ call'[u] # "appending"
      /\ seen' \in [Txs -> Seq(Items)]
  BY <1>0, <1>1, QueueTypes, OfEmpty
<1>6. QueueTypeOK' /\ flush' \in FlushState
  BY <1>0, <1>4, <1>5 DEF QueueInv, QueueTypeOK, FlushState
<1>7. OneWriter'
  BY <1>5 DEF OneWriter
<1>8. NothingLost'
  BY <1>0, <1>4, <1>5 DEF QueueInv, NothingLost
<1>9. OnceStored'
  <2>1. TxsIn(queue) \subseteq Txs
    BY QueueTypes, MembersTyped
  <2> QED
    BY <1>4, <1>5, <2>1 DEF QueueInv, OnceStored
<1>10. FlushSplits'
  BY <1>0, <1>1 DEF FlushSplits, Sending
<1>11. Counts'
  <2>1. sends[t] = 0 /\ answers[t] = 0
    BY <1>0 DEF QueueInv, Counts
  <2>2. Counted(queue, 0)
    BY <1>1 DEF QueueInv, Counts
  <2>3. ~Sending'
    BY <1>0, <1>1 DEF Sending
  <2>4. \A m \in Members(queue') : sends'[m.tx] <= m.tries + kills' + 0 /\ answers'[m.tx] <= kills' + 0
    BY <1>0, <1>2, <1>4, <2>1, <2>2, QueueTypes DEF Counted
  <2>5. \A u \in Txs : /\ sends'[u] <= MaxRetries + kills' /\ answers'[u] <= 1 + kills'
                       /\ call'[u] # "queued" => sends'[u] = 0 /\ answers'[u] = 0
    BY <1>0, <1>5 DEF QueueInv, Counts
  <2> QED
    BY <2>3, <2>4, <2>5 DEF Counts, Counted, Members
<1> QED
  BY <1>6, <1>7, <1>8, <1>9, <1>10, <1>11 DEF QueueInv, FlushState

\* The flush reads the queue: everything is to do.
LEMMA FlushReadStep ==
    ASSUME QueueInv, ~Overlaps, FlushRead
    PROVE  QueueInv'
<1>0. /\ flush.pc = "reading" /\ StorageIsQuiet
      /\ flush' = IF queue = <<>> THEN NoFlush
                  ELSE [pc |-> "sending", now |-> elapsed, todo |-> queue, kept |-> <<>>]
      /\ UNCHANGED <<queue, online, was, booted, call, seen, elapsed, kills, sends, answers, dropped>>
  BY DEF FlushRead, netVars, callVars, history
<1>1. ~Sending /\ \A u \in Txs : call[u] # "appending"
  BY <1>0 DEF StorageIsQuiet, Sending
<1>2. /\ flush' \in FlushState /\ flush'.kept = <<>>
      /\ Sending' => flush'.todo = queue
  BY <1>0, QueueTypes, OfEmpty DEF NoFlush, FlushState, Sending, QueueInv, QueueTypeOK
<1>3. QueueTypeOK'
  BY <1>0, <1>2 DEF QueueInv, QueueTypeOK, FlushState
<1>4. OneWriter' /\ OnceStored' /\ NothingLost'
  BY <1>0, <1>1 DEF QueueInv, OneWriter, OnceStored, NothingLost
<1>5. FlushSplits'
  BY <1>0, <1>2, OfEmpty DEF QueueInv, OnceStored, FlushSplits
<1>6. Counts'
  <2>1. Counted(queue, 0)
    BY <1>1 DEF QueueInv, Counts
  <2>2. \A m \in Members(queue) : sends[m.tx] \in Nat /\ answers[m.tx] \in Nat /\ m.tries \in Nat
    BY QueueTypes, MembersTyped
  <2>3. Counted(queue, 1)
    BY <2>1, <2>2, QueueTypes DEF Counted
  <2>4. Counted(<<>>, 0)
    BY OfEmpty DEF Counted
  <2>5. \A q, n : Counted(q, n)' <=> Counted(q, n)
    BY <1>0 DEF Counted
  <2>6. Counted(queue', IF Sending' THEN 1 ELSE 0)
    BY <1>0, <2>1, <2>3
  <2> QED
    BY <1>0, <1>2, <2>1, <2>4, <2>6 DEF QueueInv, Counts, Counted
<1> QED
  BY <1>2, <1>3, <1>4, <1>5, <1>6 DEF QueueInv, FlushState

-----------------------------------------------------------------------------
\* Counted, with what it counts as arguments.
CountedIn(q, s, a, k) == \A m \in Members(q) : s[m.tx] <= m.tries + k /\ a[m.tx] <= k

LEMMA CountedMeans ==
    ASSUME NEW q \in Seq(Items), sends \in [Txs -> Nat], answers \in [Txs -> Nat], kills \in Nat
    PROVE  /\ Counted(q, 0) <=> CountedIn(q, sends, answers, kills)
           /\ Counted(q, 1) <=> CountedIn(q, sends, answers, kills + 1)
<1>1. \A m \in Members(q) : m.tx \in Txs /\ m.tries \in Nat
  BY MembersTyped
<1>2. \A m \in Members(q) : /\ m.tries + kills + 0 = m.tries + kills
                            /\ m.tries + kills + 1 = m.tries + (kills + 1)
  BY <1>1
<1>3. kills + 0 = kills
  OBVIOUS
<1> QED
  BY <1>2, <1>3 DEF Counted, CountedIn

\* Sending one transaction does not concern the items of others ...
LEMMA OthersCounted ==
    ASSUME NEW q \in Seq(Items), NEW s, NEW s1, NEW a, NEW a1, NEW k, NEW t, t \notin TxsIn(q),
           \A u \in Txs \ {t} : s1[u] = s[u] /\ a1[u] = a[u], CountedIn(q, s, a, k)
    PROVE  CountedIn(q, s1, a1, k)
<1>1. \A m \in Members(q) : m.tx \in Txs \ {t}
  BY MembersTyped
<1> QED
  BY <1>1 DEF CountedIn

\* ... and uses up the allowance of its own.
LEMMA HeadCounted ==
    ASSUME NEW q \in Seq(Items), Once(q), NEW h \in Members(q), NEW k \in Nat,
           NEW s \in [Txs -> Nat], NEW s1 \in [Txs -> Nat], NEW a \in [Txs -> Nat], NEW a1 \in [Txs -> Nat],
           CountedIn(q, s, a, k + 1), s[h.tx] <= h.tries + k, a[h.tx] <= k,
           \A u \in Txs \ {h.tx} : s1[u] = s[u] /\ a1[u] = a[u],
           s1[h.tx] <= s[h.tx] + 1, a1[h.tx] <= a[h.tx] + 1
    PROVE  CountedIn(q, s1, a1, k + 1)
<1>0. h.tx \in Txs /\ h.tries \in Nat /\ s[h.tx] \in Nat /\ s1[h.tx] \in Nat /\ a[h.tx] \in Nat /\ a1[h.tx] \in Nat
  BY MembersTyped
<1>1. s1[h.tx] <= h.tries + (k + 1) /\ a1[h.tx] <= k + 1
  BY <1>0
<1> SUFFICES ASSUME NEW m \in Members(q) PROVE s1[m.tx] <= m.tries + (k + 1) /\ a1[m.tx] <= k + 1
  BY DEF CountedIn
<1>2. CASE m.tx = h.tx
  <2>1. m = h
    BY <1>2, OnceMeans
  <2> QED
    BY <1>1, <2>1
<1>3. CASE m.tx # h.tx
  <2>1. m.tx \in Txs \ {h.tx}
    BY <1>3, MembersTyped
  <2>2. s[m.tx] <= m.tries + (k + 1) /\ a[m.tx] <= k + 1
    BY DEF CountedIn
  <2>3. s1[m.tx] = s[m.tx] /\ a1[m.tx] = a[m.tx]
    BY <2>1
  <2> QED
    BY <2>2, <2>3
<1> QED
  BY <1>2, <1>3

LEMMA AppendCounted ==
    ASSUME NEW q \in Seq(Items), NEW x \in Items, NEW s, NEW a, NEW k,
           CountedIn(q, s, a, k), s[x.tx] <= x.tries + k, a[x.tx] <= k
    PROVE  CountedIn(Append(q, x), s, a, k)
BY OfAppend DEF CountedIn

\* The sends and answers go from s and a to s1 and a1 by one of t at most.
OneMoreOf(t, s, s1, a, a1) ==
    /\ \A u \in Txs \ {t} : s1[u] = s[u] /\ a1[u] = a[u]
    /\ s1[t] <= s[t] + 1 /\ a1[t] <= a[t] + 1

Totals(s, a, k) == \A u \in Txs : s[u] <= MaxRetries + k /\ a[u] <= 1 + k

\* An item with retries left may be sent once more.
LEMMA TotalsHold ==
    ASSUME NEW h \in Items, NEW k \in Nat,
           NEW s \in [Txs -> Nat], NEW s1 \in [Txs -> Nat], NEW a \in [Txs -> Nat], NEW a1 \in [Txs -> Nat],
           Totals(s, a, k), OneMoreOf(h.tx, s, s1, a, a1), s[h.tx] <= h.tries + k, a[h.tx] <= k
    PROVE  Totals(s1, a1, k)
<1>1. h.tx \in Txs /\ h.tries \in Nat /\ h.tries + 1 <= MaxRetries /\ MaxRetries \in Nat
  BY QueueAssumption DEF Items
<1>2. s[h.tx] \in Nat /\ s1[h.tx] \in Nat /\ a[h.tx] \in Nat /\ a1[h.tx] \in Nat
  BY <1>1
<1>3. s1[h.tx] <= MaxRetries + k /\ a1[h.tx] <= 1 + k
  BY <1>1, <1>2 DEF OneMoreOf
<1> QED
  BY <1>3 DEF Totals, OneMoreOf

\* An item that failed and has retries left is an item.
LEMMA TriedAgain ==
    ASSUME NEW h \in Items, ~(h.tries + 1 >= MaxRetries)
    PROVE  LET x == [h EXCEPT !.tries = @ + 1] IN x \in Items /\ x.tx = h.tx /\ x.tries = h.tries + 1
BY QueueAssumption DEF Items

\* What a flush that is sending knows of its next item.
LEMMA NextItem ==
    ASSUME QueueInv, Sending, flush.todo # <<>>, NEW h, h = Head(flush.todo)
    PROVE  /\ h \in Items /\ h \in Members(queue) /\ h.tx \in Txs /\ h.tries \in Nat /\ h.tries < MaxRetries
           /\ h.tx \in TxsIn(queue) /\ call[h.tx] = "queued" /\ h.tx \notin TxsIn(flush.kept)
           /\ sends[h.tx] \in Nat /\ answers[h.tx] \in Nat
           /\ sends[h.tx] <= h.tries + kills /\ answers[h.tx] <= kills
<1>0. /\ queue \in Seq(Items) /\ flush.todo \in Seq(Items) /\ flush.kept \in Seq(Items)
      /\ kills \in Nat /\ sends \in [Txs -> Nat] /\ answers \in [Txs -> Nat]
  BY QueueTypes
<1>1. h \in Items /\ h \in Members(flush.todo) /\ h.tx \in TxsIn(flush.todo)
  BY <1>0, OfTail
<1>2. /\ Members(flush.todo) \subseteq Members(queue) /\ TxsIn(flush.kept) \cap TxsIn(flush.todo) = {}
      /\ \A t \in TxsIn(queue) : call[t] = "queued"
  BY DEF QueueInv, FlushSplits, OnceStored
<1>3. /\ h \in Members(queue) /\ h.tx \in TxsIn(queue) /\ h.tx \in Txs /\ h.tries \in Nat /\ h.tries < MaxRetries
  BY <1>0, <1>1, <1>2, MembersTyped
<1>4. CountedIn(flush.todo, sends, answers, kills)
  BY <1>0, CountedMeans DEF QueueInv, Counts
<1> QED
  BY <1>0, <1>1, <1>2, <1>3, <1>4 DEF CountedIn

\* One item is dealt with: kept with what it has been sent, or done with.
LEMMA ItemStep ==
    ASSUME QueueInv, Sending, flush.todo # <<>>, NEW h, h = Head(flush.todo), NEW kept \in Seq(Items),
           flush' \in FlushState, Sending', flush'.todo = Tail(flush.todo), flush'.kept = kept,
           UNCHANGED <<queue, netVars, callVars, kills>>, elapsed' \subseteq Txs \X Nat,
           sends' \in [Txs -> Nat], answers' \in [Txs -> Nat], dropped \subseteq dropped', dropped' \subseteq Txs,
           \A u \in Txs \ {h.tx} : sends'[u] = sends[u] /\ answers'[u] = answers[u],
           sends'[h.tx] <= sends[h.tx] + 1, answers'[h.tx] <= answers[h.tx] + 1,
           Once(kept), TxsIn(kept) \subseteq TxsIn(flush.kept) \cup {h.tx}, TxsIn(flush.kept) \subseteq TxsIn(kept),
           h.tx \in TxsIn(kept) \/ answers'[h.tx] > 0 \/ h.tx \in dropped',
           CountedIn(kept, sends', answers', kills)
    PROVE  QueueInv'
<1>0. /\ UNCHANGED <<queue, online, was, booted, call, seen, kills>>
      /\ queue \in Seq(Items) /\ flush.todo \in Seq(Items) /\ flush.kept \in Seq(Items)
      /\ kills \in Nat /\ sends \in [Txs -> Nat] /\ answers \in [Txs -> Nat] /\ MaxRetries \in Nat \ {0}
  BY QueueTypes DEF netVars, callVars
<1>2. /\ Once(flush.todo) /\ Members(flush.todo) \subseteq Members(queue)
      /\ TxsIn(flush.kept) \subseteq TxsIn(queue) /\ TxsIn(flush.kept) \cap TxsIn(flush.todo) = {}
      /\ \A t \in TxsIn(queue) : \/ t \in TxsIn(flush.todo) \cup TxsIn(flush.kept)
                                 \/ answers[t] > 0 \/ t \in dropped
      /\ Once(queue)
  BY DEF QueueInv, FlushSplits, OnceStored
<1>3. /\ Members(Tail(flush.todo)) \subseteq Members(flush.todo)
      /\ TxsIn(flush.todo) = TxsIn(Tail(flush.todo)) \cup {h.tx} /\ h.tx \notin TxsIn(Tail(flush.todo))
      /\ Once(Tail(flush.todo)) /\ Tail(flush.todo) \in Seq(Items)
  BY <1>0, <1>2, OfTail
<1>4. /\ h \in Members(queue) /\ h.tx \in TxsIn(queue) /\ h.tx \in Txs /\ h.tries \in Nat /\ h.tries < MaxRetries
      /\ call[h.tx] = "queued" /\ sends[h.tx] \in Nat /\ answers[h.tx] \in Nat
      /\ sends[h.tx] <= h.tries + kills /\ answers[h.tx] <= kills
  BY NextItem
<1>6. TxsIn(kept) \subseteq TxsIn(queue) /\ TxsIn(kept) \cap TxsIn(Tail(flush.todo)) = {}
  BY <1>2, <1>3, <1>4
<1>7. FlushSplits'
  <2>1. ASSUME NEW t \in TxsIn(queue)
        PROVE  \/ t \in TxsIn(Tail(flush.todo)) \cup TxsIn(kept)
               \/ answers'[t] > 0 \/ t \in dropped'
    <3>1. CASE t = h.tx
      BY <3>1
    <3>2. CASE t # h.tx
      <4>1. t \in Txs
        BY <1>0, MembersTyped
      <4> QED
        BY <1>2, <1>3, <3>2, <4>1
    <3> QED
      BY <3>1, <3>2
  <2>2. Members(Tail(flush.todo)) \subseteq Members(queue)
    BY <1>2, <1>3
  <2> QED
    BY <1>0, <1>3, <1>6, <2>1, <2>2 DEF FlushSplits
<1>8. Counts'
  <2>1. CountedIn(queue, sends', answers', kills + 1)
    <3>1. CountedIn(queue, sends, answers, kills + 1)
      BY <1>0, CountedMeans DEF QueueInv, Counts
    <3> QED
      BY <1>0, <1>2, <1>4, <3>1, HeadCounted
  <2>2. CountedIn(Tail(flush.todo), sends', answers', kills)
    <3>1. CountedIn(flush.todo, sends, answers, kills)
      BY <1>0, CountedMeans DEF QueueInv, Counts
    <3>2. CountedIn(Tail(flush.todo), sends, answers, kills)
      BY <1>3, <3>1 DEF CountedIn
    <3> QED
      BY <1>3, <3>2, OthersCounted
  <2>3. \A u \in Txs : sends'[u] <= MaxRetries + kills /\ answers'[u] <= 1 + kills
    <3>1. h \in Items
      BY NextItem
    <3>2. Totals(sends, answers, kills)
      BY DEF QueueInv, Counts, Totals
    <3>3. OneMoreOf(h.tx, sends, sends', answers, answers')
      BY DEF OneMoreOf
    <3>4. Totals(sends', answers', kills)
      BY <1>0, <1>4, <3>1, <3>2, <3>3, TotalsHold
    <3> QED
      BY <3>4 DEF Totals
  <2>4. ASSUME NEW u \in Txs, call[u] # "queued"
        PROVE  sends'[u] = 0 /\ answers'[u] = 0
    <3>1. u # h.tx /\ sends[u] = 0 /\ answers[u] = 0
      BY <1>4, <2>4 DEF QueueInv, Counts
    <3> QED
      BY <3>1
  <2>5. /\ \A m \in Members(queue') : sends'[m.tx] <= m.tries + kills' + 1 /\ answers'[m.tx] <= kills' + 1
        /\ \A m \in Members(flush'.todo) : sends'[m.tx] <= m.tries + kills' + 0 /\ answers'[m.tx] <= kills' + 0
        /\ \A m \in Members(flush'.kept) : sends'[m.tx] <= m.tries + kills' + 0 /\ answers'[m.tx] <= kills' + 0
    <3>1. /\ kills + 0 = kills
          /\ \A m \in Items : m.tries + kills + 0 = m.tries + kills /\ m.tries + kills + 1 = m.tries + (kills + 1)
      <4>1. \A m \in Items : m.tries \in Nat
        BY <1>0 DEF Items
      <4> QED
        BY <1>0, <4>1
    <3>2. Members(kept) \subseteq Items /\ Members(Tail(flush.todo)) \subseteq Items /\ Members(queue) \subseteq Items
      BY <1>0, <1>3, MembersTyped
    <3>3. \A m \in Members(queue) : sends'[m.tx] <= m.tries + kills + 1 /\ answers'[m.tx] <= kills + 1
      BY <2>1, <3>1, <3>2 DEF CountedIn
    <3>4. \A m \in Members(Tail(flush.todo)) : sends'[m.tx] <= m.tries + kills + 0 /\ answers'[m.tx] <= kills + 0
      BY <2>2, <3>1, <3>2 DEF CountedIn
    <3>5. \A m \in Members(kept) : sends'[m.tx] <= m.tries + kills + 0 /\ answers'[m.tx] <= kills + 0
      BY <3>1, <3>2 DEF CountedIn
    <3> QED
      BY <1>0, <3>3, <3>4, <3>5
  <2> QED
    BY <1>0, <2>3, <2>4, <2>5 DEF Counts, Counted
<1>9. OneWriter' /\ OnceStored'
  BY <1>0 DEF QueueInv, OneWriter, OnceStored
<1>10. NothingLost'
  <2> SUFFICES ASSUME NEW t \in Txs, call[t] = "queued", t \notin TxsIn(queue)
               PROVE  answers'[t] > 0 \/ t \in dropped'
    BY <1>0 DEF NothingLost
  <2>1. t # h.tx /\ (answers[t] > 0 \/ t \in dropped)
    BY <1>4 DEF QueueInv, NothingLost
  <2> QED
    BY <2>1
<1>11. QueueTypeOK'
  BY <1>0 DEF QueueInv, QueueTypeOK, FlushState
<1> QED
  BY <1>7, <1>8, <1>9, <1>10, <1>11 DEF QueueInv, FlushState

\* Keeping the item x of the transaction the flush looks at.
LEMMA KeptItem ==
    ASSUME QueueInv, Sending, flush.todo # <<>>, NEW h, h = Head(flush.todo), NEW x \in Items, x.tx = h.tx,
           NEW s \in [Txs -> Nat], \A u \in Txs \ {h.tx} : s[u] = sends[u], s[h.tx] <= x.tries + kills
    PROVE  /\ Append(flush.kept, x) \in Seq(Items) /\ Once(Append(flush.kept, x))
           /\ TxsIn(Append(flush.kept, x)) = TxsIn(flush.kept) \cup {h.tx}
           /\ CountedIn(Append(flush.kept, x), s, answers, kills)
<1>1. /\ flush.kept \in Seq(Items) /\ sends \in [Txs -> Nat] /\ answers \in [Txs -> Nat] /\ kills \in Nat
  BY QueueTypes
<1>2. Once(flush.kept) /\ CountedIn(flush.kept, sends, answers, kills)
  BY <1>1, CountedMeans DEF QueueInv, FlushSplits, Counts
<1>3. h.tx \notin TxsIn(flush.kept) /\ answers[h.tx] <= kills
  BY NextItem
<1>4. CountedIn(flush.kept, s, answers, kills)
  BY <1>1, <1>2, <1>3, OthersCounted
<1>5. CountedIn(Append(flush.kept, x), s, answers, kills)
  BY <1>1, <1>3, <1>4, AppendCounted
<1> QED
  BY <1>1, <1>2, <1>3, <1>5, OfAppend

LEMMA FlushSkipStep ==
    ASSUME QueueInv, FlushSkip
    PROVE  QueueInv'
<1> DEFINE h == Head(flush.todo)
<1>0. /\ Sending /\ flush.todo # <<>> /\ flush' = [flush EXCEPT !.todo = Tail(@), !.kept = Append(@, h)]
      /\ UNCHANGED <<queue, netVars, callVars, elapsed, kills, sends, answers, dropped>>
  BY DEF FlushSkip, Sending, Keep, history
<1> HIDE DEF h
<1>1. /\ h \in Items /\ h.tx \in Txs /\ sends[h.tx] <= h.tries + kills
      /\ sends[h.tx] \in Nat /\ answers[h.tx] \in Nat
  BY <1>0, NextItem DEF h
<1>2. sends \in [Txs -> Nat] /\ answers \in [Txs -> Nat] /\ dropped \subseteq Txs /\ elapsed \subseteq Txs \X Nat
  BY QueueTypes DEF QueueInv, QueueTypeOK
<1>3. /\ Append(flush.kept, h) \in Seq(Items) /\ Once(Append(flush.kept, h))
      /\ TxsIn(Append(flush.kept, h)) = TxsIn(flush.kept) \cup {h.tx}
      /\ CountedIn(Append(flush.kept, h), sends, answers, kills)
  BY <1>0, <1>1, <1>2, KeptItem DEF h
<1>4. /\ flush' \in FlushState /\ Sending'
      /\ flush'.todo = Tail(flush.todo) /\ flush'.kept = Append(flush.kept, h)
  <2>1. Tail(flush.todo) \in Seq(Items) /\ flush \in FlushState
    BY <1>0, QueueTypes, OfTail
  <2> QED
    BY <1>0, <1>3, <2>1 DEF FlushState, Sending
<1>5. sends[h.tx] <= sends[h.tx] + 1 /\ answers[h.tx] <= answers[h.tx] + 1
  BY <1>1
<1> QED
  BY <1>0, <1>1, <1>2, <1>3, <1>4, <1>5, ItemStep DEF h

\* A send is counted for its transaction and no other.
LEMMA OneMore ==
    ASSUME NEW f \in [Txs -> Nat], NEW t \in Txs
    PROVE  /\ [f EXCEPT ![t] = @ + 1] \in [Txs -> Nat] /\ [f EXCEPT ![t] = @ + 1][t] = f[t] + 1
           /\ \A u \in Txs \ {t} : [f EXCEPT ![t] = @ + 1][u] = f[u]
OBVIOUS

LEMMA FlushAnsweredStep ==
    ASSUME QueueInv, FlushAnswered
    PROVE  QueueInv'
<1> DEFINE h == Head(flush.todo)
<1>0. /\ Sending /\ flush.todo # <<>> /\ flush' = [flush EXCEPT !.todo = Tail(@)]
      /\ sends' = [sends EXCEPT ![h.tx] = @ + 1] /\ answers' = [answers EXCEPT ![h.tx] = @ + 1]
      /\ UNCHANGED <<queue, netVars, callVars, elapsed, kills, dropped>>
  BY DEF FlushAnswered, Sending, NotKept
<1> HIDE DEF h
<1>1. h.tx \in Txs /\ sends[h.tx] \in Nat /\ answers[h.tx] \in Nat /\ h.tx \notin TxsIn(flush.kept)
  BY <1>0, NextItem DEF h
<1>2. /\ sends \in [Txs -> Nat] /\ answers \in [Txs -> Nat] /\ dropped \subseteq Txs /\ elapsed \subseteq Txs \X Nat
      /\ flush.kept \in Seq(Items) /\ kills \in Nat
  BY QueueTypes DEF QueueInv, QueueTypeOK
<1>3. /\ sends' \in [Txs -> Nat] /\ answers' \in [Txs -> Nat]
      /\ \A u \in Txs \ {h.tx} : sends'[u] = sends[u] /\ answers'[u] = answers[u]
      /\ sends'[h.tx] <= sends[h.tx] + 1 /\ answers'[h.tx] <= answers[h.tx] + 1 /\ answers'[h.tx] > 0
  BY <1>0, <1>1, <1>2, OneMore
<1>4. Once(flush.kept) /\ CountedIn(flush.kept, sends', answers', kills)
  <2>1. Once(flush.kept) /\ CountedIn(flush.kept, sends, answers, kills)
    BY <1>0, <1>2, CountedMeans DEF QueueInv, FlushSplits, Counts
  <2>2. h.tx \notin TxsIn(flush.kept) /\ flush.kept \in Seq(Items)
    BY <1>1, <1>2
  <2>3. \A u \in Txs \ {h.tx} : sends'[u] = sends[u] /\ answers'[u] = answers[u]
    BY <1>3
  <2>4. CountedIn(flush.kept, sends', answers', kills)
    BY <2>1, <2>2, <2>3, OthersCounted
  <2> QED
    BY <2>1, <2>4
<1>5. flush' \in FlushState /\ Sending' /\ flush'.todo = Tail(flush.todo) /\ flush'.kept = flush.kept
  <2>1. Tail(flush.todo) \in Seq(Items) /\ flush \in FlushState
    BY <1>0, QueueTypes, OfTail
  <2> QED
    BY <1>0, <2>1 DEF FlushState, Sending
<1> QED
  BY <1>0, <1>1, <1>2, <1>3, <1>4, <1>5, ItemStep DEF h

LEMMA FlushFailsStep ==
    ASSUME QueueInv, FlushFails
    PROVE  QueueInv'
<1> DEFINE h == Head(flush.todo)
           x == [h EXCEPT !.tries = @ + 1]
<1>0. /\ Sending /\ flush.todo # <<>> /\ sends' = [sends EXCEPT ![h.tx] = @ + 1]
      /\ UNCHANGED <<queue, netVars, callVars, kills, answers>>
      /\ \/ /\ flush' = [flush EXCEPT !.todo = Tail(@)] /\ dropped' = dropped \cup {h.tx} /\ elapsed' = elapsed
         \/ /\ ~(h.tries + 1 >= MaxRetries) /\ flush' = [flush EXCEPT !.todo = Tail(@), !.kept = Append(@, x)]
            /\ elapsed' = elapsed \ {<<h.tx, h.tries + 1>>} /\ dropped' = dropped
  BY DEF FlushFails, Sending, GivesUp
<1> HIDE DEF h
<1>1. /\ h \in Items /\ h.tx \in Txs /\ h.tries \in Nat /\ sends[h.tx] \in Nat /\ answers[h.tx] \in Nat
      /\ h.tx \notin TxsIn(flush.kept) /\ sends[h.tx] <= h.tries + kills
  BY <1>0, NextItem DEF h
<1>2. /\ sends \in [Txs -> Nat] /\ answers \in [Txs -> Nat] /\ dropped \subseteq Txs /\ elapsed \subseteq Txs \X Nat
      /\ flush.kept \in Seq(Items) /\ kills \in Nat /\ flush \in FlushState /\ MaxRetries \in Nat
      /\ Tail(flush.todo) \in Seq(Items)
  BY <1>0, QueueTypes, OfTail DEF QueueInv, QueueTypeOK
<1>3. /\ sends' \in [Txs -> Nat] /\ sends'[h.tx] = sends[h.tx] + 1
      /\ \A u \in Txs \ {h.tx} : sends'[u] = sends[u]
  BY <1>0, <1>1, <1>2, OneMore
<1>4. /\ sends'[h.tx] <= sends[h.tx] + 1 /\ answers' = answers /\ answers'[h.tx] <= answers[h.tx] + 1
      /\ \A u \in Txs \ {h.tx} : sends'[u] = sends[u] /\ answers'[u] = answers[u]
      /\ dropped \subseteq dropped' /\ dropped' \subseteq Txs /\ elapsed' \subseteq Txs \X Nat
      /\ answers' \in [Txs -> Nat]
  BY <1>0, <1>1, <1>2, <1>3
<1>5. CASE flush' = [flush EXCEPT !.todo = Tail(@)] /\ dropped' = dropped \cup {h.tx}
  <2>1. Once(flush.kept) /\ CountedIn(flush.kept, sends, answers, kills)
    BY <1>0, <1>2, CountedMeans DEF QueueInv, FlushSplits, Counts
  <2>2. CountedIn(flush.kept, sends', answers', kills)
    BY <1>1, <1>2, <1>4, <2>1, OthersCounted
  <2>3. flush' \in FlushState /\ Sending' /\ flush'.todo = Tail(flush.todo) /\ flush'.kept = flush.kept
    BY <1>0, <1>2, <1>5 DEF FlushState, Sending
  <2>4. h.tx \in dropped'
    BY <1>5
  <2> QED
    BY <1>0, <1>2, <1>3, <1>4, <2>1, <2>2, <2>3, <2>4, ItemStep DEF h
<1>6. CASE ~(h.tries + 1 >= MaxRetries) /\ flush' = [flush EXCEPT !.todo = Tail(@), !.kept = Append(@, x)]
  <2>1. x \in Items /\ x.tx = h.tx /\ x.tries = h.tries + 1
    BY <1>1, <1>6, TriedAgain
  <2> HIDE DEF x
  <2>2. sends'[h.tx] <= x.tries + kills
    BY <1>1, <1>2, <1>3, <2>1
  <2>3. /\ Append(flush.kept, x) \in Seq(Items) /\ Once(Append(flush.kept, x))
        /\ TxsIn(Append(flush.kept, x)) = TxsIn(flush.kept) \cup {h.tx}
        /\ CountedIn(Append(flush.kept, x), sends', answers', kills)
    <3>1. CountedIn(Append(flush.kept, x), sends', answers', kills)
              <=> CountedIn(Append(flush.kept, x), sends', answers, kills)
      BY <1>4
    <3> QED
      BY <1>0, <1>3, <2>1, <2>2, <3>1, KeptItem DEF h
  <2>4. /\ flush' \in FlushState /\ Sending'
        /\ flush'.todo = Tail(flush.todo) /\ flush'.kept = Append(flush.kept, x)
    BY <1>0, <1>2, <1>6, <2>3 DEF FlushState, Sending
  <2> QED
    BY <1>0, <1>3, <1>4, <2>3, <2>4, ItemStep DEF h
<1> QED
  BY <1>0, <1>5, <1>6

\* The kept items replace the stored ones, and nothing was added to those.
LEMMA FlushWriteStep ==
    ASSUME QueueInv, FlushWrite
    PROVE  QueueInv'
<1>0. /\ Sending /\ flush.todo = <<>> /\ queue' = flush.kept /\ flush' = NoFlush
      /\ UNCHANGED <<online, was, booted, call, seen, elapsed, kills, sends, answers, dropped>>
  BY DEF FlushWrite, Sending, StoredInstead, netVars, callVars, history
<1>1. flush' \in FlushState /\ ~Sending'
  BY <1>0, OfEmpty DEF NoFlush, FlushState, Sending
<1>2. flush.kept \in Seq(Items) /\ \A t \in Txs : call[t] # "appending"
  BY <1>0, QueueTypes DEF QueueInv, OneWriter
<1>3. /\ Once(flush.kept) /\ TxsIn(flush.kept) \subseteq TxsIn(queue)
      /\ \A t \in TxsIn(queue) : t \in TxsIn(flush.kept) \/ answers[t] > 0 \/ t \in dropped
  BY <1>0, OfEmpty DEF QueueInv, FlushSplits
<1>4. QueueTypeOK'
  BY <1>0, <1>1, <1>2 DEF QueueInv, QueueTypeOK, FlushState
<1>5. OneWriter'
  BY <1>0, <1>2 DEF OneWriter
<1>6. OnceStored'
  BY <1>0, <1>3 DEF QueueInv, OnceStored
<1>7. NothingLost'
  BY <1>0, <1>3 DEF QueueInv, NothingLost
<1>8. FlushSplits'
  BY <1>1 DEF FlushSplits
<1>9. Counts'
  <2>1. Counted(flush.kept, 0)
    BY <1>0 DEF QueueInv, Counts
  <2>2. \A m \in Members(queue') : sends'[m.tx] <= m.tries + kills' + 0 /\ answers'[m.tx] <= kills' + 0
    BY <1>0, <2>1 DEF Counted
  <2> QED
    BY <1>0, <1>1, <2>2 DEF QueueInv, Counts, Counted
<1> QED
  BY <1>1, <1>4, <1>5, <1>6, <1>7, <1>8, <1>9 DEF QueueInv, FlushState

\* Killing the app loses the flush and whoever was about to write, not the queue.
LEMMA KillStep ==
    ASSUME QueueInv, Kill
    PROVE  QueueInv'
<1>0. /\ kills < MaxKills /\ kills' = kills + 1 /\ was' = "null" /\ booted' = FALSE
      /\ call' = [t \in Txs |-> IF call[t] \in {"direct", "enqueue", "appending"} THEN "gone" ELSE call[t]]
      /\ seen' = [t \in Txs |-> <<>>] /\ flush' = NoFlush
      /\ UNCHANGED <<queue, online, elapsed, sends, answers, dropped>>
  BY DEF Kill, history
<1>1. flush' \in FlushState /\ ~Sending'
  BY <1>0, OfEmpty DEF NoFlush, FlushState, Sending
<1>2. /\ call' \in [Txs -> {"new", "direct", "sent", "enqueue", "appending", "queued", "gone"}]
      /\ \A t \in Txs : (call'[t] = "queued" <=> call[t] = "queued") /\ call'[t] # "appending"
      /\ seen' \in [Txs -> Seq(Items)]
  BY <1>0, QueueTypes, OfEmpty
<1>3. kills \in 0..MaxKills /\ kills \in Nat /\ kills' \in 0..MaxKills /\ kills' \in Nat
  BY <1>0, QueueAssumption DEF QueueInv, QueueTypeOK
<1>4. QueueTypeOK'
  BY <1>0, <1>1, <1>2, <1>3 DEF QueueInv, QueueTypeOK, FlushState
<1>5. OneWriter' /\ FlushSplits'
  BY <1>1, <1>2 DEF OneWriter, FlushSplits
<1>6. OnceStored'
  <2>1. TxsIn(queue) \subseteq Txs
    BY QueueTypes, MembersTyped
  <2> QED
    BY <1>0, <1>2, <2>1 DEF QueueInv, OnceStored
<1>7. NothingLost'
  BY <1>0, <1>2 DEF QueueInv, NothingLost
<1>8. Counts'
  <2>1. queue \in Seq(Items) /\ sends \in [Txs -> Nat] /\ answers \in [Txs -> Nat] /\ MaxRetries \in Nat
    BY QueueTypes
  <2>2. CountedIn(queue, sends, answers, kills + 1)
    <3>1. Counted(queue, 0) \/ Counted(queue, 1)
      BY DEF QueueInv, Counts
    <3>2. \A m \in Members(queue) : /\ m.tries \in Nat /\ sends[m.tx] \in Nat /\ answers[m.tx] \in Nat
      BY <2>1, MembersTyped
    <3>3. CountedIn(queue, sends, answers, kills) => CountedIn(queue, sends, answers, kills + 1)
      BY <1>3, <3>2 DEF CountedIn
    <3> QED
      BY <1>3, <2>1, <3>1, <3>3, CountedMeans
  <2>3. \A m \in Members(queue') : sends'[m.tx] <= m.tries + kills' + 0 /\ answers'[m.tx] <= kills' + 0
    <3>1. \A m \in Members(queue) : m.tries + (kills + 1) + 0 = m.tries + (kills + 1)
      BY <1>3, <2>1, MembersTyped
    <3>2. kills + 1 + 0 = kills + 1
      BY <1>3
    <3> QED
      BY <1>0, <2>2, <3>1, <3>2 DEF CountedIn
  <2>4. \A u \in Txs : sends[u] <= MaxRetries + (kills + 1) /\ answers[u] <= 1 + (kills + 1)
    <3>1. \A u \in Txs : /\ sends[u] \in Nat /\ answers[u] \in Nat
                         /\ sends[u] <= MaxRetries + kills /\ answers[u] <= 1 + kills
      BY <2>1 DEF QueueInv, Counts
    <3> QED
      BY <1>3, <2>1, <3>1
  <2>5. \A u \in Txs : call'[u] # "queued" => sends[u] = 0 /\ answers[u] = 0
    BY <1>2 DEF QueueInv, Counts
  <2> QED
    BY <1>0, <1>1, <2>3, <2>4, <2>5 DEF Counts, Counted
<1> QED
  BY <1>1, <1>4, <1>5, <1>6, <1>7, <1>8 DEF QueueInv, FlushState

LEMMA QueueStarts == ASSUME QueueInit PROVE QueueInv
<1>1. QueueTypeOK /\ flush \in FlushState /\ ~Sending
  <2>1. /\ flush.pc = "idle" /\ flush.now = {} /\ flush.todo = <<>> /\ flush.kept = <<>>
        /\ flush \in FlushState
    BY OfEmpty DEF QueueInit, NoFlush, FlushState
  <2>2. 0 \in 0..MaxKills /\ {} \subseteq Txs \X Nat
    BY QueueAssumption
  <2>3. seen \in [Txs -> Seq(Items)] /\ queue \in Seq(Items)
    BY OfEmpty DEF QueueInit
  <2> QED
    BY <2>1, <2>2, <2>3, OfEmpty DEF QueueInit, QueueTypeOK, Sending
<1>2. OneWriter /\ FlushSplits /\ NothingLost
  BY <1>1 DEF QueueInit, OneWriter, FlushSplits, NothingLost
<1>3. OnceStored
  BY OfEmpty DEF QueueInit, OnceStored
<1>4. Counts
  BY <1>1, QueueAssumption, OfEmpty DEF QueueInit, Counts, Counted
<1> QED
  BY <1>1, <1>2, <1>3, <1>4 DEF QueueInv

LEMMA QueueStep == ASSUME QueueInv, ~Overlaps, [QueueNext]_queueVars PROVE QueueInv'
<1>1. ASSUME NEW t \in Txs, CheckNetwork(t) \/ DirectRequest(t) PROVE QueueInv'
  BY <1>1, CallStep
<1>2. ASSUME NEW t \in Txs, EnqueueRead(t) PROVE QueueInv'
  BY <1>2, EnqueueReadStep
<1>3. ASSUME NEW t \in Txs, EnqueueWrite(t) PROVE QueueInv'
  BY <1>3, EnqueueWriteStep
<1>4. CASE FlushStep
  BY <1>4, FlushReadStep, FlushSkipStep, FlushAnsweredStep, FlushFailsStep, FlushWriteStep DEF FlushStep
<1>5. CASE NetworkChange \/ InitialFetch \/ BackoffElapses \/ UNCHANGED queueVars
  BY <1>5, NetworkStep
<1>6. CASE Kill
  BY <1>6, KillStep
<1> QED
  BY <1>1, <1>2, <1>3, <1>4, <1>5, <1>6 DEF QueueNext

LEMMA QueueHolds == ASSUME ~Overlaps PROVE QueueSpec => []QueueInv
<1>1. QueueInit => QueueInv
  BY QueueStarts
<1>2. QueueInv /\ [QueueNext]_queueVars => QueueInv'
  BY QueueStep
<1> QED
  BY <1>1, <1>2, PTL DEF QueueSpec

\* When enqueueTransaction and flushQueue do not overlap, no queued transaction
\* is lost, for any number of transactions, retries, reconnects and kills: the
\* one writer of the stored queue has read it as it still is.
THEOREM NothingIsEverLost == ASSUME ~Overlaps PROVE QueueSpec => []NothingLost
<1>1. QueueInv => NothingLost
  BY DEF QueueInv
<1> QED
  BY <1>1, QueueHolds, PTL

\* Under the same condition a transaction is queued once, sent MAX_RETRIES times
\* at most and answered once, but for one more of each kill of the app.
THEOREM TransactionsAreSentOnce == ASSUME ~Overlaps PROVE QueueSpec => []SentOnce
<1>1. QueueInv => SentOnce
  <2> SUFFICES ASSUME QueueInv PROVE SentOnce
    OBVIOUS
  <2>1. QueueTypeOK
    BY DEF QueueInv
  <2>2. QueuedOnce
    BY DEF QueueInv, OnceStored, Once, QueuedOnce
  <2>3. SendsAreBounded /\ AnsweredOnce
    BY DEF QueueInv, Counts, SendsAreBounded, AnsweredOnce
  <2> QED
    BY <2>1, <2>2, <2>3 DEF SentOnce
<1> QED
  BY <1>1, QueueHolds, PTL
=============================================================================
