--------------------------- MODULE DashboardVault ---------------------------
(***************************************************************************)
(* The configuration tab of the dashboard's yield page: the Freighter      *)
(* wallet it signs with, the form with its validation, and the signed      *)
(* change of the vault's parameters.  An action is the code between two    *)
(* awaits.                                                                 *)
(*                                                                         *)
(* Rates are whole percents and the multiplier is in hundredths.  A number *)
(* that does not parse is Unparsed, which is negative: the code treats the *)
(* two alike.  An address is empty, malformed or well formed.              *)
(***************************************************************************)
EXTENDS Integers

CONSTANTS
    ApyInputs, BaseInputs,              \* what an admin types as a rate
    UtilizationInputs, MultiplierInputs,
    MaxTicks,                           \* bound: confirmations ticked
    MaxSubmits                          \* bound: changes handed to the extension

ASSUME RateInputs == ApyInputs \cup BaseInputs \cup UtilizationInputs \cup MultiplierInputs \subseteq Int
ASSUME VaultBounds == MaxTicks \in Nat /\ MaxSubmits \in Nat

VARIABLES
    superadmin,     \* useSuperAdmin
    wallet,         \* FreighterWalletState: missing, detected, keyless or connected
    walletCall,     \* none, or the call of the extension that is pending
    params,         \* VaultParams
    formErrors,     \* fields with an error shown
    confirmed,      \* the review box
    asked,          \* what is at the extension for signing
    signing,        \* the form is busy
    indexMoves,     \* how often currentYieldIndex moved
    message,        \* none, ok or err
    ticks,          \* history: how often the review box was ticked
    signed          \* history: how many payloads were signed

vaultFormVars == <<superadmin, wallet, walletCall, params, formErrors, confirmed, asked, signing, indexMoves,
                   message, ticks, signed>>

Unparsed == -1
Rules == {"utilization", "tiered", "performance"}
Fields == {"apy", "base", "admin", "utilization", "multiplier"}
Cap == 25

-----------------------------------------------------------------------------
(* The rate a set of parameters gives, in 1/10000 of a percent. *)

\* parseFloat(..) || d: nothing, and zero as well, become the default.
OrDefault(x, d) == IF x \in {Unparsed, 0} THEN d ELSE x
AtLeast0(x) == IF x < 0 THEN 0 ELSE x

\* The effective annual rate of calculateYieldIndexMetrics.
UncappedRate(p) ==
    LET apy == OrDefault(p.apy, 0)
        base == OrDefault(p.base, 0)
    IN CASE ~p.dynamic -> apy * 10000
         [] p.dynamic /\ p.rule = "utilization" ->
              base * 10000 + AtLeast0(apy - base) * OrDefault(p.utilization, 80) * OrDefault(p.multiplier, 125)
         [] p.dynamic /\ p.rule = "tiered" -> apy * 11500
         [] OTHER -> apy * 11000

\* mutant: the cap is forgotten.
CappedNot(rate) == AtLeast0(rate)
Capped(rate) == IF AtLeast0(rate) > Cap * 10000 THEN Cap * 10000 ELSE AtLeast0(rate)
EffectiveRate(p) == Capped(UncappedRate(p))

\* validateVaultParams: the fields it finds wrong.
ValidateVaultParams(p) ==
    {f \in Fields :
        \/ f = "apy" /\ (p.apy < 0 \/ p.apy > Cap)
        \/ f = "base" /\ (p.base < 0 \/ p.base > p.apy)
        \/ f = "admin" /\ p.admin # "wellformed"
        \/ /\ p.dynamic /\ p.rule = "utilization"
           /\ \/ f = "utilization" /\ p.utilization \notin 0..100
              \/ f = "multiplier" /\ p.multiplier \notin 100..500}

\* Of a payload the model keeps whether it is valid, its floor and its rate.
Payload(p) == [errors |-> ValidateVaultParams(p), base |-> p.base, rate |-> EffectiveRate(p)]

-----------------------------------------------------------------------------
VaultFormInit ==
    /\ superadmin \in BOOLEAN
    /\ wallet = "missing" /\ walletCall = "detect"
    /\ params = [apy |-> 5, base |-> 3, dynamic |-> TRUE, rule |-> "utilization", utilization |-> 80,
                 multiplier |-> 125, paused |-> FALSE, admin |-> "empty"]
    /\ formErrors = {} /\ confirmed = FALSE /\ asked = {} /\ signing = FALSE /\ indexMoves = 0
    /\ message = "none" /\ ticks = 0 /\ signed = 0

\* Once the wallet has a key, an empty admin address is filled in; nothing
\* validates the form again.
Prefilled(p, w) == IF w = "connected" /\ p.admin = "empty" THEN [p EXCEPT !.admin = "wellformed"] ELSE p

\* detectFreighter's answers.  The key may be missing while the extension
\* says it is connected.
DetectFreighter(w) ==
    /\ wallet' = w /\ params' = Prefilled(params, w)

\* The extension answers; a refusal leaves the wallet as it was.
WalletDetected ==
    /\ walletCall = "detect" /\ walletCall' = "none"
    /\ \E w \in {"missing", "detected", "keyless", "connected"} : DetectFreighter(w)
    /\ UNCHANGED <<superadmin, formErrors, confirmed, asked, signing, indexMoves, message, ticks, signed>>

ConnectShown == wallet = "detected" /\ walletCall = "none"

HandleConnectWallet ==
    /\ ConnectShown /\ walletCall' = "connect"
    /\ UNCHANGED <<superadmin, wallet, params, formErrors, confirmed, asked, signing, indexMoves, message, ticks, signed>>

WalletConnected ==
    /\ walletCall = "connect" /\ walletCall' = "none"
    /\ \/ \E w \in {"missing", "detected", "keyless", "connected"} : DetectFreighter(w)
       \/ UNCHANGED <<wallet, params>>
    /\ UNCHANGED <<superadmin, formErrors, confirmed, asked, signing, indexMoves, message, ticks, signed>>

\* An edit of a validated field: the form as it will be is validated.
ValidateField(p) == params' = p /\ formErrors' = ValidateVaultParams(p)
FormUnchanged == UNCHANGED <<superadmin, wallet, walletCall, confirmed, asked, signing, indexMoves, message, ticks, signed>>

EditApy == \E x \in ApyInputs : superadmin /\ ValidateField([params EXCEPT !.apy = x]) /\ FormUnchanged
EditBase == \E x \in BaseInputs : superadmin /\ ValidateField([params EXCEPT !.base = x]) /\ FormUnchanged

\* The switch, the rule and the pause are changed without validating.
ToggleDynamic ==
    /\ superadmin /\ params' = [params EXCEPT !.dynamic = ~@]
    /\ UNCHANGED formErrors /\ FormUnchanged
ChooseRule ==
    /\ superadmin /\ params.dynamic
    /\ \E r \in Rules : params' = [params EXCEPT !.rule = r]
    /\ UNCHANGED formErrors /\ FormUnchanged

EditUtilization ==
    /\ superadmin /\ params.dynamic /\ params.rule = "utilization"
    /\ \/ \E x \in UtilizationInputs : ValidateField([params EXCEPT !.utilization = x])
       \/ \E x \in MultiplierInputs : ValidateField([params EXCEPT !.multiplier = x])
    /\ FormUnchanged

\* The address may be edited by any role, or taken from the wallet.
EditAdmin ==
    /\ \/ \E a \in {"empty", "malformed", "wellformed"} : ValidateField([params EXCEPT !.admin = a])
       \/ /\ "admin" \notin formErrors /\ wallet = "connected"
          /\ ValidateField([params EXCEPT !.admin = "wellformed"])
    /\ FormUnchanged

TogglePause ==
    /\ superadmin /\ params' = [params EXCEPT !.paused = ~@]
    /\ UNCHANGED formErrors /\ FormUnchanged

ToggleConfirm ==
    /\ confirmed' = ~confirmed
    /\ confirmed \/ ticks < MaxTicks
    /\ ticks' = IF confirmed THEN ticks ELSE ticks + 1
    /\ UNCHANGED <<superadmin, wallet, walletCall, params, formErrors, asked, signing, indexMoves, message, signed>>

SubmitEnabledVault ==
    superadmin /\ confirmed /\ ~signing /\ wallet \in {"keyless", "connected"} /\ formErrors = {}

\* mutant: signAndSubmit relies on formErrors.
AcceptsAll(p) == TRUE
\* signAndSubmit checks the parameters itself: formErrors may be out of date.
Accepts(p) == ValidateVaultParams(p) = {}

\* signAndSubmit refuses.
SubmitRefused ==
    /\ SubmitEnabledVault
    /\ ~Accepts(params) \/ wallet = "keyless"
    /\ formErrors' = IF Accepts(params) THEN formErrors ELSE ValidateVaultParams(params)
    /\ message' = "err"
    /\ UNCHANGED <<superadmin, wallet, walletCall, params, confirmed, asked, signing, indexMoves, ticks, signed>>

\* signAndSubmit moves the index and hands the payload to the extension.
SignAndSubmit ==
    /\ SubmitEnabledVault /\ Accepts(params) /\ wallet = "connected"
    /\ indexMoves < MaxSubmits
    /\ indexMoves' = indexMoves + 1
    /\ asked' = asked \cup {Payload(params)} /\ signing' = TRUE
    /\ message' = "none"
    /\ UNCHANGED <<superadmin, wallet, walletCall, params, formErrors, confirmed, ticks, signed>>

\* mutant: a confirmation serves for the next change too.
KeptConfirm == confirmed
SpentConfirm == FALSE
\* mutant: a signature leaves the button disabled.
NotFreed == signing
FreedSigning == FALSE

\* signWithFreighter succeeded: the confirmation is spent.
Signed ==
    \E payload \in asked :
        /\ asked' = asked \ {payload} /\ signing' = FreedSigning
        /\ signed' = signed + 1 /\ confirmed' = SpentConfirm /\ message' = "ok"
        /\ UNCHANGED <<superadmin, wallet, walletCall, params, formErrors, indexMoves, ticks>>

\* It failed or was refused; the index stays where it was moved.
SignFailed ==
    \E payload \in asked :
        /\ asked' = asked \ {payload} /\ signing' = FreedSigning
        /\ message' = "err"
        /\ UNCHANGED <<superadmin, wallet, walletCall, params, formErrors, confirmed, indexMoves, ticks, signed>>

VaultFormNext ==
    \/ WalletDetected \/ HandleConnectWallet \/ WalletConnected
    \/ EditApy \/ EditBase \/ ToggleDynamic \/ ChooseRule \/ EditUtilization \/ EditAdmin
    \/ TogglePause \/ ToggleConfirm
    \/ SubmitRefused \/ SignAndSubmit \/ Signed \/ SignFailed

VaultFormTypeOK ==
    /\ superadmin \in BOOLEAN /\ wallet \in {"missing", "detected", "keyless", "connected"}
    /\ walletCall \in {"none", "detect", "connect"}
    /\ params \in [apy : Int, base : Int, dynamic : BOOLEAN, rule : Rules, utilization : Int,
                   multiplier : Int, paused : BOOLEAN, admin : {"empty", "malformed", "wellformed"}]
    /\ formErrors \subseteq Fields /\ confirmed \in BOOLEAN /\ signing \in BOOLEAN
    /\ asked \subseteq [errors : SUBSET Fields, base : Int, rate : Nat]
    /\ indexMoves \in 0..MaxSubmits /\ message \in {"none", "ok", "err"} /\ ticks \in 0..MaxTicks
    /\ signed \in Nat

\* What is handed to the extension is valid and its rate lies between the base rate, the
\* "guaranteed floor", and the cap of the contract, although the errors shown
\* are not brought up to date when the switch, the rule or the prefilled
\* address change.
SignedIsSound ==
    \A payload \in asked :
        /\ payload.errors = {}
        /\ payload.base * 10000 <= payload.rate
        /\ payload.rate <= Cap * 10000

\* A confirmation is good for one signature: edits, failures and ticks while
\* the extension is asked never let one confirmation sign twice.
ConfirmedEach == signed <= ticks
=============================================================================
