--------------------------- MODULE BiometricGuard ---------------------------
(***************************************************************************)
(* The biometric components of src/src: the service with its preference,   *)
(* enrollment hash and PIN in SecureStore, the hook of which every         *)
(* component has an instance of its own, the guard around a screen, the    *)
(* security settings and the payment dialog.                               *)
(***************************************************************************)
EXTENDS Naturals, FiniteSets

CONSTANTS
    MaxPinAttempts,
    EarlyPresses,   \* a payment may be confirmed while the status is read
    OverlapPins,    \* a PIN may be submitted while one is verified
    MaxMounts,      \* bound: guards mounted
    MaxPays         \* bound: presses of the payment button

ASSUME GuardConstants == /\ {MaxPinAttempts, MaxMounts, MaxPays} \subseteq Nat \ {0}
                         /\ {EarlyPresses, OverlapPins} \subseteq BOOLEAN

VARIABLES
    enrolled,       \* the device has biometrics enrolled
    bioPref,        \* the preference stored
    bioHash,        \* the enrollment hash stored: "none", "enrolled" or "empty"
    pinHash,        \* a fallback PIN is stored
    attemptsLeft    \* the attempts stored
storeVars == <<enrolled, bioPref, bioHash, pinHash, attemptsLeft>>

VARIABLES
    gLoading, gEnabled, gHasPIN,   \* the guard's instance of the hook
    gPrompt,        \* its biometric prompt is up
    showPIN, authComplete,
    pinTries,       \* PINs being verified: [n, right, left], left the attempts read
    wrongPins,      \* history: wrong PINs since the last right or new one
    proved,         \* history: this guard's prompt or PIN succeeded
    mounts          \* bound
guardVars == <<gLoading, gEnabled, gHasPIN, gPrompt, showPIN, authComplete, pinTries, wrongPins, proved, mounts>>

VARIABLES
    sLoading, sEnabled,
    sAble,          \* biometrics were enrolled when the status was read
    sPrompt,        \* the settings' prompt: "none", "enable" or "disable"
    pinSetup,       \* the form for a PIN is open
    allowed         \* history: the prompt to disable succeeded
settingsVars == <<sLoading, sEnabled, sAble, sPrompt, pinSetup, allowed>>

VARIABLES
    pLoading, pEnabled,
    pPrompts,       \* prompts of the payment dialog that are up
    isProcessing,   \* the spinner: on with a payment, off when any ends
    paying,         \* payments under way
    pays,           \* bound: presses so far
    paid, granted   \* history: payments made, prompts that succeeded
payVars == <<pLoading, pEnabled, pPrompts, isProcessing, paying, pays, paid, granted>>

biometricVars == <<storeVars, guardVars, settingsVars, payVars>>

-----------------------------------------------------------------------------
EnrollmentHash == IF enrolled THEN "enrolled" ELSE "empty"

\* promptBiometric: nobody enrolled, no success.  A success renews the hash.
PromptMaySucceed == enrolled
HashAfter(ok) == IF ok THEN EnrollmentHash ELSE bioHash

BiometricInit ==
    /\ enrolled = TRUE /\ bioPref \in BOOLEAN /\ bioHash = IF bioPref THEN "enrolled" ELSE "none"
    /\ pinHash \in BOOLEAN /\ attemptsLeft = MaxPinAttempts
    /\ gLoading = TRUE /\ gEnabled = FALSE /\ gHasPIN = FALSE /\ gPrompt = FALSE /\ showPIN = FALSE
    /\ authComplete = FALSE /\ pinTries = {} /\ wrongPins = 0 /\ proved = FALSE /\ mounts = 1
    /\ sLoading = TRUE /\ sEnabled = FALSE /\ sAble = FALSE /\ sPrompt = "none" /\ pinSetup = FALSE /\ allowed = FALSE
    /\ pLoading = TRUE /\ pEnabled = FALSE /\ pPrompts = 0 /\ isProcessing = FALSE /\ paying = 0 /\ pays = 0 /\ paid = 0 /\ granted = 0

\* Fingers are added and removed in the system's settings; the hash knows
\* only whether there are any.
EnrollmentChanges ==
    /\ enrolled' = ~enrolled
    /\ UNCHANGED <<bioPref, bioHash, pinHash, attemptsLeft, guardVars, settingsVars, payVars>>

-----------------------------------------------------------------------------
(* The guard.  Its prompt comes up by itself once the hook says enabled.   *)

GuardStatusRead ==
    /\ gLoading /\ gLoading' = FALSE /\ gEnabled' = bioPref /\ gHasPIN' = pinHash
    /\ gPrompt' = (bioPref /\ ~authComplete)
    /\ UNCHANGED <<showPIN, authComplete, pinTries, wrongPins, proved, mounts, storeVars, settingsVars, payVars>>

\* refreshStatus fails: enabled stays FALSE and the guard lets through.
GuardStatusFails ==
    /\ gLoading /\ gLoading' = FALSE
    /\ UNCHANGED <<gEnabled, gHasPIN, gPrompt, showPIN, authComplete, pinTries, wrongPins, proved, mounts, storeVars,
                   settingsVars, payVars>>

\* performAuth; without a PIN a failed prompt is not offered again.
\* The mutant: the spinner stays after a failure.
PromptKept(ok) == ~ok
PromptEnded(ok) == FALSE
GuardPromptEnds(ok) ==
    /\ gPrompt /\ (ok => PromptMaySucceed) /\ gPrompt' = PromptEnded(ok)
    /\ authComplete' = (authComplete \/ ok) /\ proved' = (proved \/ ok) /\ bioHash' = HashAfter(ok)
    /\ showPIN' = (showPIN \/ (~ok /\ gHasPIN))
    /\ UNCHANGED <<gLoading, gEnabled, gHasPIN, pinTries, wrongPins, mounts, enrolled, bioPref, pinHash, attemptsLeft,
                   settingsVars, payVars>>

\* handlePINSubmit: verifyPIN reads the attempts, then verifies.
HandlePINSubmit(right) ==
    /\ showPIN /\ attemptsLeft > 0 /\ (OverlapPins \/ pinTries = {})
    /\ \E n \in {1, 2} \ {t.n : t \in pinTries} :
         pinTries' = pinTries \cup {[n |-> n, right |-> right, left |-> attemptsLeft]}
    /\ UNCHANGED <<gLoading, gEnabled, gHasPIN, gPrompt, showPIN, authComplete, wrongPins, proved, mounts, storeVars,
                   settingsVars, payVars>>

\* The mutant: a wrong PIN is refused and not counted.
NotCounted(t) == t.left
AttemptsAfter(t) == IF t.right THEN MaxPinAttempts ELSE t.left - 1

PinVerified(t) ==
    /\ t \in pinTries /\ pinTries' = pinTries \ {t} /\ attemptsLeft' = AttemptsAfter(t)
    /\ wrongPins' = IF t.right THEN 0 ELSE wrongPins + 1
    /\ authComplete' = (authComplete \/ t.right) /\ proved' = (proved \/ t.right) /\ showPIN' = (showPIN /\ ~t.right)
    /\ UNCHANGED <<gLoading, gEnabled, gHasPIN, gPrompt, mounts, enrolled, bioPref, bioHash, pinHash, settingsVars, payVars>>

HandleCancel ==
    /\ showPIN /\ showPIN' = FALSE
    /\ UNCHANGED <<gLoading, gEnabled, gHasPIN, gPrompt, authComplete, pinTries, wrongPins, proved, mounts, storeVars,
                   settingsVars, payVars>>

\* The guarded screen is left, or the app killed, and opened again.
\* The mutant: what was proved once is remembered.
CompleteKept == authComplete
CompleteReset == FALSE
GuardRemounts ==
    /\ mounts < MaxMounts /\ mounts' = mounts + 1 /\ pinTries = {}
    /\ gLoading' = TRUE /\ gEnabled' = FALSE /\ gHasPIN' = FALSE /\ gPrompt' = FALSE /\ showPIN' = FALSE
    /\ authComplete' = CompleteReset /\ proved' = FALSE
    /\ UNCHANGED <<pinTries, wrongPins, storeVars, settingsVars, payVars>>

\* What the guard renders.
ChildrenShown == ~gEnabled \/ (~gLoading /\ authComplete)

-----------------------------------------------------------------------------
(* The settings.  The form for a PIN has no input, and so never saves one. *)

SettingsStatusRead ==
    /\ sLoading /\ sPrompt = "none" /\ sLoading' = FALSE /\ sEnabled' = bioPref /\ sAble' = enrolled
    /\ UNCHANGED <<sPrompt, pinSetup, allowed, storeVars, guardVars, payVars>>

HandleToggle(on) ==
    /\ ~sLoading /\ sAble /\ sPrompt = "none" /\ on = ~sEnabled
    /\ sPrompt' = IF on THEN "enable" ELSE "disable"
    /\ sLoading' = on /\ allowed' = FALSE
    /\ UNCHANGED <<sEnabled, sAble, pinSetup, storeVars, guardVars, payVars>>

\* enableBiometric; the hint to set up a PIN is an alert of its own.
EnableBiometric(ok) ==
    /\ sPrompt = "enable" /\ (ok => PromptMaySucceed) /\ sPrompt' = "none" /\ sLoading' = FALSE
    /\ sEnabled' = (sEnabled \/ ok) /\ bioPref' = (bioPref \/ ok) /\ bioHash' = HashAfter(ok)
    /\ pinSetup' \in (IF ok /\ ~pinHash THEN BOOLEAN ELSE {pinSetup})
    /\ UNCHANGED <<allowed, sAble, enrolled, pinHash, attemptsLeft, guardVars, payVars>>

\* The mutant: the outcome of the prompt is not looked at.
DisablesAnyway(ok) == TRUE
DisableProceeds(ok) == ok
DisableBiometric(ok) ==
    /\ sPrompt = "disable" /\ (ok => PromptMaySucceed) /\ sPrompt' = "none" /\ allowed' = ok
    /\ IF DisableProceeds(ok) THEN bioPref' = FALSE /\ sEnabled' = FALSE /\ bioHash' = "none"
       ELSE UNCHANGED <<bioPref, sEnabled, bioHash>>
    /\ UNCHANGED <<sLoading, sAble, pinSetup, enrolled, pinHash, attemptsLeft, guardVars, payVars>>

\* The form: Set Up opens it, Save finds the PIN too short, Cancel closes it.
PinSetupForm ==
    /\ ~sLoading /\ sEnabled /\ (pinSetup \/ ~pinHash) /\ pinSetup' = ~pinSetup
    /\ UNCHANGED <<sLoading, sEnabled, sAble, sPrompt, allowed, storeVars, guardVars, payVars>>

-----------------------------------------------------------------------------
(* The payment dialog. *)

PayStatusRead ==
    /\ pLoading /\ pLoading' = FALSE /\ pEnabled' = bioPref
    /\ UNCHANGED <<pPrompts, isProcessing, paying, pays, paid, granted, storeVars, guardVars, settingsVars>>

\* handleConfirm: the button is there until a payment is under way.
\* The mutant: the prompt is for the settings only.
NeedsNoPrompt == FALSE
NeedsPrompt == pEnabled
HandlePayConfirm ==
    /\ pays < MaxPays /\ ~isProcessing /\ (EarlyPresses \/ ~pLoading) /\ pays' = pays + 1
    /\ IF NeedsPrompt THEN pPrompts' = pPrompts + 1 /\ UNCHANGED <<isProcessing, paying>>
       ELSE isProcessing' = TRUE /\ paying' = paying + 1 /\ UNCHANGED pPrompts
    /\ UNCHANGED <<pLoading, pEnabled, paid, granted, storeVars, guardVars, settingsVars>>

PayPromptEnds(ok) ==
    /\ pPrompts > 0 /\ (ok => PromptMaySucceed) /\ pPrompts' = pPrompts - 1 /\ bioHash' = HashAfter(ok)
    /\ isProcessing' = (isProcessing \/ ok) /\ paying' = paying + (IF ok THEN 1 ELSE 0) /\ granted' = granted + (IF ok THEN 1 ELSE 0)
    /\ UNCHANGED <<pLoading, pEnabled, pays, paid, enrolled, bioPref, pinHash, attemptsLeft, guardVars, settingsVars>>

\* executePayment ends, well or not.
PaymentEnds(ok) ==
    /\ paying > 0 /\ paying' = paying - 1 /\ isProcessing' = FALSE /\ paid' = paid + (IF ok THEN 1 ELSE 0)
    /\ UNCHANGED <<pLoading, pEnabled, pPrompts, pays, granted, storeVars, guardVars, settingsVars>>

-----------------------------------------------------------------------------
GuardMoves ==
    GuardStatusRead \/ GuardStatusFails \/ (\E ok \in BOOLEAN : GuardPromptEnds(ok)) \/ (\E t \in pinTries : PinVerified(t))
SettingsMoves == SettingsStatusRead \/ (\E ok \in BOOLEAN : EnableBiometric(ok) \/ DisableBiometric(ok))
PayMoves == PayStatusRead \/ (\E ok \in BOOLEAN : PayPromptEnds(ok) \/ PaymentEnds(ok))

BiometricNext ==
    \/ EnrollmentChanges \/ GuardStatusRead \/ GuardStatusFails \/ (\E ok \in BOOLEAN : GuardPromptEnds(ok))
    \/ (\E r \in BOOLEAN : HandlePINSubmit(r)) \/ (\E t \in pinTries : PinVerified(t)) \/ HandleCancel \/ GuardRemounts
    \/ SettingsStatusRead \/ (\E on \in BOOLEAN : HandleToggle(on))
    \/ (\E ok \in BOOLEAN : EnableBiometric(ok) \/ DisableBiometric(ok)) \/ PinSetupForm
    \/ PayStatusRead \/ HandlePayConfirm \/ (\E ok \in BOOLEAN : PayPromptEnds(ok) \/ PaymentEnds(ok))

-----------------------------------------------------------------------------
\* Types of the biometric components.
BiometricTypeOK ==
    /\ {enrolled, bioPref, pinHash, gLoading, gEnabled, gHasPIN, gPrompt, showPIN, authComplete, proved, sLoading,
        sEnabled, pinSetup, allowed, pLoading, pEnabled, isProcessing, sAble} \subseteq BOOLEAN
    /\ bioHash \in {"none", "enrolled", "empty"} /\ attemptsLeft \in 0..MaxPinAttempts
    /\ pinTries \subseteq [n : {1, 2}, right : BOOLEAN, left : 1..MaxPinAttempts] /\ sPrompt \in {"none", "enable", "disable"}
    /\ mounts \in 1..MaxMounts /\ {pPrompts, paying, pays, paid, granted} \subseteq 0..MaxPays

\* Once its status is read, a guard that found the protection on shows its
\* screen only after this guard's own prompt or PIN has succeeded
\* (BiometricGuard.tsx:33-63, 72-88).
GuardProves == ChildrenShown /\ gEnabled => proved

\* However often the screen is opened again, wrong PINs one after another
\* are limited (biometricAuth.ts:274-293); those verified side by side
\* (OverlapPins = TRUE) are not.
PinsAreLimited == wrongPins <= MaxPinAttempts

\* The protection is switched off only by a prompt that succeeded
\* (BiometricSettings.tsx:35-40).
DisablingIsProved == [][bioPref /\ ~bioPref' => allowed']_biometricVars

\* Each payment confirmed by a dialog that found the protection on has its
\* own successful prompt, also when the button is pressed twice
\* (PaymentConfirm.tsx:30-52); a press before the status is read (EarlyPresses =
\* TRUE) pays unasked.
PaymentsAreProved == pEnabled => paid + paying <= granted

\* What ends by itself.
BiometricWorking == gPrompt \/ pinTries # {} \/ pPrompts > 0 \/ paying > 0 \/ isProcessing
=============================================================================
