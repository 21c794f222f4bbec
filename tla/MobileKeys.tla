----------------------------- MODULE MobileKeys -----------------------------
(***************************************************************************)
(* The wallet's keys on the device (walletSecurity.ts), the screens that   *)
(* create, show, verify and restore them, the clipboard they may be copied *)
(* to, and the biometric screen with its PIN fallback.  A job of the key   *)
(* service is a sequence of keychain writes; the app may be killed between *)
(* any two.  A key is known by the phrase it is derived from: at an index, *)
(* a phrase derives one key.                                               *)
(***************************************************************************)
EXTENDS Naturals, Sequences

CONSTANTS
    Phrases, NoPhrase,
    MaxAccounts,    \* bound: account indices used
    MaxJobs,        \* bound: jobs started
    SlowStorage     \* may the PIN button be pressed before the storage has answered?
ASSUME KeysConstants == NoPhrase \notin Phrases /\ MaxAccounts \in Nat \ {0} /\ MaxJobs \in Nat

VARIABLES
    mnemonic, secret, public, count,    \* the keychain
    job,            \* the job under way: what it writes, in order, and for which phrase and index
    jobs,           \* bound
    torn,           \* history: a job was cut off and none has replaced the wallet since
    erased          \* history: the wallet was deleted and none made since

keyVars == <<mnemonic, secret, public, count, job, jobs, torn, erased>>
Indices == 0..MaxAccounts - 1
NoJob == [kind |-> "none", phrase |-> NoPhrase, index |-> 0, writes |-> <<>>]

KeysInit ==
    /\ mnemonic = NoPhrase /\ count = 0
    /\ secret = [i \in Indices |-> NoPhrase] /\ public = [i \in Indices |-> NoPhrase]
    /\ job = NoJob /\ jobs = 0 /\ torn = FALSE /\ erased = FALSE

-----------------------------------------------------------------------------
StoreKeypair == <<"secret", "public">>
\* mutant: the number of accounts of the old wallet stays.
CountKept == <<"mnemonic">> \o StoreKeypair
\* createNewWallet and restoreWalletFromMnemonic write the same.
WholeWallet == <<"mnemonic">> \o StoreKeypair \o <<"reset">>
OneAccount == StoreKeypair \o <<"increment">>

\* Jobs come one after another.  The screens do not see to that: each has its
\* own loading flag (wallet-recovery.tsx), and a screen that is left and opened
\* again generates a wallet while the first is still being written.
Start(kind, phrase, index, writes) ==
    /\ job = NoJob /\ jobs < MaxJobs /\ jobs' = jobs + 1
    /\ job' = [kind |-> kind, phrase |-> phrase, index |-> index, writes |-> writes]
    /\ UNCHANGED <<mnemonic, secret, public, count, torn, erased>>

\* A phrase that is generated is a new one; a restored one may be any.
CreateNewWallet == \E p \in Phrases \ {mnemonic} : Start("create", p, 0, WholeWallet)
RestoreWalletFromMnemonic == \E p \in Phrases : Start("restore", p, 0, WholeWallet)
AddAccount == mnemonic # NoPhrase /\ count < MaxAccounts /\ Start("add", mnemonic, count, OneAccount)
RotateKey == mnemonic # NoPhrase /\ \E i \in 0..count - 1 : Start("rotate", mnemonic, i, StoreKeypair)

\* deleteWallet: the accounts that are counted, then the phrase and the count.
Counted(n) == [i \in 1..2 * n |-> IF i % 2 = 1 THEN "secret" ELSE "public"]
DeleteWallet == Start("delete", NoPhrase, 0, Counted(count) \o <<"mnemonic", "zero">>)

\* One keychain write of the job.
Write ==
    /\ job.writes # <<>>
    /\ LET w == Head(job.writes)
           after == [job EXCEPT !.writes = Tail(@),
                                !.index = IF job.kind = "delete" /\ w = "public" THEN @ + 1 ELSE @]
       IN /\ mnemonic' = IF w = "mnemonic" THEN job.phrase ELSE mnemonic
          /\ secret' = IF w = "secret" THEN [secret EXCEPT ![job.index] = job.phrase] ELSE secret
          /\ public' = IF w = "public" THEN [public EXCEPT ![job.index] = job.phrase] ELSE public
          /\ count' = CASE w = "reset" -> 1 [] w = "zero" -> 0 [] w = "increment" -> count + 1 [] OTHER -> count
          /\ IF after.writes # <<>>
             THEN job' = after /\ UNCHANGED <<torn, erased>>
             ELSE /\ job' = NoJob
                  /\ torn' = (torn /\ job.kind \notin {"create", "restore"})
                  /\ erased' = (job.kind = "delete" /\ ~torn)
    /\ UNCHANGED jobs

\* The app is killed, or a write is refused, in the middle of a job.
CutOff ==
    /\ job # NoJob /\ job' = NoJob /\ torn' = TRUE /\ erased' = FALSE
    /\ UNCHANGED <<mnemonic, secret, public, count, jobs>>

KeysNext == CreateNewWallet \/ RestoreWalletFromMnemonic \/ AddAccount \/ RotateKey \/ DeleteWallet \/ Write \/ CutOff

\* listAccounts shows the counted indices that have a public key.
ListAccounts == {i \in 0..count - 1 : public[i] # NoPhrase}
HasWallet == count > 0

-----------------------------------------------------------------------------
(* The screens a phrase is shown and entered on, and the clipboard. *)

VARIABLES
    screen,         \* elsewhere, or a screen and its stage
    words,          \* what the recovery form holds: empty, partial, misspelt, disordered, right
    pasteMode,
    boxTicked,      \* confirmed
    answers,        \* the quiz: how many of the three words are answered, and whether rightly
    clip,           \* the clipboard: other, or the phrase
    clipTimer,      \* clipboardClearTimer is set
    cancelRef,      \* cancelClipboardRef is set
    social          \* the social recovery under way, or none

backupVars == <<screen, words, pasteMode, boxTicked, answers, clip, clipTimer, cancelRef, social>>

BackupInit ==
    /\ screen = "elsewhere" /\ words = "empty" /\ pasteMode = FALSE /\ boxTicked = FALSE
    /\ answers = [given |-> 0, right |-> TRUE] /\ clip = "other" /\ clipTimer = FALSE
    /\ cancelRef = FALSE /\ social = "none"

OpenBackup ==
    /\ screen = "elsewhere" /\ screen' = "generating"
    /\ boxTicked' = FALSE /\ answers' = [given |-> 0, right |-> TRUE] /\ cancelRef' = FALSE
    /\ UNCHANGED <<words, pasteMode, clip, clipTimer, social>>

\* createNewWallet ends.
Generated ==
    /\ screen = "generating" /\ screen' \in {"phrase", "failed"}
    /\ UNCHANGED <<words, pasteMode, boxTicked, answers, clip, clipTimer, cancelRef, social>>

\* handleCopy with copyWithAutoClear: an earlier timer is replaced.
HandleCopy ==
    /\ screen = "phrase" /\ clip' = "phrase" /\ clipTimer' = TRUE /\ cancelRef' = TRUE
    /\ UNCHANGED <<screen, words, pasteMode, boxTicked, answers, social>>

ClipTimerFires ==
    /\ clipTimer /\ clipTimer' = FALSE /\ clip' = "other"
    /\ UNCHANGED <<screen, words, pasteMode, boxTicked, answers, cancelRef, social>>

TickBox ==
    /\ screen = "phrase" /\ boxTicked' = ~boxTicked
    /\ UNCHANGED <<screen, words, pasteMode, answers, clip, clipTimer, cancelRef, social>>

\* mutant: the timer is stopped and the phrase stays.
ClearTimerOnly == clipTimer' = FALSE /\ clip' = clip
\* clearClipboard, and the function copyWithAutoClear returns.
ClearClipboard == clipTimer' = FALSE /\ clip' = "other"

\* handleContinue: the quiz starts over.
ContinueToQuiz ==
    /\ screen = "phrase" /\ boxTicked /\ screen' = "verify"
    /\ ClearClipboard /\ cancelRef' = FALSE /\ answers' = [given |-> 0, right |-> TRUE]
    /\ UNCHANGED <<words, pasteMode, boxTicked, social>>

\* handleSelect: with every word right the screen is left; words may be changed.
SelectWord ==
    /\ screen = "verify"
    /\ \E given \in {answers.given, answers.given + 1} \ {0, 4}, right \in BOOLEAN : answers' = [given |-> given, right |-> right]
    /\ IF answers'.given = 3 /\ answers'.right
       THEN screen' = "elsewhere"
       ELSE UNCHANGED <<screen>>
    /\ UNCHANGED <<words, pasteMode, boxTicked, clip, clipTimer, cancelRef, social>>

\* Going back runs the screen's cleanups.
LeaveBackup ==
    /\ screen \in {"generating", "failed", "phrase", "verify"} /\ screen' = "elsewhere"
    /\ IF cancelRef THEN ClearClipboard ELSE UNCHANGED <<clip, clipTimer>>
    /\ UNCHANGED <<words, pasteMode, boxTicked, answers, cancelRef, social>>

OpenRecovery ==
    /\ screen = "elsewhere" /\ screen' = "recovery"
    /\ words' = "empty" /\ pasteMode' = FALSE /\ social' = "none"
    /\ UNCHANGED <<boxTicked, answers, clip, clipTimer, cancelRef>>

\* A word is typed, the number of words changed, or a phrase pasted and applied.
EnterWords ==
    /\ screen = "recovery"
    /\ words' \in {"empty", "partial", "misspelt", "disordered", "right"}
    /\ pasteMode' \in (IF words' \in {"empty", "partial"} THEN BOOLEAN ELSE {FALSE})
    /\ UNCHANGED <<screen, boxTicked, answers, clip, clipTimer, cancelRef, social>>

\* handleRecover: a valid phrase is restored and forgotten.  The button is
\* also live while pasting, when fields may be empty.
RecoverRefused ==
    /\ screen = "recovery" /\ (pasteMode \/ words \notin {"empty", "partial"}) /\ words # "right"
    /\ UNCHANGED backupVars
HandleRecover ==
    /\ screen = "recovery" /\ words = "right" /\ screen' = "restoring"
    /\ UNCHANGED <<words, pasteMode, boxTicked, answers, clip, clipTimer, cancelRef, social>>
Recovered ==
    /\ screen = "restoring"
    /\ \/ screen' = "elsewhere" /\ words' = "empty" /\ ClearClipboard
       \/ screen' = "recovery" /\ UNCHANGED <<words, clip, clipTimer>>
    /\ UNCHANGED <<pasteMode, boxTicked, answers, cancelRef, social>>
LeaveRecovery ==
    /\ screen \in {"recovery", "restoring"} /\ screen' = "elsewhere" /\ ClearClipboard
    /\ UNCHANGED <<words, pasteMode, boxTicked, answers, cancelRef, social>>

\* handleSocialRecover: the linked account is looked up, then a new phrase is
\* stored for it, which no screen shows.
SocialRecover ==
    /\ screen = "recovery" /\ ~pasteMode /\ social # "verifying" /\ social' \in {"verifying", "no session"}
    /\ UNCHANGED <<screen, words, pasteMode, boxTicked, answers, clip, clipTimer, cancelRef>>
SocialEnds ==
    /\ social = "verifying"
    /\ \/ social' = "recovered" /\ words' = "empty"
       \/ social' \in {"no wallet", "failed"} /\ UNCHANGED words
    /\ UNCHANGED <<screen, pasteMode, boxTicked, answers, clip, clipTimer, cancelRef>>

BackupNext ==
    \/ OpenBackup \/ Generated \/ HandleCopy \/ ClipTimerFires \/ TickBox \/ ContinueToQuiz \/ SelectWord \/ LeaveBackup
    \/ OpenRecovery \/ EnterWords \/ RecoverRefused \/ HandleRecover \/ Recovered \/ LeaveRecovery
    \/ SocialRecover \/ SocialEnds

-----------------------------------------------------------------------------
(* The biometric screen and the PIN. *)

VARIABLES
    hardware,       \* hardwareStatus
    pinStored,      \* the PIN whose hash is stored, or none
    pinAnswer,      \* the storage was asked whether a PIN is there and has not answered
    pinModal,       \* showPinModal
    pinIsSetup,
    verifying,      \* loading: the system prompt is open
    offered,        \* the alert that offers the PIN is open
    onward          \* how the screen was left: not yet, skipped, biometric, pin

pinVars == <<hardware, pinStored, pinAnswer, pinModal, pinIsSetup, verifying, offered, onward>>

PinInit ==
    /\ hardware = "checking" /\ pinStored \in {"none", "mine"} /\ pinAnswer = FALSE /\ pinModal = FALSE
    /\ pinIsSetup = FALSE /\ verifying = FALSE /\ offered = FALSE /\ onward = "no"

NoHardware == hardware \in {"unavailable", "not_enrolled"}

\* checkHardware ends; without a sensor the storage is asked for a PIN.
HardwareChecked ==
    /\ hardware = "checking" /\ hardware' \in {"available", "unavailable", "not_enrolled"}
    /\ pinAnswer' = (hardware' # "available")
    /\ UNCHANGED <<pinStored, pinModal, pinIsSetup, verifying, offered, onward>>

\* mutant: the modal always verifies.
ModeFixed == FALSE
\* A PIN is set up where none is stored and verified where one is.
Mode == pinStored = "none"

\* The modal opens in the mode the stored hash calls for, and to set a PIN up
\* where the hash could not be read.
PinAnswered ==
    /\ pinAnswer /\ pinAnswer' = FALSE /\ pinModal' = TRUE /\ pinIsSetup' \in {Mode, TRUE}
    /\ UNCHANGED <<hardware, pinStored, verifying, offered, onward>>

\* handleContinue without a sensor: the modal at once, in the mode it has.
ContinueToPin ==
    /\ onward = "no" /\ NoHardware /\ ~pinModal /\ (~pinAnswer \/ SlowStorage) /\ pinModal' = TRUE
    /\ UNCHANGED <<hardware, pinStored, pinAnswer, pinIsSetup, verifying, offered, onward>>

\* handleContinue with a sensor: authenticateWithBiometrics prompts, with the
\* passcode as the fallback.
Prompt ==
    /\ onward = "no" /\ hardware = "available" /\ ~verifying /\ ~offered /\ ~pinModal /\ ~pinAnswer /\ verifying' = TRUE
    /\ UNCHANGED <<hardware, pinStored, pinAnswer, pinModal, pinIsSetup, offered, onward>>
Prompted ==
    /\ verifying /\ verifying' = FALSE
    /\ \/ \* success, or the user cancelled: both go on
          onward' = "biometric" /\ UNCHANGED <<hardware, pinAnswer, offered>>
       \/ \* the sensor lost its enrolment meanwhile: the PIN instead
          hardware' = "unavailable" /\ pinAnswer' = TRUE /\ UNCHANGED <<onward, offered>>
       \/ \* failed, or an error: an alert offers the PIN
          offered' = TRUE /\ UNCHANGED <<onward, hardware, pinAnswer>>
    /\ UNCHANGED <<pinStored, pinModal, pinIsSetup>>
AnswerOffer ==
    /\ offered /\ offered' = FALSE /\ pinAnswer' \in BOOLEAN
    /\ UNCHANGED <<hardware, pinStored, pinModal, pinIsSetup, verifying, onward>>

\* saveAccountPin; the two entries must be equal and long enough.
SavePin ==
    /\ pinModal /\ pinIsSetup /\ pinStored' = "mine" /\ pinModal' = FALSE /\ onward' = "pin"
    /\ UNCHANGED <<hardware, pinAnswer, pinIsSetup, verifying, offered>>
\* verifyAccountPin: where none is stored every PIN passes.
VerifyPin ==
    /\ pinModal /\ ~pinIsSetup
    /\ \E entered \in {"mine", "other"} :
         IF pinStored = "none" \/ entered = pinStored
         THEN pinModal' = FALSE /\ onward' = "pin" ELSE UNCHANGED <<pinModal, onward>>
    /\ UNCHANGED <<hardware, pinStored, pinAnswer, pinIsSetup, verifying, offered>>
CancelPin ==
    /\ pinModal /\ pinModal' = FALSE
    /\ UNCHANGED <<hardware, pinStored, pinAnswer, pinIsSetup, verifying, offered, onward>>
\* handleSkip.
SkipBiometric ==
    /\ onward = "no" /\ ~verifying /\ ~pinModal /\ onward' = "skipped"
    /\ UNCHANGED <<hardware, pinStored, pinAnswer, pinModal, pinIsSetup, verifying, offered>>
\* The screen is opened again later.
BiometricAgain ==
    /\ onward # "no" /\ onward' = "no" /\ hardware' = "checking" /\ pinModal' = FALSE /\ pinIsSetup' = FALSE
    /\ pinAnswer' = FALSE /\ verifying' = FALSE /\ offered' = FALSE
    /\ UNCHANGED pinStored

PinNext ==
    \/ HardwareChecked \/ PinAnswered \/ ContinueToPin \/ Prompt \/ Prompted \/ AnswerOffer
    \/ SavePin \/ VerifyPin \/ CancelPin \/ SkipBiometric \/ BiometricAgain

-----------------------------------------------------------------------------
KeysTypeOK ==
    /\ mnemonic \in Phrases \cup {NoPhrase} /\ count \in 0..MaxAccounts
    /\ secret \in [Indices -> Phrases \cup {NoPhrase}] /\ public \in [Indices -> Phrases \cup {NoPhrase}]
    /\ jobs \in 0..MaxJobs /\ torn \in BOOLEAN /\ erased \in BOOLEAN
    /\ screen \in {"elsewhere", "generating", "failed", "phrase", "verify", "recovery", "restoring"}
    /\ answers.given \in 0..3 /\ clip \in {"other", "phrase"} /\ clipTimer \in BOOLEAN
    /\ hardware \in {"checking", "available", "unavailable", "not_enrolled"} /\ pinStored \in {"none", "mine"}
    /\ onward \in {"no", "skipped", "biometric", "pin"}

\* Unless a job was cut off, every account that is listed can be signed for and
\* comes from the phrase that is stored; and however a job was cut off, the
\* next wallet that is created or restored to the end repairs it.  Assumed is
\* that no job starts before another has ended (Start).
ListedKeysAreDerived ==
    job = NoJob /\ ~torn => \A i \in ListAccounts : secret[i] = mnemonic /\ public[i] = mnemonic

\* "Delete ALL wallet data from secure storage."
DeletesEverything == erased => \A i \in Indices : secret[i] = NoPhrase /\ public[i] = NoPhrase

\* A phrase on the clipboard always has the timer that clears it, whichever
\* screen copied it, is opened next, or is left.
PhraseIsTimed == clip = "phrase" => clipTimer

\* Whoever passed the PIN has one stored: no entry in a wrong mode lets the
\* onboarding end unprotected.
PinProtects == onward = "pin" => pinStored # "none"
=============================================================================
