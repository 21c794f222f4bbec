--------------------------- MODULE MobileAccount ---------------------------
(***************************************************************************)
(* How an account begins: the splash screen, the social sign-in buttons,   *)
(* the profile and username screens with the profile they keep in          *)
(* AsyncStorage, the account type, the returning user's screens and the    *)
(* password forms.  No password or secret key entered here goes anywhere.  *)
(***************************************************************************)
EXTENDS Naturals, FiniteSets

CONSTANTS
    Handles,        \* usernames of the right length and alphabet
    BadHandle,      \* one that is not
    NoHandle,       \* the empty text
    MaxTyped,       \* bound: edits of the username
    MaxLaunches     \* bound: presses of a social button
ASSUME AccountConstants == MaxTyped \in Nat /\ MaxLaunches \in Nat

VARIABLES
    handle, formatError,
    isChecking,
    isAvailable,    \* "null", "yes" or "no"
    checkTimer,     \* the name whose check is debounced, or NoHandle
    checkCalls,     \* names whose check is on the wire
    submitting,
    typedCount,     \* bound
    storedName,     \* the username in AsyncStorage
    onUsername      \* the screen is shown
usernameVars == <<handle, formatError, isChecking, isAvailable, checkTimer, checkCalls, submitting, typedCount,
                  storedName, onUsername>>

VARIABLES
    displayName,    \* "none", "old" (cached before) or "new" (typed now)
    avatar,         \* "none", "remote" or "file"
    loadingProfile, saving,
    saveStep,       \* "idle", "upload", "put" or "store"
    sent,           \* the display name being saved
    accepted,       \* history: display names the server accepted
    cachedProfile,  \* the display name of user_profile in AsyncStorage
    onProfile
profileVars == <<displayName, avatar, loadingProfile, saving, saveStep, sent, accepted, cachedProfile, onProfile>>

VARIABLES
    entryScreen,      \* the screen shown
    activeProvider,   \* the overlay of a social sign-in is up
    opening,          \* openURL calls under way
    privyTimers,      \* pending one-second timers
    launches,         \* bound
    choice,           \* the account type selected, or "none"
    secretKey,        \* the returning user's key field is filled
    recovery,         \* "loading" or "found"
    fields            \* the password form: fields filled, and whether they agree
entryVars == <<entryScreen, activeProvider, opening, privyTimers, launches, choice, secretKey, recovery, fields>>

-----------------------------------------------------------------------------
(* The username screen. *)

UsernameInit ==
    /\ handle = NoHandle /\ formatError = FALSE /\ isChecking = FALSE /\ isAvailable = "null"
    /\ checkTimer = NoHandle /\ checkCalls = {} /\ submitting = FALSE /\ typedCount = 0
    /\ storedName = NoHandle /\ onUsername = TRUE

ValidateUsernameFormat(n) == n \in Handles

\* A render gives the debounced check a new identity, and the cleanup of the
\* effect that depends on it cancels the timer.
CancelledByRender == NoHandle
TimerAfter(n, rendered) == IF rendered THEN CancelledByRender ELSE n

\* The same name typed again, behind an '@', changes no state while a check
\* is waited for, and so causes no render.
Rerenders(n) == ~(n = handle /\ isChecking /\ isAvailable = "null" /\ ~formatError)

HandleChangeText(n) ==
    /\ onUsername /\ typedCount < MaxTyped /\ typedCount' = typedCount + 1
    /\ handle' = n /\ isAvailable' = "null"
    /\ formatError' = (n # NoHandle /\ ~ValidateUsernameFormat(n))
    /\ isChecking' = ValidateUsernameFormat(n)
    /\ checkTimer' = IF ValidateUsernameFormat(n) THEN TimerAfter(n, Rerenders(n)) ELSE CancelledByRender
    /\ UNCHANGED <<checkCalls, submitting, storedName, onUsername>>

DebouncedCheck ==
    /\ onUsername /\ checkTimer # NoHandle
    /\ checkCalls' = checkCalls \cup {checkTimer} /\ checkTimer' = NoHandle
    /\ UNCHANGED <<handle, formatError, isChecking, isAvailable, submitting, typedCount, storedName, onUsername>>

\* checkUsernameAvailabilityApi says yes to whatever is not a clear no; the
\* answer is shown whatever the name is by then.
CheckAnswered(n) ==
    /\ n \in checkCalls /\ checkCalls' = checkCalls \ {n}
    /\ isAvailable' \in {"yes", "no"} /\ isChecking' = FALSE /\ checkTimer' = CancelledByRender
    /\ UNCHANGED <<handle, formatError, submitting, typedCount, storedName, onUsername>>

\* The mutant: the length is left to the format error.
NoLengthCheck == ~formatError /\ ~isChecking /\ isAvailable = "yes" /\ ~submitting
CanContinue == handle # NoHandle /\ ~formatError /\ ~isChecking /\ isAvailable = "yes" /\ ~submitting

\* What the screen says under the field.
StatusRow ==
    CASE isChecking -> "checking"
      [] ~isChecking /\ isAvailable = "yes" -> "available"
      [] ~isChecking /\ isAvailable = "no" -> "taken"
      [] OTHER -> "none"

ContinueUsername ==
    /\ onUsername /\ CanContinue /\ submitting' = TRUE /\ storedName' = handle
    /\ UNCHANGED <<handle, formatError, isChecking, isAvailable, checkTimer, checkCalls, typedCount, onUsername>>

\* The profile is merged, or could not be: home either way.
UsernameKept ==
    /\ submitting /\ submitting' = FALSE /\ onUsername' = FALSE /\ checkTimer' = CancelledByRender
    /\ UNCHANGED <<handle, formatError, isChecking, isAvailable, checkCalls, typedCount, storedName>>

LeaveUsername ==
    /\ onUsername /\ ~submitting /\ onUsername' = FALSE /\ checkTimer' = CancelledByRender
    /\ UNCHANGED <<handle, formatError, isChecking, isAvailable, checkCalls, submitting, typedCount, storedName>>

UsernameNext ==
    \/ \E n \in Handles \cup {BadHandle, NoHandle} : HandleChangeText(n)
    \/ DebouncedCheck \/ (\E n \in checkCalls : CheckAnswered(n))
    \/ ContinueUsername \/ UsernameKept \/ LeaveUsername

-----------------------------------------------------------------------------
(* The profile screen. *)

ProfileInit ==
    /\ displayName = "none" /\ avatar = "none" /\ loadingProfile = TRUE /\ saving = FALSE /\ saveStep = "idle"
    /\ cachedProfile \in {"none", "old"} /\ accepted = {cachedProfile} \ {"none"}
    /\ sent = "none" /\ onProfile = TRUE

\* The cached profile replaces what was typed before it was read.
ProfileRead ==
    /\ onProfile /\ loadingProfile /\ loadingProfile' = FALSE
    /\ displayName' = IF cachedProfile = "none" THEN displayName ELSE cachedProfile
    /\ avatar' = IF cachedProfile = "none" THEN avatar ELSE "remote"
    /\ UNCHANGED <<saving, saveStep, sent, accepted, cachedProfile, onProfile>>

EditProfile ==
    /\ onProfile /\ displayName' \in {"none", "new"}
    /\ UNCHANGED <<avatar, loadingProfile, saving, saveStep, sent, accepted, cachedProfile, onProfile>>

HandlePickAvatar ==
    /\ onProfile /\ avatar' = "file"
    /\ UNCHANGED <<displayName, loadingProfile, saving, saveStep, sent, accepted, cachedProfile, onProfile>>

\* A picked file is uploaded first.
\* The mutant: without one the profile is not sent.
SkipsPut == IF avatar = "file" THEN "upload" ELSE "store"
FirstStep == IF avatar = "file" THEN "upload" ELSE "put"

HandleSave ==
    /\ onProfile /\ displayName # "none" /\ ~saving /\ saving' = TRUE
    /\ saveStep' = FirstStep
    /\ sent' = displayName
    /\ UNCHANGED <<displayName, avatar, loadingProfile, accepted, cachedProfile, onProfile>>

AvatarUploaded ==
    /\ saveStep = "upload" /\ saveStep' = "put"
    /\ UNCHANGED <<displayName, avatar, loadingProfile, saving, sent, accepted, cachedProfile, onProfile>>

ProfilePut ==
    /\ saveStep = "put" /\ saveStep' = "store" /\ accepted' = accepted \cup {sent}
    /\ UNCHANGED <<displayName, avatar, loadingProfile, saving, sent, cachedProfile, onProfile>>

\* The cache holds what was sent, without the username it may have held.
ProfileStored ==
    /\ saveStep = "store" /\ saveStep' = "idle" /\ saving' = FALSE
    /\ cachedProfile' = sent /\ onProfile' = (onProfile /\ loadingProfile)
    /\ UNCHANGED <<displayName, avatar, loadingProfile, sent, accepted>>

\* The mutant: a failure leaves the button busy.
SavingKept == saving
SavingEnded == FALSE

\* One of the three steps fails; fetchWithRetry has tried again before.
SaveFails ==
    /\ saveStep # "idle" /\ saveStep' = "idle" /\ saving' = SavingEnded
    /\ UNCHANGED <<displayName, avatar, loadingProfile, sent, accepted, cachedProfile, onProfile>>

\* Skip and back; a save under way goes on.
HandleSkip ==
    /\ onProfile /\ onProfile' = FALSE
    /\ UNCHANGED <<displayName, avatar, loadingProfile, saving, saveStep, sent, accepted, cachedProfile>>

ProfileNext ==
    \/ ProfileRead \/ EditProfile \/ HandlePickAvatar \/ HandleSave \/ AvatarUploaded \/ ProfilePut \/ ProfileStored
    \/ SaveFails \/ HandleSkip
-----------------------------------------------------------------------------
(* The other entry screens.  Those of the returning user and the password  *)
(* forms are opened by their address only.                                 *)

ByAddress == {"account-type", "returning-user", "password", "change-password"}

EntryInit ==
    /\ entryScreen \in {"splash"} \cup ByAddress /\ activeProvider = FALSE /\ opening = 0 /\ privyTimers = 0
    /\ launches = 0 /\ choice = "none" /\ secretKey = FALSE /\ recovery = "loading"
    /\ fields = [filled |-> FALSE, agree |-> TRUE]
privyVars == <<activeProvider, opening, privyTimers, launches>>

SplashEnds ==
    /\ entryScreen = "splash" /\ entryScreen' = "index"
    /\ UNCHANGED <<privyVars, choice, secretKey, recovery, fields>>

SetUpManually ==
    /\ entryScreen = "index" /\ ~activeProvider /\ entryScreen' = "onboarding"
    /\ UNCHANGED <<privyVars, choice, secretKey, recovery, fields>>

\* The buttons are on the start and profile screens, under the overlay.
SocialButtonsShown == entryScreen \in {"index", "onboarding"} /\ ~activeProvider

HandleLaunchPrivy ==
    /\ SocialButtonsShown /\ launches < MaxLaunches /\ launches' = launches + 1
    /\ activeProvider' = TRUE /\ opening' = opening + 1
    /\ UNCHANGED <<entryScreen, privyTimers, choice, secretKey, recovery, fields>>

\* The mutant: the timer is set only for an address that was opened.
TimerIfOpened(opened) == IF opened THEN 1 ELSE 0
TimerSet(opened) == 1

UrlOpened ==
    /\ opening > 0 /\ opening' = opening - 1
    /\ \E opened \in BOOLEAN : privyTimers' = privyTimers + TimerSet(opened)
    /\ UNCHANGED <<entryScreen, activeProvider, launches, choice, secretKey, recovery, fields>>

\* Whether anyone signed in is not asked; the screen goes on from wherever
\* the user is by then.
PrivyTimerFires ==
    /\ privyTimers > 0 /\ privyTimers' = privyTimers - 1
    /\ activeProvider' = FALSE /\ entryScreen' = "username"
    /\ UNCHANGED <<opening, launches, choice, secretKey, recovery, fields>>

\* The system's back closes the overlay, not what it stands for.
CloseOverlay ==
    /\ activeProvider /\ activeProvider' = FALSE
    /\ UNCHANGED <<entryScreen, opening, privyTimers, launches, choice, secretKey, recovery, fields>>

SelectAccountType ==
    /\ entryScreen = "account-type" /\ \E c \in {"personal", "merchant"} \ {choice} : choice' = c
    /\ UNCHANGED <<entryScreen, privyVars, secretKey, recovery, fields>>
ContinueAccountType ==
    /\ entryScreen = "account-type" /\ choice # "none"
    /\ entryScreen' = IF choice = "merchant" THEN "merchant" ELSE "home"
    /\ UNCHANGED <<privyVars, choice, secretKey, recovery, fields>>

EditSecretKey ==
    /\ entryScreen = "returning-user" /\ secretKey' = ~secretKey
    /\ UNCHANGED <<entryScreen, privyVars, choice, recovery, fields>>
\* The key itself goes nowhere.
RecoverAccount ==
    /\ entryScreen = "returning-user" /\ secretKey /\ entryScreen' = "status" /\ recovery' = "loading"
    /\ UNCHANGED <<privyVars, choice, secretKey, fields>>
StatusFound ==
    /\ entryScreen = "status" /\ recovery = "loading" /\ recovery' = "found"
    /\ UNCHANGED <<entryScreen, privyVars, choice, secretKey, fields>>
ContinueFound ==
    /\ entryScreen = "status" /\ recovery = "found" /\ entryScreen' = "password-setup"
    /\ UNCHANGED <<privyVars, choice, secretKey, recovery, fields>>

PasswordForms == {"password", "password-setup", "change-password"}
EditPassword ==
    /\ entryScreen \in PasswordForms
    /\ fields' \in [filled : BOOLEAN, agree : BOOLEAN] \ {fields}
    /\ UNCHANGED <<entryScreen, privyVars, choice, secretKey, recovery>>
PasswordReady == fields.filled /\ fields.agree
PasswordContinue ==
    /\ entryScreen = "password" /\ PasswordReady /\ entryScreen' = "biometric"
    /\ UNCHANGED <<privyVars, choice, secretKey, recovery, fields>>
PasswordSetupContinue ==
    /\ entryScreen = "password-setup" /\ PasswordReady /\ entryScreen' = "biometric"
    /\ UNCHANGED <<privyVars, choice, secretKey, recovery, fields>>
HandleUpdate ==
    /\ entryScreen = "change-password" /\ PasswordReady /\ entryScreen' = "settings"
    /\ UNCHANGED <<privyVars, choice, secretKey, recovery, fields>>

EntryNext ==
    \/ SplashEnds \/ SetUpManually \/ HandleLaunchPrivy \/ UrlOpened \/ PrivyTimerFires \/ CloseOverlay
    \/ SelectAccountType \/ ContinueAccountType \/ EditSecretKey \/ RecoverAccount \/ StatusFound \/ ContinueFound
    \/ EditPassword \/ PasswordContinue \/ PasswordSetupContinue \/ HandleUpdate

-----------------------------------------------------------------------------
\* Types of the entry screens.
AccountTypeOK ==
    /\ {handle, checkTimer, storedName} \subseteq Handles \cup {BadHandle, NoHandle} /\ checkCalls \subseteq Handles
    /\ {formatError, isChecking, submitting, onUsername, loadingProfile, saving, onProfile, activeProvider,
        secretKey} \subseteq BOOLEAN
    /\ isAvailable \in {"null", "yes", "no"} /\ typedCount \in 0..MaxTyped
    /\ {displayName, sent, cachedProfile} \subseteq {"none", "old", "new"} /\ accepted \subseteq {"old", "new"}
    /\ avatar \in {"none", "remote", "file"} /\ saveStep \in {"idle", "upload", "put", "store"}
    /\ {opening, privyTimers, launches} \subseteq 0..MaxLaunches
    /\ choice \in {"none", "personal", "merchant"} /\ recovery \in {"loading", "found"}
    /\ fields \in [filled : BOOLEAN, agree : BOOLEAN]

\* The username that is kept is well formed, also when the answer to an
\* earlier name arrives after the field was emptied or spoilt
\* (username.tsx:92-96, 131-136).
StoredNameIsWellFormed == submitting => ValidateUsernameFormat(storedName)

\* The profile kept on the device is one the server has accepted, whichever
\* step of a save fails and however often it is pressed again
\* (onboarding-start.tsx:98-124).
CachedProfileWasAccepted == cachedProfile # "none" => cachedProfile \in accepted

\* What ends by itself: the splash, an overlay, a save.
AccountWorking == entryScreen = "splash" \/ activeProvider \/ saving \/ submitting

\* A check the screen says is under way ends (username.tsx:211-214,
\* "Checking availability...").
ChecksEnd == (onUsername /\ StatusRow = "checking") ~> ~(onUsername /\ StatusRow = "checking")
=============================================================================
