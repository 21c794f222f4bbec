--------------------------- MODULE MobileSecurity ---------------------------
(***************************************************************************)
(* What the mobile app keeps about its user (the keychain, the wallet's    *)
(* keys, the session, the profile, the guards) and the shell around its    *)
(* screens, run side by side.  They share no state.  A behaviour follows   *)
(* one of them, `part', while the others rest.                             *)
(***************************************************************************)
EXTENDS MobileKeychain, MobileKeys, MobileAccount, MobileShell, BiometricGuard, MobileApi

VARIABLE part   \* the part that is used

Parts == {"keychain", "keys", "backup", "pin", "username", "profile", "entry", "notify",
          "gate", "notice", "contacts", "crash", "theme", "guard", "api"}

OfKeys == <<keyVars, backupVars, pinVars>>
OfAccount == <<usernameVars, profileVars, entryVars>>
OfShell == <<notifyVars, gateVars, noticeVars, contactVars, crashVars, themeVars>>
vars == <<part, keychainVars, OfKeys, OfAccount, OfShell, biometricVars, apiVars>>

\* A part at rest starts in one of its initial states; which one is no matter.
Resting ==
    /\ part = "pin" \/ pinStored = "none"
    /\ part = "profile" \/ cachedProfile = "none"
    /\ part = "entry" \/ entryScreen = "password"
    /\ part = "gate" \/ installed = CHOOSE v \in Versions : TRUE
    /\ part = "crash" \/ online
    /\ part = "guard" \/ (~bioPref /\ ~pinHash)

Init ==
    /\ part \in Parts
    /\ KeychainInit /\ KeysInit /\ BackupInit /\ PinInit /\ UsernameInit /\ ProfileInit /\ EntryInit
    /\ NotifyInit /\ GateInit /\ NoticeInit /\ ContactInit /\ CrashInit /\ ThemeInit
    /\ BiometricInit /\ ApiInit /\ Resting

Except(p, others) == part = p /\ UNCHANGED <<part, others>>
NotKeys == <<keychainVars, OfAccount, OfShell, biometricVars, apiVars>>
NotAccount == <<keychainVars, OfKeys, OfShell, biometricVars, apiVars>>
NotShell == <<keychainVars, OfKeys, OfAccount, biometricVars, apiVars>>

Next ==
    \/ Except("keychain", <<OfKeys, OfAccount, OfShell, biometricVars, apiVars>>) /\ KeychainNext
    \/ Except("keys", <<backupVars, pinVars, NotKeys>>) /\ KeysNext
    \/ Except("backup", <<keyVars, pinVars, NotKeys>>) /\ BackupNext
    \/ Except("pin", <<keyVars, backupVars, NotKeys>>) /\ PinNext
    \/ Except("username", <<profileVars, entryVars, NotAccount>>) /\ UsernameNext
    \/ Except("profile", <<usernameVars, entryVars, NotAccount>>) /\ ProfileNext
    \/ Except("entry", <<usernameVars, profileVars, NotAccount>>) /\ EntryNext
    \/ Except("notify", <<gateVars, noticeVars, contactVars, crashVars, themeVars, NotShell>>) /\ NotifyNext
    \/ Except("gate", <<notifyVars, noticeVars, contactVars, crashVars, themeVars, NotShell>>) /\ GateNext
    \/ Except("notice", <<notifyVars, gateVars, contactVars, crashVars, themeVars, NotShell>>) /\ NoticeNext
    \/ Except("contacts", <<notifyVars, gateVars, noticeVars, crashVars, themeVars, NotShell>>) /\ ContactNext
    \/ Except("crash", <<notifyVars, gateVars, noticeVars, contactVars, themeVars, NotShell>>) /\ CrashNext
    \/ Except("theme", <<notifyVars, gateVars, noticeVars, contactVars, crashVars, NotShell>>) /\ ThemeNext
    \/ Except("guard", <<keychainVars, OfKeys, OfAccount, OfShell, apiVars>>) /\ BiometricNext
    \/ Except("api", <<keychainVars, OfKeys, OfAccount, OfShell, biometricVars>>) /\ ApiNext

-----------------------------------------------------------------------------
(* Fairness: the phone ends every request, prompt and storage call it has  *)
(* started, and timers fire.                                               *)

FairAccount ==
    /\ WF_usernameVars(part = "username" /\ UsernameKept)
    /\ WF_profileVars(part = "profile" /\ (AvatarUploaded \/ ProfilePut \/ ProfileStored \/ SaveFails))
    /\ WF_entryVars(part = "entry" /\ (SplashEnds \/ UrlOpened \/ PrivyTimerFires))
FairShell ==
    /\ WF_notifyVars(part = "notify" /\ NotifyMoves) /\ WF_noticeVars(part = "notice" /\ NoticeMoves)
    /\ WF_contactVars(part = "contacts" /\ ContactMoves) /\ WF_crashVars(part = "crash" /\ CrashMoves)
FairGuards ==
    /\ WF_biometricVars(part = "guard" /\ GuardMoves) /\ WF_biometricVars(part = "guard" /\ SettingsMoves)
    /\ WF_biometricVars(part = "guard" /\ PayMoves)
    /\ WF_apiVars(part = "api" /\ ApiMoves)

Spec == Init /\ [][Next]_vars /\ FairAccount /\ FairShell /\ FairGuards

-----------------------------------------------------------------------------
\* Types of every part.
TypeOK ==
    /\ part \in Parts
    /\ KeychainTypeOK /\ KeysTypeOK /\ AccountTypeOK /\ ShellTypeOK /\ BiometricTypeOK /\ ApiTypeOK

\* What the phone stores is what it was given, although it is written call by
\* call with kills, refused writes and late answers in between: tokens, keys, a
\* copied phrase, the name, the profile, the session and the recent recipients.
\* The code does not keep all of that in every case, and each conjunct states
\* where it stops: a token on which a failed read of the keychain has borne, a
\* rejected session the keychain refused to delete.  Nor does it keep apart
\* what is assumed apart here: a token set beside a rotation (OverlapSets =
\* FALSE), two jobs of the keys (Start of MobileKeys), two names resolved at
\* once (OverlapResolves = FALSE).
PhoneRemembers ==
    /\ TypeOK
    /\ TokenKept /\ ListedKeysAreDerived /\ PhraseIsTimed /\ StoredNameIsWellFormed
    /\ CachedProfileWasAccepted /\ RejectedIsNotStored /\ RecentsFollowLog

\* A guard that has read its status and found the protection on shows nothing
\* before the user proved himself to it, a payment it asked for or a switch-off
\* needs a prompt of its own, and wrong PINs are counted over all guards.  While
\* a guard still reads the status its children are shown, and Confirm pays
\* unasked (EarlyPresses = TRUE violates PaymentsAreProved); two PINs verified
\* at once count as one (OverlapPins = TRUE violates PinsAreLimited); and a PIN
\* asked before the stored one was read lets the onboarding end without any
\* (SlowStorage = TRUE violates PinProtects).
UserIsProved ==
    /\ [](PinProtects /\ GuardProves /\ PinsAreLimited /\ PaymentsAreProved)
    /\ DisablingIsProved

\* The shell: the system's dialog is raised only by who may, versions compare
\* as versions, every contact is matched, the newest reports and the theme are
\* kept, and an outage that was told is closed once.  The reports are those of
\* one crash at a time with a queue that can be read (HostileCrashes = FALSE).
ShellIsRight ==
    /\ [](DialogWasAskedFor /\ NotAskedAgain /\ GateIsRight /\ ContactsAreComplete /\ ReportsKept /\ ThemeIsRemembered)
    /\ BackOnlineClosesOutage

Working == AccountWorking \/ ShellWorking \/ BiometricWorking \/ ApiWorking

\* Nothing is left waiting: a save, a login, a registration, a toast, a load
\* of contacts, a report, a prompt, a payment or a request that was started
\* ends, whatever it ends with (onboarding-start.tsx:129-134, Toast.tsx:57-78,
\* crashReporter.ts:36-48, PaymentConfirm.tsx:45-52).
WorkEnds == Working ~> ~Working
=============================================================================
