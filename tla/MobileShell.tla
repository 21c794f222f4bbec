---------------------------- MODULE MobileShell ----------------------------
(***************************************************************************)
(* What the app keeps around its screens: consent to notifications and the *)
(* push token, the minimum-version gate, the network notices and toasts,   *)
(* the matching of phone contacts, the error boundary with its queue of    *)
(* crash reports, and the theme.                                           *)
(***************************************************************************)
EXTENDS Naturals, Sequences, FiniteSets

CONSTANTS
    Versions,       \* dotted versions, as sequences of numbers
    Entries,        \* the phone book: name -> set of numbers [rest, zero, long]
    OnZaps,         \* the canonical numbers the server knows
    ChunkSize,      \* hashes per match request
    MaxQueuedReports,
    HostileCrashes, \* reads of the queue may fail and reports overlap
    MaxLaunched,    \* bound: restarts of the app
    MaxToasts,      \* bound: toasts shown
    MaxCrashes      \* bound: crashes

ASSUME ShellConstants == /\ {ChunkSize, MaxQueuedReports, MaxLaunched} \subseteq Nat \ {0}
                         /\ {MaxToasts, MaxCrashes} \subseteq Nat
                         /\ Versions \subseteq Seq(Nat)
                         /\ HostileCrashes \in BOOLEAN

\* Array.filter: the elements of the list that are in S, in their order.
Filter(list, S) ==
    LET kept[i \in 0..Len(list)] ==
            IF i = 0 THEN <<>> ELSE IF list[i] \in S THEN Append(kept[i - 1], list[i]) ELSE kept[i - 1]
    IN kept[Len(list)]

-----------------------------------------------------------------------------
(* Consent to notifications.  Three callers may register for a push token: *)
(* the start of the app, the banner of the home screen and the switch of   *)
(* the settings.                                                           *)

Callers == {"boot", "home", "toggle"}
Statuses == {"undetermined", "granted", "denied"}

VARIABLES
    permission,     \* what the system has recorded
    notifyPref,     \* zaps_notifications_enabled: "unset", "on" or "off"
    promptDismissed,
    pushToken,      \* a push token is stored
    notifyStep,     \* caller -> "idle", "dialog", "decided", "token" or "send"
    notifPrompt,    \* the banner: "unchecked", "hidden" or "shown"
    answeredPrompt, \* history: the banner has been answered
    asked,          \* history: Enable or the switch was pressed since the app started
    launched        \* bound
notifyVars == <<permission, notifyPref, promptDismissed, pushToken, notifyStep, notifPrompt, answeredPrompt, asked, launched>>

NotifyInit ==
    /\ permission = "undetermined" /\ notifyPref = "unset" /\ promptDismissed = FALSE /\ pushToken = FALSE
    /\ notifyStep = [c \in Callers |-> IF c = "boot" THEN "decided" ELSE "idle"]
    /\ notifPrompt = "unchecked" /\ answeredPrompt = FALSE /\ asked = FALSE /\ launched = 1

StoredPreference == notifyPref # "off"

\* requestIfUndetermined; the start of the app passes false.
\* The mutant: the default for everybody.
AsksAnyone(c) == TRUE
RequestIfUndetermined(c) == c # "boot"

\* requestNotificationPermissionsAsync: the dialog, unless permission is
\* granted or was denied before, which the system answers by itself.
AfterRequest(c) == IF permission = "undetermined" /\ RequestIfUndetermined(c) THEN "dialog" ELSE "decided"

\* setupNotifications at the start of the app, and its registration.
SetupNotifications ==
    /\ notifyStep["boot"] = "decided"
    /\ notifyStep' = [notifyStep EXCEPT !["boot"] =
                        CASE ~StoredPreference -> "idle"
                          [] StoredPreference /\ AfterRequest("boot") = "dialog" -> "dialog"
                          [] OTHER -> IF permission = "granted" THEN "token" ELSE "idle"]
    /\ UNCHANGED <<permission, notifyPref, promptDismissed, pushToken, notifPrompt, answeredPrompt, asked, launched>>

\* The system's dialog is answered, or closed without an answer.
DialogAnswered(c) ==
    /\ notifyStep[c] = "dialog" /\ permission' \in Statuses
    /\ notifyStep' = [notifyStep EXCEPT ![c] = "decided"]
    /\ UNCHANGED <<notifyPref, promptDismissed, pushToken, notifPrompt, answeredPrompt, asked, launched>>

\* What follows the answer.  The banner and the switch read the same step.
\* The mutant: only consent is remembered.
MarkedIfGranted == permission = "granted"
PromptMarked == TRUE

AnswerRead(c) ==
    /\ c \in {"home", "toggle"} /\ notifyStep[c] = "decided"
    /\ notifyStep' = [notifyStep EXCEPT ![c] = IF permission = "granted" THEN "token" ELSE "idle"]
    /\ notifyPref' = IF c = "home" /\ permission = "granted" THEN "on" ELSE notifyPref
    /\ IF c = "home" /\ permission # "granted"
       THEN promptDismissed' = (promptDismissed \/ PromptMarked) /\ notifPrompt' = "hidden" /\ answeredPrompt' = TRUE
       ELSE UNCHANGED <<promptDismissed, notifPrompt, answeredPrompt>>
    /\ UNCHANGED <<permission, pushToken, asked, launched>>

\* The token is fetched, stored, and then sent; or it cannot be had.
TokenStored(c) ==
    /\ notifyStep[c] = "token" /\ pushToken' = TRUE
    /\ notifyStep' = [notifyStep EXCEPT ![c] = "send"]
    /\ UNCHANGED <<permission, notifyPref, promptDismissed, notifPrompt, answeredPrompt, asked, launched>>

\* sendDeviceTokenToBackend swallows its failure.
RegisterEnds(c) ==
    /\ notifyStep[c] \in {"token", "send"} /\ notifyStep' = [notifyStep EXCEPT ![c] = "idle"]
    /\ IF c = "home"
       THEN promptDismissed' = (promptDismissed \/ PromptMarked) /\ notifPrompt' = "hidden" /\ answeredPrompt' = TRUE
       ELSE UNCHANGED <<promptDismissed, notifPrompt, answeredPrompt>>
    /\ UNCHANGED <<permission, notifyPref, pushToken, asked, launched>>

\* shouldShowNotificationConsentPrompt, once when the home screen appears.
ShouldShowPrompt == permission = "undetermined" /\ ~promptDismissed
PromptChecked ==
    /\ notifPrompt = "unchecked" /\ notifPrompt' = IF ShouldShowPrompt THEN "shown" ELSE "hidden"
    /\ UNCHANGED <<permission, notifyPref, promptDismissed, pushToken, notifyStep, answeredPrompt, asked, launched>>

\* The system's dialog covers the app.
NoDialog == \A c \in Callers : notifyStep[c] # "dialog"

\* The buttons of the banner, which rest while a request is under way.
PromptUsable == NoDialog /\ notifPrompt = "shown" /\ notifyStep["home"] = "idle"
HandleEnableNotifications ==
    /\ PromptUsable /\ asked' = TRUE /\ notifyStep' = [notifyStep EXCEPT !["home"] = AfterRequest("home")]
    /\ UNCHANGED <<permission, notifyPref, promptDismissed, pushToken, notifPrompt, answeredPrompt, launched>>
HandleDismissNotifPrompt ==
    /\ PromptUsable /\ promptDismissed' = TRUE /\ notifPrompt' = "hidden" /\ answeredPrompt' = TRUE
    /\ UNCHANGED <<permission, notifyPref, pushToken, notifyStep, asked, launched>>

\* The switch of the settings.  Switched off, the token is forgotten here,
\* the server is not told, and a registration under way goes on.
ToggleNotifications(on) ==
    /\ NoDialog /\ asked' = (asked \/ on) /\ notifyPref' = IF on THEN "on" ELSE "off"
    /\ notifyStep' = IF on THEN [notifyStep EXCEPT !["toggle"] = AfterRequest("toggle")] ELSE notifyStep
    /\ pushToken' = (on /\ pushToken)
    /\ UNCHANGED <<permission, promptDismissed, notifPrompt, answeredPrompt, launched>>

\* The app is killed and started again; every step under way is forgotten.
NotifyRelaunch ==
    /\ launched < MaxLaunched /\ launched' = launched + 1
    /\ notifyStep' = [c \in Callers |-> IF c = "boot" THEN "decided" ELSE "idle"] /\ notifPrompt' = "unchecked" /\ asked' = FALSE
    /\ UNCHANGED <<permission, notifyPref, promptDismissed, pushToken, answeredPrompt>>

NotifyNext ==
    \/ SetupNotifications \/ (\E c \in Callers : DialogAnswered(c) \/ AnswerRead(c) \/ TokenStored(c) \/ RegisterEnds(c))
    \/ PromptChecked \/ HandleEnableNotifications \/ HandleDismissNotifPrompt
    \/ (\E on \in BOOLEAN : ToggleNotifications(on)) \/ NotifyRelaunch

NotifyMoves == DialogAnswered("home") \/ AnswerRead("home") \/ RegisterEnds("home")

-----------------------------------------------------------------------------
(* The start of the app: the version gate, the notices of the network, the *)
(* toasts.                                                                 *)

VARIABLES
    installed, required,   \* versions; required is <<>> until the server answers
    forceUpdate
gateVars == <<installed, required, forceUpdate>>

VARIABLES
    connected,             \* "null", "yes" or "no"
    wasOffline,
    announced,             \* the last notice: "none", "offline" or "online"
    toasts,                \* the toasts on the screen: [id, timed, hiding]
    clock,                 \* the current millisecond
    toastCount             \* bound
noticeVars == <<connected, wasOffline, announced, toasts, clock, toastCount>>

GateInit == installed \in Versions /\ required = <<>> /\ forceUpdate = FALSE
NoticeInit ==
    /\ connected = "null" /\ wasOffline = FALSE /\ announced = "none"
    /\ toasts = <<>> /\ clock = 0 /\ toastCount = 0

\* Part i of a version; a part it does not have is 0.
\* The mutant: there is no comparison past the shorter version.
PartOrSame(v, w, i) == IF i <= Len(v) THEN v[i] ELSE IF i <= Len(w) THEN w[i] ELSE 0
Part(v, w, i) == IF i <= Len(v) THEN v[i] ELSE 0

\* The loop of compareVersions from part i on.
CompareVersions(v, w) ==
    LET len == IF Len(v) > Len(w) THEN Len(v) ELSE Len(w)
        from[i \in 1..len + 1] ==
            IF i > len \/ Part(v, w, i) = Part(w, v, i)
            THEN IF i > len THEN "same" ELSE from[i + 1]
            ELSE IF Part(v, w, i) < Part(w, v, i) THEN "older" ELSE "newer"
    IN from[1]

\* checkMinimumVersion; an answer that is no version, or none, changes nothing.
CheckMinimumVersion(v) ==
    /\ required = <<>> /\ required' = v
    /\ forceUpdate' = (CompareVersions(installed, v) = "older")
    /\ UNCHANGED installed
GateNext == \E v \in Versions : CheckMinimumVersion(v)

\* Every change of the list renders each toast with a new onHide, and so
\* its timer starts anew.
\* The mutant: the timer is cleared by that render and not started again.
TimersCleared(ts) == [i \in 1..Len(ts) |-> [ts[i] EXCEPT !.timed = FALSE]]
TimersRestarted(ts) == [i \in 1..Len(ts) |-> [ts[i] EXCEPT !.timed = TRUE]]

\* Two toasts of one millisecond share their id.
ShowToast == Append(TimersRestarted(toasts), [id |-> clock, timed |-> TRUE, hiding |-> FALSE])

AnyToast ==
    /\ toastCount < MaxToasts /\ toastCount' = toastCount + 1 /\ toasts' = ShowToast
    /\ UNCHANGED <<connected, wasOffline, announced, clock>>

ClockTicks ==
    /\ clock < MaxToasts /\ clock' = clock + 1
    /\ UNCHANGED <<connected, wasOffline, announced, toasts, toastCount>>

\* The timer or the close button starts the animation.
HideToast(i) ==
    /\ i \in 1..Len(toasts) /\ ~toasts[i].hiding /\ toasts[i].timed
    /\ toasts' = [toasts EXCEPT ![i].hiding = TRUE]
    /\ UNCHANGED <<connected, wasOffline, announced, clock, toastCount>>

\* Its end removes every toast of that id.
RemoveToast(i) ==
    /\ i \in 1..Len(toasts) /\ toasts[i].hiding
    /\ toasts' = TimersRestarted(Filter(toasts, {t \in {toasts[j] : j \in 1..Len(toasts)} : t.id # toasts[i].id}))
    /\ UNCHANGED <<connected, wasOffline, announced, clock, toastCount>>

\* The mutant: the outage is not forgotten.
OutageKept(online) == wasOffline
WasOfflineAfter(online) == IF online THEN FALSE ELSE wasOffline

\* useOfflineDetection after a render: setWasOffline runs the effect again,
\* so an outage is told twice.
NetworkEffect(c) ==
    CASE c = "no" ->
            /\ wasOffline' = TRUE /\ announced' = "offline"
            /\ toasts' = IF wasOffline THEN ShowToast
                         ELSE Append(ShowToast, [id |-> clock, timed |-> TRUE, hiding |-> FALSE])
      [] c = "yes" /\ wasOffline ->
            wasOffline' = WasOfflineAfter(TRUE) /\ announced' = "online" /\ toasts' = ShowToast
      [] OTHER -> wasOffline' = WasOfflineAfter(FALSE) /\ UNCHANGED <<announced, toasts>>

\* An event of NetInfo, or the answer of the first fetch.
NetworkStatus(c) ==
    /\ c # connected /\ connected' = c
    /\ NetworkEffect(c)
    /\ toastCount' = toastCount + (Len(toasts') - Len(toasts)) /\ toastCount' <= MaxToasts
    /\ UNCHANGED clock

NoticeNext ==
    \/ AnyToast \/ ClockTicks
    \/ (\E i \in 1..Len(toasts) : HideToast(i) \/ RemoveToast(i))
    \/ (\E c \in {"null", "yes", "no"} : NetworkStatus(c))
NoticeMoves == \E i \in 1..Len(toasts) : HideToast(i) \/ RemoveToast(i)

-----------------------------------------------------------------------------
(* The contacts of the phone book that are on ZAPS.                        *)

VARIABLES
    contactStep,     \* "idle", "permission", "reading", "matching" or "loaded"
    hashMap,         \* canonical number -> the name it is listed under
    allHashes,       \* the keys of the map, in the order they are sent
    nextChunk,       \* the first hash not sent yet
    matches,         \* the canonical numbers the server has matched so far
    matchedContacts, \* the list shown: [name, number]
    contactsFailed   \* history: the load was refused or failed
contactVars == <<contactStep, hashMap, allHashes, nextChunk, matches, matchedContacts, contactsFailed>>

ContactInit ==
    /\ contactStep = "idle" /\ hashMap = <<>> /\ allHashes = <<>> /\ nextChunk = 1 /\ matches = <<>>
    /\ matchedContacts = {} /\ contactsFailed = FALSE

\* Separators and one leading zero are dropped; what is too short is no
\* number.  The hash of a number stands for the number.
NormalizePhoneNumber(p) == p.rest
HashPhoneNumber(p) == IF p.long THEN {NormalizePhoneNumber(p)} ELSE {}
HashesOf(name) == UNION {HashPhoneNumber(p) : p \in Entries[name]}
AllNumbers == UNION {HashesOf(name) : name \in DOMAIN Entries}
ASSUME PhoneBookIsFinite == IsFiniteSet(AllNumbers)

\* loadContacts, on the recipient step, once.
LoadContacts ==
    /\ contactStep = "idle" /\ contactStep' = "permission"
    /\ UNCHANGED <<hashMap, allHashes, nextChunk, matches, matchedContacts, contactsFailed>>

RequestContactsPermission(granted) ==
    /\ contactStep = "permission" /\ contactStep' = IF granted THEN "reading" ELSE "loaded"
    /\ contactsFailed' = ~granted
    /\ UNCHANGED <<hashMap, allHashes, nextChunk, matches, matchedContacts>>

\* buildPhoneHashMap hashes the contacts side by side: whose hash comes
\* first has the number, and the keys have the order they came in.
Orders(set) == {s \in [1..Cardinality(set) -> set] : \A i, j \in DOMAIN s : i # j => s[i] # s[j]}
BuildPhoneHashMap ==
    /\ contactStep = "reading"
    /\ hashMap' \in {m \in [AllNumbers -> DOMAIN Entries] : \A h \in AllNumbers : h \in HashesOf(m[h])}
    /\ allHashes' \in Orders(AllNumbers) /\ nextChunk' = 1 /\ matches' = <<>>
    /\ contactStep' = IF AllNumbers = {} THEN "loaded" ELSE "matching"
    /\ UNCHANGED <<matchedContacts, contactsFailed>>

\* The mutant: a chunk ends one hash early.
ChunkShort(i) == SubSeq(allHashes, i, IF i + ChunkSize - 2 < Len(allHashes) THEN i + ChunkSize - 2 ELSE Len(allHashes))
Chunk(i) == SubSeq(allHashes, i, IF i + ChunkSize - 1 < Len(allHashes) THEN i + ChunkSize - 1 ELSE Len(allHashes))

\* The merge of step 4, when the last chunk has been answered.
Merged(ms) == {[name |-> hashMap[ms[i]], number |-> ms[i]] : i \in DOMAIN ms}

\* One request of the loop and its answer; after the last, the list.
BatchMatchContacts ==
    /\ contactStep = "matching" /\ nextChunk <= Len(allHashes)
    /\ matches' = matches \o Filter(Chunk(nextChunk), OnZaps)
    /\ nextChunk' = nextChunk + ChunkSize
    /\ contactStep' = IF nextChunk' > Len(allHashes) THEN "loaded" ELSE "matching"
    /\ matchedContacts' = IF nextChunk' > Len(allHashes) THEN Merged(matches') ELSE matchedContacts
    /\ UNCHANGED <<hashMap, allHashes, contactsFailed>>

\* One request of several fails: nothing is listed, and nothing tried again.
MatchFails ==
    /\ contactStep \in {"reading", "matching"} /\ contactStep' = "loaded" /\ contactsFailed' = TRUE
    /\ UNCHANGED <<hashMap, allHashes, nextChunk, matches, matchedContacts>>

ContactNext ==
    \/ LoadContacts \/ (\E g \in BOOLEAN : RequestContactsPermission(g)) \/ BuildPhoneHashMap
    \/ BatchMatchContacts \/ MatchFails
ContactMoves ==
    \/ (\E g \in BOOLEAN : RequestContactsPermission(g)) \/ BuildPhoneHashMap \/ BatchMatchContacts \/ MatchFails

-----------------------------------------------------------------------------
(* The error boundary and the queue of crash reports.                      *)

VARIABLES
    hasError,       \* the boundary shows its fallback
    crashes,        \* crashes so far; a crash is its number
    crashQueue,     \* the queue in storage
    reporting,      \* calls of reportCrash under way: [n, step, read]
    delivered,      \* history: crashes the server has taken
    online
crashVars == <<hasError, crashes, crashQueue, reporting, delivered, online>>

CrashInit ==
    /\ hasError = FALSE /\ crashes = 0 /\ crashQueue = <<>> /\ reporting = {} /\ delivered = {}
    /\ online \in BOOLEAN

\* componentDidCatch starts a report it does not wait for.
ComponentDidCatch ==
    /\ ~hasError /\ hasError' = TRUE /\ crashes < MaxCrashes /\ crashes' = crashes + 1
    /\ HostileCrashes \/ reporting = {}
    /\ reporting' = reporting \cup {[n |-> crashes + 1, step |-> "read", read |-> <<>>]}
    /\ UNCHANGED <<crashQueue, delivered, online>>

HandleRetry ==
    /\ hasError /\ hasError' = FALSE
    /\ UNCHANGED <<crashes, crashQueue, reporting, delivered, online>>

At(r, step) == (reporting \ {r}) \cup {[r EXCEPT !.step = step]}
Ended(r) == reporting \ {r}

\* readQueue, of the report and of the flush; a failed read is an empty one.
ReadQueue(r) ==
    /\ r.step \in {"read", "flush"}
    /\ \E q \in {crashQueue} \cup (IF HostileCrashes THEN {<<>>} ELSE {}) :
         reporting' = IF r.step = "flush" /\ q = <<>> THEN Ended(r)
                      ELSE (reporting \ {r}) \cup
                           {[r EXCEPT !.step = IF @ = "read" THEN "store" ELSE "post", !.read = q]}
    /\ UNCHANGED <<hasError, crashes, crashQueue, delivered, online>>

\* The newest reports are kept.
\* The mutant: the oldest.
Oldest(q) == IF Len(q) > MaxQueuedReports THEN SubSeq(q, 1, MaxQueuedReports) ELSE q
Newest(q) == IF Len(q) > MaxQueuedReports THEN SubSeq(q, Len(q) - MaxQueuedReports + 1, Len(q)) ELSE q
StoreReport(r) ==
    /\ r.step = "store" /\ crashQueue' = Newest(Append(r.read, r.n))
    /\ reporting' = IF online THEN At(r, "flush") ELSE Ended(r)
    /\ UNCHANGED <<hasError, crashes, delivered, online>>

PostReports(r) ==
    /\ r.step = "post" /\ online /\ delivered' = delivered \cup {r.read[i] : i \in DOMAIN r.read}
    /\ \E heard \in BOOLEAN : reporting' = IF heard THEN At(r, "remove") ELSE Ended(r)
    /\ UNCHANGED <<hasError, crashes, crashQueue, online>>

\* The mutant: the queue is emptied whatever became of the request.
RemovesAnyway(r) == At(r, "remove")
AfterFailure(r) == Ended(r)
PostFails(r) ==
    /\ r.step = "post" /\ reporting' = AfterFailure(r)
    /\ UNCHANGED <<hasError, crashes, crashQueue, delivered, online>>

RemoveQueue(r) ==
    /\ r.step = "remove" /\ crashQueue' = <<>> /\ reporting' = Ended(r)
    /\ UNCHANGED <<hasError, crashes, delivered, online>>

Reconnect ==
    /\ online' = ~online
    /\ UNCHANGED <<hasError, crashes, crashQueue, reporting, delivered>>

CrashNext ==
    \/ ComponentDidCatch \/ HandleRetry \/ Reconnect
    \/ \E r \in reporting : ReadQueue(r) \/ StoreReport(r) \/ PostReports(r) \/ PostFails(r) \/ RemoveQueue(r)
CrashMoves == \E r \in reporting : ReadQueue(r) \/ StoreReport(r) \/ PostReports(r) \/ PostFails(r) \/ RemoveQueue(r)

-----------------------------------------------------------------------------
(* The theme (contexts/ThemeProvider.tsx, appearance.tsx). *)

Preferences == {"system", "light", "dark", "high-contrast"}

VARIABLES
    themeStored,    \* STORAGE_KEY: a preference, or "unset"
    preference,
    themeLoad,      \* the read at the start of the app: "out" or "done"
    themeSaves,     \* writes under way, in order
    systemIsDark,
    promised,       \* history: the choice of this session, or what was saved
    starts          \* bound
themeVars == <<themeStored, preference, themeLoad, themeSaves, systemIsDark, promised, starts>>

ThemeInit ==
    /\ themeStored = "unset" /\ preference = "system" /\ themeLoad = "out" /\ themeSaves = <<>>
    /\ systemIsDark = FALSE /\ promised = "system" /\ starts = 1

\* What is read back counts when it is one of the preferences listed there.
\* The mutant: the list forgets the newest.
Understood3 == Preferences \ {"high-contrast"}
Understood == Preferences

Rehydrated ==
    /\ themeLoad = "out" /\ themeLoad' = "done"
    /\ preference' = IF themeStored \in Understood THEN themeStored ELSE preference
    /\ UNCHANGED <<themeStored, themeSaves, systemIsDark, promised, starts>>
\* The read fails: the session shows the default.
RehydrateFails ==
    /\ themeLoad = "out" /\ themeLoad' = "done" /\ promised' = preference
    /\ UNCHANGED <<themeStored, preference, themeSaves, systemIsDark, starts>>

\* setPreference, from the appearance screen, which is screens away from the
\* start: the read has ended.
SetPreference(p) ==
    /\ themeLoad = "done" /\ Len(themeSaves) < 2
    /\ preference' = p /\ promised' = p /\ themeSaves' = Append(themeSaves, p)
    /\ UNCHANGED <<themeStored, themeLoad, systemIsDark, starts>>
PreferenceSaved ==
    /\ themeSaves # <<>> /\ themeSaves' = Tail(themeSaves) /\ themeStored' \in {Head(themeSaves), themeStored}
    /\ UNCHANGED <<preference, themeLoad, systemIsDark, promised, starts>>

\* The phone's own setting changes.
SystemThemeChanges == systemIsDark' = ~systemIsDark /\ UNCHANGED <<themeStored, preference, themeLoad, themeSaves, promised, starts>>
ThemeRelaunch ==
    /\ starts < MaxLaunched /\ starts' = starts + 1 /\ preference' = "system" /\ themeLoad' = "out" /\ themeSaves' = <<>>
    /\ promised' = IF themeStored = "unset" THEN "system" ELSE themeStored
    /\ UNCHANGED <<themeStored, systemIsDark>>

ResolveTheme(p) == IF p = "system" THEN (IF systemIsDark THEN "dark" ELSE "light") ELSE p

ThemeNext ==
    \/ Rehydrated \/ RehydrateFails \/ (\E p \in Preferences : SetPreference(p)) \/ PreferenceSaved
    \/ SystemThemeChanges \/ ThemeRelaunch

-----------------------------------------------------------------------------
\* Types of the shell.
ShellTypeOK ==
    /\ permission \in Statuses /\ notifyPref \in {"unset", "on", "off"}
    /\ {promptDismissed, pushToken, answeredPrompt, asked, forceUpdate, wasOffline, contactsFailed, hasError,
        online} \subseteq BOOLEAN
    /\ notifyStep \in [Callers -> {"idle", "dialog", "decided", "token", "send"}]
    /\ notifPrompt \in {"unchecked", "hidden", "shown"} /\ launched \in 1..MaxLaunched
    /\ installed \in Versions /\ required \in Versions \cup {<<>>} /\ connected \in {"null", "yes", "no"}
    /\ \A i \in DOMAIN toasts : toasts[i] \in [id : 0..MaxToasts, timed : BOOLEAN, hiding : BOOLEAN]
    /\ contactStep \in {"idle", "permission", "reading", "matching", "loaded"}
    /\ \A i \in DOMAIN matches : matches[i] \in AllNumbers
    /\ Len(crashQueue) <= MaxQueuedReports /\ delivered \subseteq 1..crashes
    /\ themeStored \in Preferences \cup {"unset"} /\ {preference, promised} \subseteq Preferences

\* "Cold start must never surface the native permission dialog itself"
\* (_layout.tsx:142): the dialog is up only after Enable or the switch was
\* pressed since the app started, whatever an earlier session left behind.
DialogWasAskedFor == (\E c \in Callers : notifyStep[c] = "dialog") => asked

\* The banner is not shown again to a user who has answered it, whichever
\* way the request behind it ended (notificationService.ts:97, home.tsx:362-366).
NotAskedAgain == notifPrompt = "shown" => ~answeredPrompt

\* The update is forced exactly on versions that come before the required one:
\* smaller in the first place in which they differ, where a version goes on
\* with zeros (_layout.tsx:56-67, 105).
Place(v, i) == IF i \in DOMAIN v THEN v[i] ELSE 0
Before(v, w) ==
    \E i \in 1..Len(v) + Len(w) :
        Place(v, i) < Place(w, i) /\ \A j \in 1..i - 1 : Place(v, j) = Place(w, j)
GateIsRight == required # <<>> => (forceUpdate <=> Before(installed, required))

\* "You are back online!" follows an outage that was told, one for one
\* (useNetworkStatus.ts:49-70).
BackOnlineClosesOutage ==
    [][connected' # connected /\ connected' = "yes" /\ Len(toasts') > Len(toasts) => announced = "offline"]_noticeVars

\* A load that neither was refused nor failed lists every contact on ZAPS,
\* once per number and under a name it is listed under, however many
\* requests the numbers took (contacts.ts:268-300).
ContactsAreComplete ==
    contactStep = "loaded" /\ ~contactsFailed =>
        /\ {c.number : c \in matchedContacts} = AllNumbers \cap OnZaps
        /\ \A c \in matchedContacts : c.number \in HashesOf(c.name)
        /\ Cardinality(matchedContacts) = Cardinality(AllNumbers \cap OnZaps)

\* A crash that was reported is on its way, in the queue or delivered,
\* unless newer ones have displaced it (crashReporter.ts:41-46, 61-71), as long
\* as reports do not overlap and the queue can be read (HostileCrashes = FALSE).
\* crashReporter.ts sees to neither, and with HostileCrashes = TRUE a report is
\* lost.
ReportsKept ==
    \A n \in 1..crashes :
        \/ n \in delivered \/ (\E i \in DOMAIN crashQueue : crashQueue[i] = n) \/ (\E r \in reporting : r.n = n)
        \/ n + MaxQueuedReports <= crashes

\* "Your selection is saved on this device and applies as you navigate"
\* (appearance.tsx:66-67): the theme shown is the one chosen in this session,
\* and after a restart the last one that was saved.
ThemeIsRemembered == themeLoad = "done" => ResolveTheme(preference) = ResolveTheme(promised)

\* What ends by itself: a registration, toasts, a load, a report.
ShellWorking ==
    notifyStep["home"] # "idle" \/ toasts # <<>> \/ contactStep \notin {"idle", "loaded"} \/ reporting # {}

\* "crashes recorded while offline are still delivered once connectivity
\* returns" (crashReporter.ts:53-54).
QueuedIsDelivered == (crashQueue # <<>>) ~> (crashQueue = <<>>)
=============================================================================
