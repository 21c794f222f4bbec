--------------------------- MODULE DashboardShell ---------------------------
(***************************************************************************)
(* The frame of the dashboard and its small tools: the navigation drawer   *)
(* with its focus and scroll handling, the command palette, the copy       *)
(* buttons with their timers, and the QR generator.                        *)
(***************************************************************************)
EXTENDS Naturals

CONSTANTS MaxTimers     \* bound: timers of a copy button

ASSUME TimersBound == MaxTimers \in Nat \ {0}

VARIABLES
    navOpen, paletteOpen, paletteSearch,
    focus,          \* what has the keyboard
    opener,         \* openerRef
    overflow,       \* the body's overflow
    previousOverflow, \* captured by the drawer's effect
    focusTimer,     \* the drawer's animation frame is pending
    shellPage,      \* the page behind
    copied,         \* useAddressCopy
    copyTimers,     \* timers that will clear it
    copyCalls,      \* clipboard writes under way
    qrForm,         \* what the form describes
    qrCall,         \* none, or the form a generation was started with and how far it is
    qrData, qrImage,\* the text and the image shown, by the form they are for
    qrError

frameVars == <<navOpen, paletteOpen, paletteSearch, focus, opener, overflow, previousOverflow, focusTimer, shellPage>>
copyVars == <<copied, copyTimers, copyCalls>>
qrVars == <<qrForm, qrCall, qrData, qrImage, qrError>>

ShellInit ==
    /\ navOpen = FALSE /\ paletteOpen = FALSE /\ paletteSearch = FALSE
    /\ focus = "page" /\ opener = "none" /\ overflow = "auto" /\ previousOverflow = "auto"
    /\ focusTimer = FALSE /\ shellPage = "overview"
    /\ copied = FALSE /\ copyTimers = 0 /\ copyCalls = 0
    /\ qrForm = "a" /\ qrCall = "none" /\ qrData = "none" /\ qrImage = "none" /\ qrError = FALSE

-----------------------------------------------------------------------------
(* The effect of the drawer: what it sets up, and what its cleanup undoes. *)

\* The setup with the keyboard at f and the body's overflow o.
SetUp(f, o) ==
    /\ opener' = f /\ previousOverflow' = o /\ overflow' = "hidden" /\ focusTimer' = TRUE /\ focus' = f

\* mutant: closing leaves the page unscrollable.
OverflowKept == overflow
\* mutant: closing clears a setting the page had of its own.
OverflowCleared == ""
OverflowRestored == previousOverflow

CleanUp == overflow' = OverflowRestored /\ focusTimer' = FALSE /\ focus' = opener

\* onClose is a new function on every render, so a render of the shell with
\* the drawer open cleans up and sets up again: with the focus back on the
\* opener and the overflow that was restored.
Rerender == IF navOpen THEN SetUp(opener, OverflowRestored)
            ELSE UNCHANGED <<opener, previousOverflow, overflow, focusTimer, focus>>

OpenNav ==
    /\ ~navOpen /\ ~paletteOpen /\ navOpen' = TRUE
    /\ SetUp("hamburger", overflow)
    /\ UNCHANGED <<paletteOpen, paletteSearch, shellPage>>

\* Escape, the scrim and the close button.
CloseNav ==
    /\ navOpen /\ navOpen' = FALSE /\ CleanUp
    /\ UNCHANGED <<paletteOpen, paletteSearch, opener, previousOverflow, shellPage>>

\* A link closes the drawer and leaves for its page; Sign out likewise.
FollowLink ==
    /\ navOpen /\ navOpen' = FALSE /\ CleanUp
    /\ \E page \in {"overview", "payouts"} : shellPage' = page
    /\ UNCHANGED <<paletteOpen, paletteSearch, opener, previousOverflow>>

FocusMoves ==
    /\ focusTimer /\ focusTimer' = FALSE /\ focus' = "drawer"
    /\ UNCHANGED <<navOpen, paletteOpen, paletteSearch, opener, overflow, previousOverflow, shellPage>>

\* Tab stays inside the open drawer once the focus is there; elsewhere it
\* moves through the page.
PressTab ==
    /\ focus' = IF navOpen /\ focus = "drawer" THEN "drawer" ELSE "page"
    /\ UNCHANGED <<navOpen, paletteOpen, paletteSearch, opener, overflow, previousOverflow, focusTimer, shellPage>>

\* Cmd+K, also with the drawer open.
TogglePalette ==
    /\ paletteOpen' = ~paletteOpen /\ paletteSearch' = IF paletteOpen THEN paletteSearch ELSE FALSE
    /\ Rerender
    /\ UNCHANGED <<navOpen, shellPage>>

TypeInPalette ==
    /\ paletteOpen /\ paletteSearch' = TRUE
    /\ UNCHANGED <<navOpen, paletteOpen, focus, opener, overflow, previousOverflow, focusTimer, shellPage>>

\* A page is chosen, or the backdrop pressed: the palette closes.
LeavePalette ==
    /\ paletteOpen /\ paletteOpen' = FALSE
    /\ \E page \in {"overview", "payouts"} : shellPage' = page
    /\ Rerender
    /\ UNCHANGED <<navOpen, paletteSearch>>

FrameNext == OpenNav \/ CloseNav \/ FollowLink \/ FocusMoves \/ PressTab \/ TogglePalette \/ TypeInPalette \/ LeavePalette

-----------------------------------------------------------------------------
(* Copying an address. *)

CopyPressed ==
    /\ copyCalls < MaxTimers /\ copyCalls' = copyCalls + 1
    /\ UNCHANGED <<copied, copyTimers>>

\* mutant: an older timer is not cleared.
TimersPile == copyTimers + 1
TimerReplaced == 1

\* The clipboard took the text: the mark is shown and its time starts over.
CopyDone ==
    /\ copyCalls > 0 /\ copyCalls' = copyCalls - 1
    /\ copied' = TRUE /\ copyTimers' = TimerReplaced
CopyRefused ==
    /\ copyCalls > 0 /\ copyCalls' = copyCalls - 1
    /\ UNCHANGED <<copied, copyTimers>>
CopyTimer ==
    /\ copyTimers > 0 /\ copyTimers' = copyTimers - 1 /\ copied' = FALSE
    /\ UNCHANGED copyCalls

CopyNext == CopyPressed \/ CopyDone \/ CopyRefused \/ CopyTimer

-----------------------------------------------------------------------------
(* The QR generator. *)

EditQr == qrForm' = (IF qrForm = "a" THEN "b" ELSE "a") /\ UNCHANGED <<qrCall, qrData, qrImage, qrError>>
GenerateQr ==
    /\ qrCall = "none" /\ qrCall' = qrForm /\ qrError' = FALSE
    /\ UNCHANGED <<qrForm, qrData, qrImage>>
\* The backend's answer; the image is drawn afterwards.
QrAnswered ==
    /\ qrCall \in {"a", "b"} /\ qrData' = qrCall /\ qrCall' = "drawing"
    /\ UNCHANGED <<qrForm, qrImage, qrError>>
QrDrawn ==
    /\ qrCall = "drawing" /\ qrImage' = qrData /\ qrCall' = "none"
    /\ UNCHANGED <<qrForm, qrData, qrError>>
QrFails ==
    /\ qrCall # "none" /\ qrError' = TRUE /\ qrCall' = "none"
    /\ UNCHANGED <<qrForm, qrData, qrImage>>

QrNext == EditQr \/ GenerateQr \/ QrAnswered \/ QrDrawn \/ QrFails

-----------------------------------------------------------------------------
ShellTypeOK ==
    /\ navOpen \in BOOLEAN /\ paletteOpen \in BOOLEAN /\ paletteSearch \in BOOLEAN
    /\ focus \in {"page", "hamburger", "drawer"} /\ opener \in {"none", "hamburger"}
    /\ overflow \in {"auto", "hidden"} /\ previousOverflow \in {"auto", "hidden"} /\ focusTimer \in BOOLEAN
    /\ shellPage \in {"overview", "payouts"}
    /\ copied \in BOOLEAN /\ copyTimers \in 0..MaxTimers /\ copyCalls \in 0..MaxTimers
    /\ qrForm \in {"a", "b"} /\ qrCall \in {"none", "a", "b", "drawing"} /\ qrData \in {"none", "a", "b"}
    /\ qrImage \in {"none", "a", "b"} /\ qrError \in BOOLEAN

\* The page scrolls exactly while the drawer is closed, however often the
\* shell was rendered, the palette used and the drawer's effect run again.
ScrollRestored == (overflow = "auto") = ~navOpen

\* The mark of a copied address is cleared by the one timer of the last copy:
\* it neither stays nor goes early.
CopiedIsTimed == copied = (copyTimers = 1)
=============================================================================
