--------------------------- MODULE DashboardAdmin ---------------------------
(***************************************************************************)
(* What an administrator signs in the dashboard besides the vault's        *)
(* parameters: the Freighter session kept over page loads, the blacklist   *)
(* drawer and the fee form of the contracts page, and the emergency pause  *)
(* control.  Each has its own state; an action is the code between two     *)
(* awaits, and the extension and the backend answer in any order.          *)
(***************************************************************************)
EXTENDS Naturals

CONSTANTS
    Targets,        \* registered usernames
    NoTarget,
    MaxDrawers      \* bound: drawers opened
ASSUME TargetsDiffer == NoTarget \notin Targets /\ MaxDrawers \in Nat

VARIABLES
    \* WalletProvider
    walletOn,       \* wallet.connected
    restoring, connecting, walletError,
    walletFlag,     \* WALLET_SESSION_KEY in localStorage
    granted,        \* history: access granted here and not taken back
    \* UsernamesTable
    target,         \* targetUsername of the open drawer
    drawers,        \* bound: how often the drawer was opened
    firstConfirmed, \* blacklistConfirmed
    blacklisting,   \* targets at the extension for signing
    closers,        \* timers that will close the drawer
    reviewed,       \* history: the targets confirmed in the drawer that is open
    \* FeeConfigPanel
    feeInput, feeStatus,
    \* EmergencyPauseControl
    vaultPaused,    \* paused, as the parent has it
    pauseDrawer, pauseAck, pauseTyped,
    pauseCalls      \* toggles under way: the phrase typed and the state asked for

walletVars == <<walletOn, restoring, connecting, walletError, walletFlag, granted>>
blacklistVars == <<target, drawers, firstConfirmed, blacklisting, closers, reviewed>>
feeVars == <<feeInput, feeStatus>>
pauseVars == <<vaultPaused, pauseDrawer, pauseAck, pauseTyped, pauseCalls>>
adminVars == <<walletVars, blacklistVars, feeVars, pauseVars>>

-----------------------------------------------------------------------------
WalletStart ==
    /\ walletOn = FALSE /\ restoring = TRUE /\ connecting = FALSE /\ walletError = FALSE
AdminInit ==
    /\ WalletStart /\ walletFlag = FALSE /\ granted = FALSE
    /\ target = NoTarget /\ drawers = 0 /\ firstConfirmed = FALSE /\ blacklisting = {}
    /\ closers = 0 /\ reviewed = {}
    /\ feeInput = "empty" /\ feeStatus = "idle"
    /\ vaultPaused \in BOOLEAN /\ pauseDrawer = FALSE /\ pauseAck = FALSE /\ pauseTyped = "empty" /\ pauseCalls = {}

-----------------------------------------------------------------------------
(* WalletProvider. *)

\* mutant: a wallet is restored without a recorded session.
RestoresAnyway == TRUE
\* hasWalletSession: only a recorded session is restored.
Restores == walletFlag

\* restore: without a session nothing is asked; otherwise the extension says
\* whether it is there and unlocked, and a stale flag is dropped.
Restore ==
    /\ restoring /\ restoring' = FALSE
    /\ IF Restores
       THEN \E on \in BOOLEAN : walletOn' = on /\ walletFlag' = (walletFlag /\ on)
       ELSE UNCHANGED <<walletOn, walletFlag>>
    /\ UNCHANGED <<connecting, walletError, granted>>

\* The card of the overview page offers connect or disconnect.
ConnectOffered == ~walletOn /\ ~restoring /\ ~connecting
Connect ==
    /\ ConnectOffered /\ connecting' = TRUE /\ walletError' = FALSE
    /\ UNCHANGED <<walletOn, restoring, walletFlag, granted>>

\* connectFreighter ends: access given, but the extension may be locked, or refused.
ConnectEnds ==
    /\ connecting /\ connecting' = FALSE
    /\ \/ \E on \in BOOLEAN :
            walletOn' = on /\ walletFlag' = on /\ granted' = on /\ UNCHANGED walletError
       \/ walletOn' = FALSE /\ walletFlag' = FALSE /\ granted' = FALSE /\ walletError' = TRUE
    /\ UNCHANGED restoring

\* mutant: the recorded session outlives Disconnect.
FlagKept == walletFlag
FlagDropped == FALSE
Disconnect ==
    /\ walletOn /\ walletOn' = FALSE /\ walletFlag' = FlagDropped /\ walletError' = FALSE /\ granted' = FALSE
    /\ UNCHANGED <<restoring, connecting>>

\* The page is loaded again: what is left is the flag.
Reload ==
    /\ walletOn' = FALSE /\ restoring' = TRUE /\ connecting' = FALSE /\ walletError' = FALSE
    /\ UNCHANGED <<walletFlag, granted>>

WalletNext == Restore \/ Connect \/ ConnectEnds \/ Disconnect \/ Reload

-----------------------------------------------------------------------------
(* The blacklist drawer. *)

\* mutant: a confirmation is carried to the next drawer.
FirstKept == firstConfirmed
FirstReset == FALSE

\* handleBlacklistClick, for a row of the table; also over an open drawer's
\* table when another drawer is still signing.
BlacklistClick ==
    /\ target = NoTarget /\ drawers < MaxDrawers /\ drawers' = drawers + 1
    /\ \E t \in Targets : target' = t
    /\ firstConfirmed' = FirstReset /\ reviewed' = {}
    /\ UNCHANGED <<blacklisting, closers>>

FirstConfirmation ==
    /\ target # NoTarget /\ ~firstConfirmed /\ firstConfirmed' = TRUE
    /\ reviewed' = reviewed \cup {target}
    /\ UNCHANGED <<target, drawers, blacklisting, closers>>

\* handleBlacklistConfirm the second time: the payload goes to the extension.
FinalConfirmation ==
    /\ target # NoTarget /\ firstConfirmed /\ blacklisting = {}
    /\ blacklisting' = {[name |-> target, known |-> target \in reviewed]}
    /\ UNCHANGED <<target, drawers, firstConfirmed, closers, reviewed>>

\* Signed: the drawer is to close in two seconds.
BlacklistSigned ==
    /\ blacklisting # {} /\ blacklisting' = {} /\ closers < MaxDrawers /\ closers' = closers + 1
    /\ UNCHANGED <<target, drawers, firstConfirmed, reviewed>>

BlacklistFails ==
    /\ blacklisting # {} /\ blacklisting' = {}
    /\ UNCHANGED <<target, drawers, firstConfirmed, closers, reviewed>>

\* The drawer's close button.
CloseDrawer ==
    /\ target # NoTarget /\ target' = NoTarget /\ firstConfirmed' = FirstReset
    /\ UNCHANGED <<drawers, blacklisting, closers, reviewed>>

\* The timer closes whatever drawer is open by now.
CloserFires ==
    /\ closers > 0 /\ closers' = closers - 1
    /\ target' = NoTarget /\ firstConfirmed' = FirstReset
    /\ UNCHANGED <<drawers, blacklisting, reviewed>>

BlacklistNext ==
    \/ BlacklistClick \/ FirstConfirmation \/ FinalConfirmation \/ BlacklistSigned \/ BlacklistFails
    \/ CloseDrawer \/ CloserFires

-----------------------------------------------------------------------------
(* The fee form: an input is empty, out of range or good basis points. *)

EditFee ==
    /\ feeStatus # "submitting"
    /\ \E x \in {"empty", "bad", "good"} : feeInput' = x
    /\ feeStatus' = "idle"
FeeSubmit ==
    /\ feeInput = "good" /\ feeStatus # "submitting" /\ feeStatus' = "submitting"
    /\ UNCHANGED feeInput
FeeEnds ==
    /\ feeStatus = "submitting"
    /\ \/ feeStatus' = "success" /\ feeInput' = "empty"
       \/ feeStatus' = "error" /\ UNCHANGED feeInput
FeeNext == EditFee \/ FeeSubmit \/ FeeEnds

-----------------------------------------------------------------------------
(* The emergency pause control. *)

RequiredPhrase == IF vaultPaused THEN "RESUME" ELSE "FREEZE"
\* mutant: any text confirms.
AnyPhrase == pauseAck /\ pauseTyped # "empty"
IsDoubleVerified == pauseAck /\ pauseTyped = RequiredPhrase

OpenPauseDrawer ==
    /\ ~pauseDrawer /\ pauseDrawer' = TRUE /\ pauseAck' = FALSE /\ pauseTyped' = "empty"
    /\ UNCHANGED <<vaultPaused, pauseCalls>>
\* The buttons and Escape.
ClosePauseDrawer ==
    /\ pauseDrawer /\ pauseDrawer' = FALSE /\ pauseAck' = FALSE /\ pauseTyped' = "empty"
    /\ UNCHANGED <<vaultPaused, pauseCalls>>
AckPause ==
    /\ pauseDrawer /\ pauseAck' = ~pauseAck
    /\ UNCHANGED <<vaultPaused, pauseDrawer, pauseTyped, pauseCalls>>
TypePhrase ==
    /\ pauseDrawer /\ \E x \in {"empty", "FREEZE", "RESUME"} : pauseTyped' = x
    /\ UNCHANGED <<vaultPaused, pauseDrawer, pauseAck, pauseCalls>>
\* handleExecute.
ExecutePause ==
    /\ pauseDrawer /\ IsDoubleVerified /\ pauseCalls = {}
    /\ pauseCalls' = {[typed |-> pauseTyped, next |-> ~vaultPaused]}
    /\ UNCHANGED <<vaultPaused, pauseDrawer, pauseAck, pauseTyped>>
\* onTogglePause ends; success closes the drawer, whichever is open by then.
PauseEnds ==
    /\ pauseCalls # {} /\ pauseCalls' = {}
    /\ \/ /\ \E c \in pauseCalls : vaultPaused' = c.next
          /\ pauseDrawer' = FALSE /\ pauseAck' = FALSE /\ pauseTyped' = "empty"
       \/ UNCHANGED <<vaultPaused, pauseDrawer, pauseAck, pauseTyped>>
\* The parent learns that the vault was paused or resumed elsewhere.
PausedElsewhere ==
    /\ vaultPaused' = ~vaultPaused
    /\ UNCHANGED <<pauseDrawer, pauseAck, pauseTyped, pauseCalls>>
PauseNext ==
    \/ OpenPauseDrawer \/ ClosePauseDrawer \/ AckPause \/ TypePhrase \/ ExecutePause \/ PauseEnds \/ PausedElsewhere

-----------------------------------------------------------------------------
AdminTypeOK ==
    /\ walletOn \in BOOLEAN /\ restoring \in BOOLEAN /\ connecting \in BOOLEAN /\ walletError \in BOOLEAN
    /\ walletFlag \in BOOLEAN /\ granted \in BOOLEAN
    /\ target \in Targets \cup {NoTarget} /\ drawers \in 0..MaxDrawers /\ firstConfirmed \in BOOLEAN
    /\ blacklisting \subseteq [name : Targets, known : BOOLEAN] /\ closers \in 0..MaxDrawers /\ reviewed \subseteq Targets
    /\ feeInput \in {"empty", "bad", "good"} /\ feeStatus \in {"idle", "submitting", "success", "error"}
    /\ vaultPaused \in BOOLEAN /\ pauseDrawer \in BOOLEAN /\ pauseAck \in BOOLEAN
    /\ pauseTyped \in {"empty", "FREEZE", "RESUME"}
    /\ pauseCalls \subseteq [typed : {"FREEZE", "RESUME", "empty"}, next : BOOLEAN]

\* A wallet is shown, and a session kept, only while the access granted here
\* was not taken back, over any number of page loads.
WalletWasGranted == walletOn \/ walletFlag => granted

\* What is signed is the blacklisting of a user who was confirmed in the
\* drawer that was opened for that user, whatever timers closed meanwhile.
BlacklistWasReviewed == \A b \in blacklisting : b.known

\* A toggle asks for what the admin typed, also when the vault was paused or
\* resumed elsewhere while the drawer was open.
PauseAsTyped == \A c \in pauseCalls : (c.typed = "FREEZE") = c.next
=============================================================================
