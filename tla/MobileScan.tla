----------------------------- MODULE MobileScan -----------------------------
(***************************************************************************)
(* The screens that show, read and type payment codes: the scanner         *)
(* (app/scan.tsx) with the parser of its codes (src/utils/sep0007.ts) and  *)
(* the camera permission, the receive screen that draws codes, and the     *)
(* tap-to-pay screen, of which only the first two steps can be reached.    *)
(*                                                                         *)
(* A code is a record of what the parser tells apart: its scheme, the      *)
(* operation, the kind of destination, and whether amount, memo type and   *)
(* envelope are absent, well formed or not.                                *)
(***************************************************************************)
EXTENDS Naturals, Sequences, FiniteSets

CONSTANTS
    Codes,      \* the contents of the QR codes in front of the camera
    NoCode      \* no code

VARIABLES
    camera,     \* the camera permission
    asking,     \* the permission dialog is up
    scanScreen, \* which view the scanner shows
    scanned,    \* the latch that detaches the camera
    typed,      \* the text of the manual entry
    preview,    \* the payment shown for confirmation
    confirmed,  \* the payments handed to the transfer screen
    flash       \* the torch

scanVars == <<camera, asking, scanScreen, scanned, typed, preview, confirmed, flash>>

VARIABLES
    receiveStep,  \* 0 choosing, 1 the code
    receiveType   \* "ZAPS", "external" or "none"

receiveVars == <<receiveStep, receiveType>>

VARIABLE tapStep  \* "ready", "searching" or "left"

Kinds == {"stellar", "federated", "other", "none"}
CodeType == [scheme : {"web+stellar", "zaps", "plain"}, op : {"pay", "tx", "other"},
             to : Kinds, amount : {"none", "good", "bad"}, memoType : {"none", "good", "bad"},
             xdr : BOOLEAN]
ASSUME CodesAreRead == Codes \subseteq CodeType

-----------------------------------------------------------------------------
(* The parser. *)

IsValidStellarDestination(to) == to \in {"stellar", "federated"}

DetectQrContentType(c) ==
    CASE c.scheme = "web+stellar" -> "sep0007"
      [] c.scheme = "zaps" /\ c.op = "pay" -> "zaps_pay"
      [] c.scheme = "plain" /\ IsValidStellarDestination(c.to) -> "stellar_address"
      [] OTHER -> "unknown"

\* The mutant: the amount of a zaps:// code is taken as it comes.
ZapsAnyAmount(c) == IsValidStellarDestination(c.to)

ParseZapsPayUri(c) == IsValidStellarDestination(c.to) /\ c.amount # "bad"

ParseSep0007Uri(c) ==
    \/ c.op = "pay" /\ IsValidStellarDestination(c.to) /\ c.amount # "bad" /\ c.memoType # "bad"
    \/ c.op = "tx" /\ c.xdr

\* What the preview card shows of a payment; an envelope shows no payment.
PreviewOf(c) == IF c.scheme = "web+stellar" /\ c.op = "tx"
                THEN [to |-> "XDR Transaction", amount |-> "none"]
                ELSE [to |-> c.to, amount |-> IF c.scheme = "plain" THEN "none" ELSE c.amount]

Readable(c) ==
    CASE DetectQrContentType(c) = "zaps_pay" -> ParseZapsPayUri(c)
      [] DetectQrContentType(c) = "sep0007" -> ParseSep0007Uri(c)
      [] DetectQrContentType(c) = "stellar_address" -> TRUE
      [] OTHER -> FALSE

-----------------------------------------------------------------------------
(* The scanner. *)

ScanInit ==
    /\ camera \in {"undetermined", "granted", "denied"} /\ asking = FALSE
    /\ scanScreen = "scanner" /\ scanned = FALSE /\ typed = NoCode
    /\ preview = NoCode /\ confirmed = {} /\ flash = FALSE

\* The effect on mount and the button of the permission view; the button is
\* disabled while the dialog is up.
RequestPermission ==
    /\ camera = "undetermined" /\ ~asking
    /\ asking' = TRUE
    /\ UNCHANGED <<camera, scanScreen, scanned, typed, preview, confirmed, flash>>

PermissionAnswered ==
    /\ asking /\ asking' = FALSE
    /\ camera' \in {"undetermined", "granted", "denied"}
    /\ UNCHANGED <<scanScreen, scanned, typed, preview, confirmed, flash>>

Allowed == camera = "granted"

\* handleQrData: the latch, then the preview or the error view.
HandleQrData(c) ==
    /\ scanned' = TRUE
    /\ scanScreen' = IF Readable(c) THEN "preview" ELSE "error"
    /\ preview' = IF Readable(c) THEN PreviewOf(c) ELSE preview

\* The camera reports frames until the latch is rendered: a second frame of
\* the same moment still runs the handler of the first one's closure.
BarcodeScanned ==
    /\ Allowed /\ scanScreen = "scanner" /\ ~scanned
    /\ \E first, last \in Codes :
         /\ scanned' = TRUE
         /\ scanScreen' = IF Readable(last) THEN "preview" ELSE "error"
         /\ preview' = IF Readable(last) THEN PreviewOf(last)
                       ELSE IF Readable(first) THEN PreviewOf(first) ELSE preview
    /\ UNCHANGED <<camera, asking, typed, confirmed, flash>>

ToManual ==
    /\ Allowed /\ scanScreen = "scanner"
    /\ scanScreen' = "manual"
    /\ UNCHANGED <<camera, asking, scanned, typed, preview, confirmed, flash>>

ToggleFlash ==
    /\ Allowed /\ scanScreen = "scanner" /\ flash' = ~flash
    /\ UNCHANGED <<camera, asking, scanScreen, scanned, typed, preview, confirmed>>

TypeAddress ==
    /\ Allowed /\ scanScreen = "manual" /\ typed' \in Codes \cup {NoCode}
    /\ UNCHANGED <<camera, asking, scanScreen, scanned, preview, confirmed, flash>>

HandleManualSubmit ==
    /\ Allowed /\ scanScreen = "manual" /\ typed # NoCode /\ ~scanned
    /\ HandleQrData(typed)
    /\ UNCHANGED <<camera, asking, typed, confirmed, flash>>

\* The mutant: the error view's second button leaves the latch on.
LatchKept == scanned
LatchReleased == FALSE

ErrorToManual ==
    /\ Allowed /\ scanScreen = "error"
    /\ scanScreen' = "manual" /\ scanned' = LatchReleased
    /\ UNCHANGED <<camera, asking, typed, preview, confirmed, flash>>

\* "Try again", Cancel, "Back to scanner" and the header's arrow.
ResetScanner ==
    /\ Allowed /\ scanScreen # "scanner"
    /\ scanScreen' = "scanner" /\ scanned' = FALSE /\ preview' = NoCode /\ typed' = NoCode
    /\ UNCHANGED <<camera, asking, confirmed, flash>>

\* The scanner stays below the transfer screen, with its preview.
HandleConfirmPayment ==
    /\ Allowed /\ scanScreen = "preview" /\ preview # NoCode
    /\ confirmed' = confirmed \cup {preview}
    /\ UNCHANGED <<camera, asking, scanScreen, scanned, typed, preview, flash>>

ScanNext ==
    \/ RequestPermission \/ PermissionAnswered \/ BarcodeScanned \/ ToManual \/ ToggleFlash
    \/ TypeAddress \/ HandleManualSubmit \/ ErrorToManual \/ ResetScanner \/ HandleConfirmPayment

-----------------------------------------------------------------------------
(* The receive screen and the codes it draws. *)

ReceiveInit == receiveStep = 0 /\ receiveType = "none"

ChooseReceive ==
    /\ receiveStep = 0 /\ receiveType' \in {"ZAPS", "external"} /\ UNCHANGED receiveStep

ReceiveNextStep ==
    /\ receiveStep = 0 /\ receiveType # "none" /\ receiveStep' = 1 /\ UNCHANGED receiveType

ReceiveBack ==
    /\ receiveStep = 1 /\ receiveStep' = 0 /\ UNCHANGED receiveType

\* buildSep0007PayUri: a pay code with the fields that are given.
BuildSep0007PayUri(to) == [scheme |-> "web+stellar", op |-> "pay", to |-> to,
                           amount |-> "none", memoType |-> "none", xdr |-> FALSE]

\* The address the screen holds is a placeholder that is not base32, and the
\* Zaps id is neither an address nor a federated name.
QrValue == IF receiveType = "ZAPS"
           THEN [BuildSep0007PayUri("other") EXCEPT !.scheme = "plain"]
           ELSE BuildSep0007PayUri("other")

ReceiveNext == ChooseReceive \/ ReceiveNextStep \/ ReceiveBack

-----------------------------------------------------------------------------
(* Tap to pay: the footer of "searching" only offers the scanner, so the   *)
(* steps that read a tag and pay are never reached.                        *)

TapInit == tapStep = "ready"
TapGoNext == tapStep = "ready" /\ tapStep' = "searching"
TapBack == \/ tapStep = "searching" /\ tapStep' = "ready"
           \/ tapStep = "ready" /\ tapStep' = "left"
ScanInstead == tapStep = "searching" /\ tapStep' = "left"
TapNext == TapGoNext \/ TapBack \/ ScanInstead

-----------------------------------------------------------------------------
ScannedPayments == [to : Kinds \cup {"XDR Transaction"}, amount : {"none", "good", "bad"}]

\* Types of the code screens.
ScanTypeOK ==
    /\ camera \in {"undetermined", "granted", "denied"} /\ asking \in BOOLEAN
    /\ scanScreen \in {"scanner", "manual", "preview", "error"} /\ scanned \in BOOLEAN
    /\ typed \in Codes \cup {NoCode} /\ preview \in ScannedPayments \cup {NoCode}
    /\ confirmed \subseteq ScannedPayments /\ flash \in BOOLEAN
    /\ receiveStep \in {0, 1} /\ receiveType \in {"none", "ZAPS", "external"}
    /\ tapStep \in {"ready", "searching", "left"}

\* Whatever was in front of the camera or typed, in whatever order, a payment
\* handed to the transfer screen names a Stellar destination (or is marked as
\* an envelope) and its amount is absent or a number (scan.tsx:281-374).
ConfirmedIsPayable ==
    \A p \in confirmed : p.to \in {"stellar", "federated", "XDR Transaction"} /\ p.amount # "bad"

\* The latch never outlives the view that set it: on the camera view frames
\* are read, on the manual view the Continue button works (scan.tsx:281-284,
\* 359-363, 376-382, 459-466).
ScannerListens == scanScreen \in {"scanner", "manual"} => ~scanned

\* receive.tsx:45 "Build SEP-0007 URI for the QR code so any SEP-0007
\* compatible wallet can scan it": the app's own scanner reads the code.
ShownCodesScan == receiveStep = 1 => Readable(QrValue)
=============================================================================
