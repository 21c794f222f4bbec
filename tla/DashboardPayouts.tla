-------------------------- MODULE DashboardPayouts --------------------------
(***************************************************************************)
(* The dashboard's payouts page: the CSV upload to the disbursement        *)
(* platform with its parsing, validation and review, the payout request    *)
(* form, and the tabs that mount and unmount them.  An action is the code  *)
(* between two awaits.                                                     *)
(*                                                                         *)
(* A file is its canonical columns and its rows; a cell is the outcome of  *)
(* the checks that can be made of it.  Names, amounts and formatting are   *)
(* left out, as are the tables' contents beyond whether there are rows.    *)
(***************************************************************************)
EXTENDS Naturals, Sequences

CONSTANTS
    Files,          \* the CSV files an admin may drop
    OverlapDrops,   \* may a file be dropped while another is being parsed?
    MaxUploads,     \* bound: uploads and payout requests sent
    NoFile

ASSUME PayoutsConstants == MaxUploads \in Nat

VARIABLES
    tab,            \* activeTab; "crashed" after a render error
    file,           \* selectedFile
    validation,     \* ValidationStatus: its kind and the file it is about
    parsing,        \* files PapaParse is reading for a mounted tab
    uploading,      \* the file on its way to the platform for the mounted tab, or NoFile
    refreshing,     \* an accepted upload reads the list before it frees the button
    orphans,        \* uploads whose tab was left
    uploadResult,   \* null, success or error
    checkoutFilter, \* all, valid or invalid
    listed,         \* disbursements: null, or whether the list has rows
    logsForId,      \* whether the log window is open
    payoutCalls,    \* requestPayout calls on the wire
    sent,           \* history: files sent, with how often
    sends           \* bound: uploads and requests so far

uploadVars == <<file, validation, parsing, uploading, refreshing, uploadResult, checkoutFilter, logsForId>>
payoutsVars == <<tab, uploadVars, orphans, listed, payoutCalls, sent, sends>>

-----------------------------------------------------------------------------
(* Validation of a file, as pure functions. *)

RequiredGroups == {{"phone", "id", "amount", "verification"}, {"stellar_address", "amount"}}
\* A column under one of its accepted names counts as the canonical one.
Aliases == [ destination |-> "stellar_address", msisdn |-> "phone", asset |-> "currency" ]
Canonical(h) == IF h \in DOMAIN Aliases THEN Aliases[h] ELSE h
Headers(f) == {Canonical(h) : h \in f.columns}

HeaderErrors(f) == ~\E g \in RequiredGroups : g \subseteq Headers(f)

\* A cell of a column that is missing reads as empty.
Cell(f, row, column) == IF column \in Headers(f) THEN row[column] ELSE "empty"

HasStellar(f, row) == Cell(f, row, "stellar_address") # "empty"
HasPhoneId(f, row) == \A c \in {"phone", "id", "verification"} : Cell(f, row, c) # "empty"
RouteMissing(f, row) == ~HasStellar(f, row) /\ ~HasPhoneId(f, row)

\* An amount has to be a finite positive number.
AmountError(f, row) == Cell(f, row, "amount") # "good"

\* mutant: the Stellar address of a row is not checked.
RowLax(f, row) == ~RouteMissing(f, row) /\ ~AmountError(f, row)
RowValid(f, row) ==
    /\ ~RouteMissing(f, row)
    /\ HasStellar(f, row) => Cell(f, row, "stellar_address") = "good"
    /\ ~AmountError(f, row)

\* Rows are only validated under good headers.
InvalidRows(f) == IF HeaderErrors(f) THEN {}
                  ELSE {i \in DOMAIN f.rows : ~RowValid(f, f.rows[i])}

-----------------------------------------------------------------------------
Blank ==
    /\ file = NoFile /\ validation = [kind |-> "idle", of |-> NoFile]
    /\ parsing = {} /\ uploading = NoFile /\ refreshing = FALSE /\ uploadResult = "null"
    /\ checkoutFilter = "all" /\ logsForId = FALSE

PayoutsInit ==
    /\ Blank /\ tab = "history" /\ listed = "null"
    /\ orphans = {} /\ payoutCalls = 0 /\ sent = {} /\ sends = 0

\* onDrop: parsing starts; an earlier parse is not cancelled.  The code has no
\* guard on an earlier parse: OverlapDrops = FALSE is a user who waits for it.
Drop(f) ==
    /\ tab = "sdp"
    /\ parsing = {} \/ OverlapDrops
    /\ file' = f /\ uploadResult' = "null"
    /\ validation' = [kind |-> "parsing", of |-> f]
    /\ parsing' = parsing \cup {f}
    /\ UNCHANGED <<tab, uploading, refreshing, orphans, checkoutFilter, listed, logsForId, payoutCalls,
                   sent, sends>>

\* The parse of a dropped file ends.  Its outcome replaces the validation
\* shown, whichever file is selected by then.
Parsed(f) ==
    /\ f \in parsing
    /\ parsing' = parsing \ {f}
    /\ \E kind \in {"ok", "error"} : validation' = [kind |-> kind, of |-> f]
    /\ UNCHANGED <<tab, file, uploading, refreshing, orphans, uploadResult, checkoutFilter, listed,
                   logsForId, payoutCalls, sent, sends>>

\* clearFile, from the button that is shown with a file.
ClearFile ==
    /\ tab = "sdp" /\ file # NoFile
    /\ file' = NoFile /\ validation' = [kind |-> "idle", of |-> NoFile]
    /\ uploadResult' = "null"
    /\ UNCHANGED <<tab, parsing, uploading, refreshing, orphans, checkoutFilter, listed, logsForId,
                   payoutCalls, sent, sends>>

SubmissionAllowed ==
    /\ file # NoFile
    /\ validation.kind = "ok"
    /\ ~HeaderErrors(validation.of) /\ InvalidRows(validation.of) = {}

\* The review grid: which rows it shows under the filter.
ReviewRows(f, filter) ==
    {i \in DOMAIN f.rows : \/ filter = "all"
                           \/ filter = "valid" /\ i \notin InvalidRows(f)
                           \/ filter = "invalid" /\ i \in InvalidRows(f)}

SetCheckoutFilter(filter) ==
    /\ tab = "sdp" /\ validation.kind = "ok" /\ filter # checkoutFilter
    /\ checkoutFilter' = filter
    /\ UNCHANGED <<tab, file, validation, parsing, uploading, refreshing, orphans, uploadResult, listed,
                   logsForId, payoutCalls, sent, sends>>

Busy == uploading # NoFile \/ refreshing
SubmitEnabled == SubmissionAllowed /\ ~Busy

\* handleUpload sends the selected file.
HandleUpload ==
    /\ tab = "sdp" /\ SubmitEnabled /\ sends < MaxUploads
    /\ uploading' = file /\ uploadResult' = "null"
    /\ sent' = sent \cup {<<file, sends + 1>>} /\ sends' = sends + 1
    /\ UNCHANGED <<tab, file, validation, parsing, refreshing, orphans, checkoutFilter, listed, logsForId,
                   payoutCalls>>

\* The platform accepted the file.  clearFile takes back the success that was
\* just set, and whatever file was dropped meanwhile.
UploadAccepted ==
    /\ uploading # NoFile
    /\ uploading' = NoFile /\ refreshing' = TRUE
    /\ file' = NoFile /\ validation' = [kind |-> "idle", of |-> NoFile]
    /\ uploadResult' = "null"
    /\ UNCHANGED <<tab, parsing, orphans, checkoutFilter, listed, logsForId, payoutCalls,
                   sent, sends>>

\* mutant: finally is missing.
FreedNever == refreshing
Freed == FALSE

\* refreshSdp ended, well or not, and finally frees the button.
UploadDone ==
    /\ refreshing /\ refreshing' = Freed
    /\ listed' \in {"rows", listed}
    /\ UNCHANGED <<tab, file, validation, parsing, uploading, orphans, uploadResult,
                   checkoutFilter, logsForId, payoutCalls, sent, sends>>

UploadFails ==
    /\ uploading # NoFile
    /\ uploading' = NoFile /\ uploadResult' = "error"
    /\ UNCHANGED <<tab, file, validation, parsing, refreshing, orphans, checkoutFilter,
                   listed, logsForId, payoutCalls, sent, sends>>

\* An upload whose tab was left is answered: nothing is there to show it.
OrphanAnswered(u) ==
    /\ u \in orphans /\ orphans' = orphans \ {u}
    /\ UNCHANGED <<tab, uploadVars, listed, payoutCalls, sent, sends>>

\* refreshSdp and the poll every 20 s; a failure leaves the list.
ListRead ==
    /\ tab = "sdp" /\ listed' \in {"rows", "empty"}
    /\ UNCHANGED <<tab, uploadVars, orphans, payoutCalls, sent, sends>>

\* The list of disbursements: placeholders, an invitation to upload, or rows.
DisbursementRows == listed = "rows"

OpenLogs ==
    /\ tab = "sdp" /\ DisbursementRows /\ ~logsForId /\ logsForId' = TRUE
    /\ UNCHANGED <<tab, file, validation, parsing, uploading, refreshing, orphans, uploadResult,
                   checkoutFilter, listed, payoutCalls, sent, sends>>

CloseLogs ==
    /\ logsForId /\ logsForId' = FALSE
    /\ UNCHANGED <<tab, file, validation, parsing, uploading, refreshing, orphans, uploadResult,
                   checkoutFilter, listed, payoutCalls, sent, sends>>

\* A tab is chosen: the upload tab is mounted only while it is active, so its
\* state is new each time, while an upload on the wire goes on.
ChooseTab(t) ==
    /\ tab # "crashed" /\ t # tab
    /\ tab' = t
    /\ IF tab = "sdp"
       THEN /\ file' = NoFile /\ validation' = [kind |-> "idle", of |-> NoFile]
            /\ parsing' = {} /\ uploading' = NoFile /\ refreshing' = FALSE
            /\ uploadResult' = "null"
            /\ checkoutFilter' = "all" /\ logsForId' = FALSE /\ listed' = "null"
            /\ orphans' = IF uploading = NoFile THEN orphans ELSE orphans \cup {uploading}
       ELSE UNCHANGED <<uploadVars, listed, orphans>>
    /\ UNCHANGED <<payoutCalls, sent, sends>>

\* handleSubmitPayout: the form has no busy state.
SubmitPayout ==
    /\ tab = "history" /\ sends < MaxUploads
    /\ payoutCalls' = payoutCalls + 1 /\ sends' = sends + 1
    /\ UNCHANGED <<tab, uploadVars, orphans, listed, sent>>

\* Accepted, the form is reset and the history read again; refused, nothing
\* is shown.
PayoutAnswered ==
    /\ payoutCalls > 0 /\ payoutCalls' = payoutCalls - 1
    /\ UNCHANGED <<tab, uploadVars, orphans, listed, sent, sends>>

\* A row of the batch table is clicked: usePolling is then called in a render
\* that has one hook more than the last, which React answers with an error.
SelectBatch ==
    /\ tab = "batch" /\ tab' = "crashed"
    /\ UNCHANGED <<uploadVars, orphans, listed, payoutCalls, sent, sends>>

PayoutsNext ==
    \/ \E f \in Files : Drop(f) \/ Parsed(f) \/ OrphanAnswered(f)
    \/ \E filter \in {"all", "valid", "invalid"} : SetCheckoutFilter(filter)
    \/ \E t \in {"history", "batch", "sdp"} : ChooseTab(t)
    \/ ClearFile \/ HandleUpload \/ UploadAccepted \/ UploadDone \/ UploadFails
    \/ ListRead \/ OpenLogs \/ CloseLogs
    \/ SubmitPayout \/ PayoutAnswered \/ SelectBatch

-----------------------------------------------------------------------------
(* Properties. *)

PayoutsTypeOK ==
    /\ tab \in {"history", "batch", "sdp", "crashed"}
    /\ file \in Files \cup {NoFile} /\ uploading \in Files \cup {NoFile}
    /\ validation \in [kind : {"idle", "parsing", "ok", "error"}, of : Files \cup {NoFile}]
    /\ parsing \subseteq Files /\ orphans \subseteq Files
    /\ uploadResult \in {"null", "success", "error"} /\ logsForId \in BOOLEAN /\ refreshing \in BOOLEAN
    /\ checkoutFilter \in {"all", "valid", "invalid"}
    /\ listed \in {"null", "empty", "rows"}
    /\ payoutCalls \in 0..MaxUploads /\ sends \in 0..MaxUploads
    /\ sent \subseteq (Files \X (1..MaxUploads))

\* A payable row has a positive amount and either a valid Stellar address or a
\* complete phone route; it does not mention how validateRows decides that.
Payable(f, row) ==
    /\ "amount" \in Headers(f) /\ row["amount"] = "good"
    /\ \/ "stellar_address" \in Headers(f) /\ row["stellar_address"] = "good"
       \/ /\ {"phone", "id", "verification"} \subseteq Headers(f)
          /\ \A c \in {"phone", "id", "verification"} : row[c] # "empty"
          /\ "stellar_address" \in Headers(f) => row["stellar_address"] # "bad"

\* Each file sent to the platform was checked, and every row of it can be
\* paid, however files are dropped, cleared, parsed late and replaced, as long
\* as none is dropped while another is being parsed (OverlapDrops = FALSE).
\* The code does not prevent that (page.tsx:132): with OverlapDrops = TRUE the
\* parse that ends last replaces the rows of the file on the screen, and the
\* property is violated.
SentRowsArePayable == \A u \in sent : \A i \in DOMAIN u[1].rows : Payable(u[1], u[1].rows[i])
=============================================================================
