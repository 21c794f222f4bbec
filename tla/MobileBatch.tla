---------------------------- MODULE MobileBatch ----------------------------
(***************************************************************************)
(* Distribution lists: the BATCH branch of the transfer screen, which      *)
(* reads a CSV file, previews its rows and posts them, and the batch       *)
(* details screen (app/transaction/batch/[id].tsx), whose batch is fixed.  *)
(*                                                                         *)
(* A file is its header and its rows; a row is the set of its columns that *)
(* parseCSV refuses, with a name that tells it from other rows.            *)
(***************************************************************************)
EXTENDS Naturals, FiniteSets

CONSTANTS
    Files,          \* records [header : BOOLEAN, rows : set of rows]
    NoFile,
    SlowReads,      \* a user acts while a file is still being read
    MaxBatchPosts        \* bound: lists posted
ASSUME BatchConstants == MaxBatchPosts \in Nat /\ SlowReads \in BOOLEAN

VARIABLES
    batchStep,      \* 0 kind, 1 upload, 2 preview, 4 done, 9 left
    batchFile,      \* the file whose name is shown
    reading,        \* files being read
    batchItems, batchErrors,
    uploading,      \* a list is on the wire
    listPosted,     \* what was posted, in rows
    listsPosted     \* bound
batchVars == <<batchStep, batchFile, reading, batchItems, batchErrors, uploading, listPosted, listsPosted>>

VARIABLES batchFilter, exporting, batchOpen
detailVars == <<batchFilter, exporting, batchOpen>>

-----------------------------------------------------------------------------
(* The file. *)

MissingHeaders(f) == ~f.header

\* The mutant: a row is taken when it has a recipient.
RowHasRecipient(row) == row.faults \cap {"recipient_name", "recipient_address"} = {}
RowTaken(row) == row.faults = {}

ParseItems(f) == IF MissingHeaders(f) THEN {} ELSE {row \in f.rows : RowTaken(row)}

\* A header missing, no row at all, or a row at fault: an error is listed.
ParseErrors(f) == MissingHeaders(f) \/ f.rows = {} \/ \E row \in f.rows : ~RowTaken(row)

-----------------------------------------------------------------------------
(* The branch of the transfer screen. *)

BatchInit ==
    /\ batchStep = 0 /\ batchFile = NoFile /\ reading = {} /\ batchItems = {} /\ batchErrors = FALSE
    /\ uploading = FALSE /\ listPosted = {} /\ listsPosted = 0

Settled == SlowReads \/ reading = {}

\* The views of the steps; the preview shows nothing without items.
UploadShown == batchStep = 1
PreviewShown == batchStep = 2

\* The picker returned a file: its name is shown before it is read.
HandlePickFile ==
    /\ UploadShown /\ Settled
    /\ \E f \in Files : batchFile' = f /\ reading' = reading \cup {f}
    /\ UNCHANGED <<batchStep, batchItems, batchErrors, uploading, listPosted, listsPosted>>

FileRead(f) ==
    /\ f \in reading /\ reading' = reading \ {f}
    /\ batchItems' = ParseItems(f) /\ batchErrors' = ParseErrors(f)
    /\ UNCHANGED <<batchStep, batchFile, uploading, listPosted, listsPosted>>

\* The items of the file before stay.
ReadFails(f) ==
    /\ f \in reading /\ reading' = reading \ {f} /\ batchErrors' = TRUE
    /\ UNCHANGED <<batchStep, batchFile, batchItems, uploading, listPosted, listsPosted>>

\* The button is disabled on the upload step without items, and while a list
\* is on the wire.
\* The mutant: it is not disabled for want of items.
ButtonAlways == ~uploading
ButtonEnabled == ~uploading /\ ~(UploadShown /\ batchItems = {})

BatchContinue ==
    /\ ButtonEnabled /\ Settled
    /\ batchStep \in {0, 1} /\ batchStep' = batchStep + 1
    /\ UNCHANGED <<batchFile, reading, batchItems, batchErrors, uploading, listPosted, listsPosted>>

HandleSubmitBatch ==
    /\ PreviewShown /\ ButtonEnabled /\ Settled /\ listsPosted < MaxBatchPosts
    /\ uploading' = TRUE /\ listPosted' = batchItems /\ listsPosted' = listsPosted + 1
    /\ UNCHANGED <<batchStep, batchFile, reading, batchItems, batchErrors>>

\* The mutant: a failed upload keeps the spinner.
UploadStuck == uploading
UploadEnded == FALSE

\* The answer moves a screen that may have gone back a step meanwhile.
UploadEnds ==
    /\ uploading /\ uploading' = UploadEnded
    /\ batchStep' \in IF batchStep = 9 THEN {9} ELSE {4, batchStep}
    /\ UNCHANGED <<batchFile, reading, batchItems, batchErrors, listPosted, listsPosted>>

BatchBack ==
    /\ batchStep \in {0, 1, 2} /\ Settled
    /\ batchStep' = IF batchStep = 0 THEN 9 ELSE batchStep - 1
    /\ UNCHANGED <<batchFile, reading, batchItems, batchErrors, uploading, listPosted, listsPosted>>

BatchNext ==
    \/ HandlePickFile \/ BatchContinue \/ HandleSubmitBatch \/ UploadEnds \/ BatchBack
    \/ \E f \in reading : FileRead(f) \/ ReadFails(f)

-----------------------------------------------------------------------------
(* The details of a batch: 48 recipients, 32 paid, 13 pending, 3 failed. *)

BatchItems == 1..48
BatchSummary == [itemCount |-> 48, completedCount |-> 32, failedCount |-> 3]
StatusOf(i) == IF i <= 32 THEN "completed" ELSE IF i <= 45 THEN "pending" ELSE "failed"
WithStatus(s) == {i \in BatchItems : StatusOf(i) = s}

FilteredItems == IF batchFilter = "all" THEN BatchItems ELSE WithStatus(batchFilter)

\* A single failed item makes the indicator say "completed", step 4 of 4.
CurrentStep ==
    CASE BatchSummary.failedCount > 0 \/ BatchSummary.completedCount = BatchSummary.itemCount -> 4
      [] 2 * BatchSummary.completedCount > BatchSummary.itemCount -> 3
      [] BatchSummary.completedCount > 0 -> 2
      [] OTHER -> 1
StepsPast == {step \in 1..4 : step < CurrentStep}

\* Percentages, rounded down; the bar clamps its own to 0..100.
Progress == (100 * BatchSummary.completedCount) \div BatchSummary.itemCount
SuccessRate == (100 * BatchSummary.completedCount) \div (BatchSummary.itemCount - BatchSummary.failedCount)

DetailInit == batchFilter = "all" /\ exporting = FALSE /\ batchOpen = TRUE

SelectFilter(f) == batchOpen /\ batchFilter' = f /\ UNCHANGED <<exporting, batchOpen>>
HandleExportReceipt == batchOpen /\ ~exporting /\ exporting' = TRUE /\ UNCHANGED <<batchFilter, batchOpen>>
\* Shared, dismissed or failed.
ExportEnds == exporting /\ exporting' = FALSE /\ UNCHANGED <<batchFilter, batchOpen>>
LeaveDetail == batchOpen /\ batchOpen' = FALSE /\ UNCHANGED <<batchFilter, exporting>>

DetailNext ==
    \/ \E f \in {"all", "completed", "pending", "failed"} : SelectFilter(f)
    \/ HandleExportReceipt \/ ExportEnds \/ LeaveDetail

-----------------------------------------------------------------------------
BatchTypeOK ==
    /\ batchStep \in {0, 1, 2, 4, 9} /\ batchFile \in Files \cup {NoFile} /\ reading \subseteq Files
    /\ batchItems \subseteq UNION {f.rows : f \in Files}
    /\ listPosted \subseteq UNION {f.rows : f \in Files} /\ listsPosted \in 0..MaxBatchPosts
    /\ {batchErrors, uploading, exporting, batchOpen} \subseteq BOOLEAN
    /\ batchFilter \in {"all", "completed", "pending", "failed"} /\ FilteredItems \subseteq BatchItems
    /\ StepsPast \subseteq 1..3 /\ {Progress, SuccessRate} \subseteq 0..100

\* A posted list pays someone, and every row of it has a recipient, a Stellar
\* address, an amount above zero and a currency: what a file with faulty rows
\* left over, going back and picking another file included
\* (transfer.tsx:116-138, 1641-1652).
PostedIsPayable == listsPosted > 0 => listPosted # {} /\ \A row \in listPosted : row.faults = {}

\* What runs by itself on these screens, and ends.
BatchWorking == uploading \/ exporting
=============================================================================
