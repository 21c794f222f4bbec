---------------------------- MODULE Disbursement ----------------------------
(***************************************************************************)
(* Bulk payouts: the upload endpoint that stores a batch and its           *)
(* recipient rows, N disbursement workers that lease rows and submit them  *)
(* to the Stellar Disbursement Platform (SDP), the optional Redis lock     *)
(* around a batch, and the webhook SDP calls when a payment settles.  The  *)
(* tables payout_batches and batch_recipients are the only shared state;   *)
(* each SQL statement (or explicit transaction) is one atomic step, and    *)
(* everything else interleaves.                                            *)
(*                                                                         *)
(* SDP itself is external: it is modelled from how SdpClient uses it.  A   *)
(* request may be lost before or after SDP sees it, SDP pays at most once  *)
(* per idempotency key, and its callbacks may be delayed, lost, repeated   *)
(* and reordered.                                                          *)
(***************************************************************************)
EXTENDS Integers, FiniteSets

CONSTANTS
    Workers,       \* worker processes
    NoWorker,      \* not a worker
    Rows,          \* recipient row ids, numbered in upload order
    BatchOf,       \* the batch of each row; batches are numbered by created_at
    MaxAttempts,   \* config.max_attempts
    ClaimSize,     \* config.claim_size
    ChunkSize,     \* CHUNK_SIZE
    UseRedis,      \* config.batch_lock is Some
    Pid,           \* process id of each worker, the value it writes in the lock
    Preloaded,     \* the upload finished before the first worker starts
    TimelyLeases,  \* a live worker finishes its claim within the lease timeout
    HookStatuses,  \* what SDP reports on the way, besides the final status
    MaxFaults,     \* bound: crashes, database errors and failed uploads
    MaxHooks       \* bound: webhook deliveries

NoRow == 0
NoBatch == 0

\* Bound on the history of dispatches: one more than any property asks about.
DispatchCap == MaxAttempts + MaxFaults + 1

ASSUME ConfigAssumption ==
    /\ NoWorker \notin Workers
    /\ Rows \subseteq Nat \ {NoRow}
    /\ IsFiniteSet(Rows)
    /\ BatchOf \in [Rows -> Nat \ {NoBatch}]
    /\ MaxAttempts \in Nat \ {0}
    /\ ClaimSize \in Nat \ {0}
    /\ ChunkSize \in Nat \ {0}
    /\ UseRedis \in BOOLEAN
    /\ Preloaded \in BOOLEAN
    /\ TimelyLeases \in BOOLEAN
    /\ HookStatuses \subseteq {"SUBMITTED", "PENDING"}
    /\ MaxFaults \in Nat
    /\ MaxHooks \in Nat

VARIABLES
    batchStatus,  \* payout_batches.status
    succeeded,    \* payout_batches.succeeded_count
    failed,       \* payout_batches.failed_count
    uploading,    \* batches whose upload request is still inserting rows
    rowStatus,    \* batch_recipients.status
    attempts,     \* batch_recipients.attempt_count
    lockedBy,     \* batch_recipients.locked_by
    stale,        \* leased rows whose locked_at is past the lease timeout
    worker,       \* each worker's program counter and local variables
    batchLock,    \* the Redis key lock:batch:{id}, the holder or NoWorker
    sdpKeys,      \* idempotency keys SDP has accepted
    payments,     \* payments SDP made for each row
    sdpFinal,     \* final status SDP reached for each row
    hook,         \* the webhook handler in progress
    dispatches,   \* history: requests sent to SDP for each row
    faults,       \* crashes and errors so far
    hooks         \* webhook deliveries so far

batchVars == <<batchStatus, succeeded, failed, uploading>>
rowVars == <<rowStatus, attempts, lockedBy, stale>>
sdpVars == <<sdpKeys, payments, sdpFinal>>
vars == <<batchVars, rowVars, worker, batchLock, sdpVars, hook, dispatches, faults, hooks>>

Batches == {BatchOf[r] : r \in Rows}
RowsOf(b) == {r \in Rows : BatchOf[r] = b}
\* payout_batches.total_recipients, written once by persist_batch.
Total(b) == Cardinality(RowsOf(b))
InStatus(b, s) == Cardinality({r \in RowsOf(b) : rowStatus[r] = s})

Open == {"PENDING", "PROCESSING"}
Terminal == {"COMPLETED", "PARTIALLY_FAILED", "FAILED"}
PCs == {"idle", "poll", "lock", "claim", "dispatch", "inflight", "mark",
        "progress", "finalize", "release", "down"}
Outcomes == {"None", "Submitted", "Retryable", "Permanent"}

\* A worker between cycles: no batch, no claimed rows.
Fresh == [pc |-> "idle", at |-> NoBatch, todo |-> {}, snap |-> [r \in Rows |-> 0],
          cur |-> NoRow, arrived |-> FALSE, outcome |-> "None", done |-> 0, holds |-> FALSE]

Init ==
    /\ batchStatus = [b \in Batches |-> IF Preloaded THEN "PENDING" ELSE "Absent"]
    /\ succeeded = [b \in Batches |-> 0]
    /\ failed = [b \in Batches |-> 0]
    /\ uploading = {}
    /\ rowStatus = [r \in Rows |-> IF Preloaded THEN "PENDING" ELSE "Absent"]
    /\ attempts = [r \in Rows |-> 0]
    /\ lockedBy = [r \in Rows |-> NoWorker]
    /\ stale = {}
    /\ worker = [w \in Workers |-> Fresh]
    /\ batchLock = [b \in Batches |-> NoWorker]
    /\ sdpKeys = {}
    /\ payments = [r \in Rows |-> 0]
    /\ sdpFinal = [r \in Rows |-> "None"]
    /\ hook = [pc |-> "idle", at |-> NoBatch]
    /\ dispatches = [r \in Rows |-> 0]
    /\ faults = 0
    /\ hooks = 0

-----------------------------------------------------------------------------
(***************************************************************************)
(* The upload endpoint (persist_batch).  The batch row and the recipient   *)
(* rows are inserted one statement at a time, with no transaction around   *)
(* them, so workers see a batch that is still growing.                     *)
(***************************************************************************)
CreateBatch(b) ==
    /\ batchStatus[b] = "Absent"
    /\ \A c \in Batches : c < b => batchStatus[c] # "Absent"
    /\ batchStatus' = [batchStatus EXCEPT ![b] = "PENDING"]
    /\ uploading' = uploading \cup {b}
    /\ UNCHANGED <<succeeded, failed, rowVars, worker, batchLock, sdpVars, hook,
                   dispatches, faults, hooks>>

InsertRow(r) ==
    /\ BatchOf[r] \in uploading
    /\ rowStatus[r] = "Absent"
    /\ \A q \in RowsOf(BatchOf[r]) : q < r => rowStatus[q] # "Absent"
    /\ rowStatus' = [rowStatus EXCEPT ![r] = "PENDING"]
    /\ uploading' = IF \A q \in RowsOf(BatchOf[r]) \ {r} : rowStatus[q] # "Absent"
                    THEN uploading \ {BatchOf[r]} ELSE uploading
    /\ UNCHANGED <<batchStatus, succeeded, failed, attempts, lockedBy, stale, worker,
                   batchLock, sdpVars, hook, dispatches, faults, hooks>>

\* An INSERT fails (a duplicate destination, a lost connection): the request
\* answers 500 and the rows inserted so far stay.
UploadFails(b) ==
    /\ b \in uploading
    /\ faults < MaxFaults
    /\ uploading' = uploading \ {b}
    /\ faults' = faults + 1
    /\ UNCHANGED <<batchStatus, succeeded, failed, rowVars, worker, batchLock, sdpVars,
                   hook, dispatches, hooks>>

-----------------------------------------------------------------------------
(***************************************************************************)
(* A worker's cycle.                                                       *)
(***************************************************************************)

\* mutant: leases are never taken back
NoneAbandoned == {}

\* reclaim_stale_leases' WHERE clause.
Abandoned == {r \in stale : rowStatus[r] = "PENDING"}

\* reclaim_stale_leases, at every tick: PENDING rows whose lease timed out are
\* unlocked; attempt_count is left as it is.
ReclaimStaleLeases(w) ==
    /\ worker[w].pc = "idle"
    /\ lockedBy' = [r \in Rows |-> IF r \in Abandoned THEN NoWorker ELSE lockedBy[r]]
    /\ stale' = stale \ Abandoned
    /\ worker' = [worker EXCEPT ![w].pc = "poll"]
    /\ UNCHANGED <<batchVars, rowStatus, attempts, batchLock, sdpVars, hook, dispatches,
                   faults, hooks>>

\* Another transaction may hold the row lock of batch b (SKIP LOCKED).
RowLocked(w, b) ==
    \/ \E v \in Workers \ {w} : worker[v].at = b /\ worker[v].pc \in {"mark", "finalize"}
    \/ hook.at = b

\* claim_next_batch: the oldest open batch nobody is updating right now.
ClaimNextBatch(w) ==
    LET open == {b \in Batches : batchStatus[b] \in Open} IN
    /\ worker[w].pc = "poll"
    /\ \/ \E b \in open :
             /\ \A c \in open : c < b => RowLocked(w, c)
             /\ batchStatus' = [batchStatus EXCEPT ![b] = "PROCESSING"]
             /\ worker' = [worker EXCEPT ![w].pc = IF UseRedis THEN "lock" ELSE "claim",
                                         ![w].at = b]
       \/ /\ \A b \in open : RowLocked(w, b)
          /\ worker' = [worker EXCEPT ![w] = Fresh]
          /\ UNCHANGED batchStatus
    /\ UNCHANGED <<succeeded, failed, uploading, rowVars, batchLock, sdpVars, hook,
                   dispatches, faults, hooks>>

\* BatchLock::acquire: SET NX PX.  Held by another process: the cycle ends.
\* A Redis error falls back to the database lease.
AcquireLock(w) ==
    LET b == worker[w].at IN
    /\ worker[w].pc = "lock"
    /\ \/ /\ batchLock[b] = NoWorker
          /\ batchLock' = [batchLock EXCEPT ![b] = w]
          /\ worker' = [worker EXCEPT ![w].pc = "claim", ![w].holds = TRUE]
       \/ /\ batchLock[b] # NoWorker
          /\ worker' = [worker EXCEPT ![w] = Fresh]
          /\ UNCHANGED batchLock
    /\ UNCHANGED <<batchVars, rowVars, sdpVars, hook, dispatches, faults, hooks>>

RedisError(w) ==
    /\ worker[w].pc = "lock"
    /\ faults < MaxFaults
    /\ faults' = faults + 1
    /\ worker' = [worker EXCEPT ![w].pc = "claim"]
    /\ UNCHANGED <<batchVars, rowVars, batchLock, sdpVars, hook, dispatches, hooks>>

\* mutant: rows leased by a peer are claimed too
ClaimableLeased(b) == {r \in RowsOf(b) : rowStatus[r] = "PENDING"}

\* claim_recipients' WHERE clause.
Claimable(b) == {r \in RowsOf(b) : rowStatus[r] = "PENDING" /\ lockedBy[r] = NoWorker}

\* ORDER BY created_at LIMIT claim_size.
OldestFew(S) == {r \in S : Cardinality({q \in S : q < r}) < ClaimSize}

ClaimRecipients(w) ==
    LET claimed == OldestFew(Claimable(worker[w].at)) IN
    /\ worker[w].pc = "claim"
    /\ lockedBy' = [r \in Rows |-> IF r \in claimed THEN w ELSE lockedBy[r]]
    /\ stale' = stale \ claimed
    /\ worker' = [worker EXCEPT
                     ![w].pc = IF claimed = {} THEN "finalize" ELSE "dispatch",
                     ![w].todo = claimed,
                     ![w].snap = [r \in Rows |-> IF r \in claimed THEN attempts[r] ELSE 0]]
    /\ UNCHANGED <<batchVars, rowStatus, attempts, batchLock, sdpVars, hook, dispatches,
                   faults, hooks>>

\* dispatch_one sends the request of one claimed row.
BeginDispatch(w) ==
    \E r \in worker[w].todo :
        /\ worker[w].pc = "dispatch"
        /\ worker' = [worker EXCEPT ![w].pc = "inflight", ![w].cur = r,
                                    ![w].todo = @ \ {r}]
        /\ dispatches' = [dispatches EXCEPT ![r] = IF @ = DispatchCap THEN @ ELSE @ + 1]
        /\ UNCHANGED <<batchVars, rowVars, batchLock, sdpVars, hook, faults, hooks>>

\* mutant: the key names the attempt, not only the row
IdempotencyKeyPerAttempt(r, attempt) == <<r, attempt>>

\* idempotency_key_for: derived from the row id, the same for every attempt.
IdempotencyKey(r, attempt) == <<r, 0>>

\* SDP receives the request in flight: it pays unless it knows the key.
SdpAccepts(w) ==
    LET r == worker[w].cur
        key == IdempotencyKey(r, worker[w].snap[r] + 1)
    IN
    /\ worker[w].pc = "inflight"
    /\ ~worker[w].arrived
    /\ worker' = [worker EXCEPT ![w].arrived = TRUE]
    /\ sdpKeys' = sdpKeys \cup {key}
    /\ payments' = IF key \in sdpKeys THEN payments
                   ELSE [payments EXCEPT ![r] = @ + 1]
    /\ UNCHANGED <<batchVars, rowVars, batchLock, sdpFinal, hook, dispatches, faults, hooks>>

\* mutant: a network failure counts as success
OutcomesOptimistic(arrived) ==
    IF arrived THEN {"Submitted"} ELSE {"Submitted", "Permanent"}

\* submit_disbursement's answer: success once SDP took the request, Retryable
\* when the answer (or the request) was lost, Permanent on a 4xx.
OutcomesOf(arrived) ==
    IF arrived THEN {"Submitted", "Retryable"} ELSE {"Retryable", "Permanent"}

EndDispatch(w) ==
    /\ worker[w].pc = "inflight"
    /\ \E o \in OutcomesOf(worker[w].arrived) :
          worker' = [worker EXCEPT ![w].pc = "mark", ![w].outcome = o, ![w].arrived = FALSE]
    /\ UNCHANGED <<batchVars, rowVars, batchLock, sdpVars, hook, dispatches, faults, hooks>>

\* The loop over a chunk: the next row, or the end of the chunk.
NextRow(w) ==
    worker' = [worker EXCEPT
                  ![w].pc = IF worker[w].todo = {} \/ worker[w].done + 1 = ChunkSize
                            THEN "progress" ELSE "dispatch",
                  ![w].done = IF @ + 1 = ChunkSize THEN 0 ELSE @ + 1,
                  ![w].cur = NoRow, ![w].outcome = "None"]

\* execute_batch_claim returns.  When a statement failed, `?` leaves it at once
\* and the rows not yet dispatched stay leased.
EndCycle(w) ==
    worker' = [worker EXCEPT ![w] = [Fresh EXCEPT !.pc = "release", !.at = worker[w].at,
                                                  !.holds = worker[w].holds]]

\* The lease ends and the attempt is counted, whoever holds the lease by now.
ReleaseRow(r) ==
    /\ attempts' = [attempts EXCEPT ![r] = @ + 1]
    /\ lockedBy' = [lockedBy EXCEPT ![r] = NoWorker]
    /\ stale' = stale \ {r}

\* CHECK payout_batches_counts_within_total, evaluated when the transaction of
\* mark_submitted or mark_failed adds one to a counter.
RoomForOneMore(b) == succeeded[b] + failed[b] < Total(b)

\* mutant: the counter is forgotten
NoneMore(counter, b) == counter

\* UPDATE payout_batches SET x_count = x_count + 1.
OneMore(counter, b) == [counter EXCEPT ![b] = @ + 1]

\* mark_submitted: row and counter in one transaction.
MarkSubmitted(w) ==
    LET r == worker[w].cur IN
    /\ worker[w].pc = "mark"
    /\ worker[w].outcome = "Submitted"
    /\ RoomForOneMore(worker[w].at)
    /\ rowStatus' = [rowStatus EXCEPT ![r] = "SUBMITTED"]
    /\ ReleaseRow(r)
    /\ succeeded' = OneMore(succeeded, worker[w].at)
    /\ NextRow(w)
    /\ UNCHANGED <<batchStatus, failed, uploading, batchLock, sdpVars, hook, dispatches,
                   faults, hooks>>

\* mutant: one attempt too many
MustFailLate(outcome, attempt) == outcome = "Permanent" \/ attempt > MaxAttempts

\* Either permanently bad, or out of retries.
MustFail(outcome, attempt) == outcome = "Permanent" \/ attempt >= MaxAttempts

\* mark_retry: the row stays PENDING and becomes claimable again.
MarkRetry(w) ==
    LET r == worker[w].cur IN
    /\ worker[w].pc = "mark"
    /\ worker[w].outcome \in {"Retryable", "Permanent"}
    /\ ~MustFail(worker[w].outcome, worker[w].snap[r] + 1)
    /\ ReleaseRow(r)
    /\ NextRow(w)
    /\ UNCHANGED <<batchVars, rowStatus, batchLock, sdpVars, hook, dispatches, faults, hooks>>

\* mark_failed: row and counter in one transaction.
MarkFailed(w) ==
    LET r == worker[w].cur IN
    /\ worker[w].pc = "mark"
    /\ worker[w].outcome \in {"Retryable", "Permanent"}
    /\ MustFail(worker[w].outcome, worker[w].snap[r] + 1)
    /\ RoomForOneMore(worker[w].at)
    /\ rowStatus' = [rowStatus EXCEPT ![r] = "FAILED"]
    /\ ReleaseRow(r)
    /\ failed' = OneMore(failed, worker[w].at)
    /\ NextRow(w)
    /\ UNCHANGED <<batchStatus, succeeded, uploading, batchLock, sdpVars, hook, dispatches,
                   faults, hooks>>

\* The CHECK rejects the counter: the whole transaction rolls back.
MarkRejected(w) ==
    /\ worker[w].pc = "mark"
    /\ \/ worker[w].outcome = "Submitted"
       \/ MustFail(worker[w].outcome, worker[w].snap[worker[w].cur] + 1)
    /\ ~RoomForOneMore(worker[w].at)
    /\ EndCycle(w)
    /\ UNCHANGED <<batchVars, rowVars, batchLock, sdpVars, hook, dispatches, faults, hooks>>

\* dispatch_logs.event's CHECK list.
LoggableEvents == {"CLAIMED", "SUBMITTED", "CONFIRMED", "FAILED", "RETRY_SCHEDULED", "CANCELLED"}

\* record_chunk_progress logs CHUNK_COMPLETED after every chunk; a rejected
\* INSERT ends the cycle like any other failed statement.
RecordChunkProgress(w) ==
    /\ worker[w].pc = "progress"
    /\ IF "CHUNK_COMPLETED" \in LoggableEvents
       THEN worker' = [worker EXCEPT ![w].pc = IF worker[w].todo = {} THEN "finalize"
                                               ELSE "dispatch"]
       ELSE EndCycle(w)
    /\ UNCHANGED <<batchVars, rowVars, batchLock, sdpVars, hook, dispatches, faults, hooks>>

\* next_batch_status for a PROCESSING batch with nothing pending.
SettledStatus(nFailed, nTotal) ==
    IF nFailed = 0 THEN "COMPLETED"
    ELSE IF nFailed = nTotal THEN "FAILED" ELSE "PARTIALLY_FAILED"

\* mutant: finalize_batch settles a batch again whatever its status
MayFinalizeAgain(b) == InStatus(b, "PENDING") = 0

\* finalize_batch's WHERE clause.
MayFinalize(b) == InStatus(b, "PENDING") = 0 /\ batchStatus[b] = "PROCESSING"

\* finalize_batch: the tally is over the rows that exist now.
FinalizeBatch(w) ==
    LET b == worker[w].at
        present == Cardinality({r \in RowsOf(b) : rowStatus[r] # "Absent"})
    IN
    /\ worker[w].pc = "finalize"
    /\ batchStatus' = IF MayFinalize(b)
                      THEN [batchStatus EXCEPT ![b] = SettledStatus(InStatus(b, "FAILED"), present)]
                      ELSE batchStatus
    /\ EndCycle(w)
    /\ UNCHANGED <<succeeded, failed, uploading, rowVars, batchLock, sdpVars, hook,
                   dispatches, faults, hooks>>

\* BatchLock::release: compare-and-delete on the process id.
ReleaseLock(w) ==
    LET b == worker[w].at
        mine == /\ worker[w].holds
                /\ batchLock[b] # NoWorker
                /\ Pid[batchLock[b]] = Pid[w]
    IN
    /\ worker[w].pc = "release"
    /\ batchLock' = IF mine THEN [batchLock EXCEPT ![b] = NoWorker] ELSE batchLock
    /\ worker' = [worker EXCEPT ![w] = Fresh]
    /\ UNCHANGED <<batchVars, rowVars, sdpVars, hook, dispatches, faults, hooks>>

-----------------------------------------------------------------------------
(***************************************************************************)
(* Time and failures.                                                      *)
(***************************************************************************)

\* The lock's TTL runs out; nothing renews it.
LockExpires(b) ==
    /\ batchLock[b] # NoWorker
    /\ batchLock' = [batchLock EXCEPT ![b] = NoWorker]
    /\ UNCHANGED <<batchVars, rowVars, worker, sdpVars, hook, dispatches, faults, hooks>>

\* Rows worker w is still going to mark.
InHand(w) == worker[w].todo \cup {worker[w].cur}

\* lease_timeout_secs pass since w's claim.  The default lease (900 s) is
\* shorter than a claim of 100 rows with a 30 s request timeout can take, so
\* a live worker's lease may run out, unless TimelyLeases rules it out.
LeaseTimesOut(w) ==
    LET old == {r \in Rows \ stale : /\ lockedBy[r] = w
                                     /\ TimelyLeases => r \notin InHand(w)}
    IN
    /\ old # {}
    /\ stale' = stale \cup old
    /\ UNCHANGED <<batchVars, rowStatus, attempts, lockedBy, worker, batchLock, sdpVars,
                   hook, dispatches, faults, hooks>>

\* The process dies; its leases and its Redis lock stay behind.
Crash(w) ==
    /\ worker[w].pc \notin {"idle", "down"}
    /\ faults < MaxFaults
    /\ faults' = faults + 1
    /\ worker' = [worker EXCEPT ![w] = [Fresh EXCEPT !.pc = "down"]]
    /\ UNCHANGED <<batchVars, rowVars, batchLock, sdpVars, hook, dispatches, hooks>>

Restart(w) ==
    /\ worker[w].pc = "down"
    /\ worker' = [worker EXCEPT ![w] = Fresh]
    /\ UNCHANGED <<batchVars, rowVars, batchLock, sdpVars, hook, dispatches, faults, hooks>>

\* A statement of the cycle fails; between two rows of a chunk it is the
\* INSERT into dispatch_logs that follows a committed mark_*.
DbError(w) ==
    /\ \/ worker[w].pc \in {"lock", "claim", "mark", "progress", "finalize"}
       \/ worker[w].pc = "dispatch" /\ worker[w].done > 0
    /\ faults < MaxFaults
    /\ faults' = faults + 1
    /\ EndCycle(w)
    /\ UNCHANGED <<batchVars, rowVars, batchLock, sdpVars, hook, dispatches, hooks>>

-----------------------------------------------------------------------------
(***************************************************************************)
(* SDP's callbacks.                                                        *)
(***************************************************************************)

\* SDP knows of row r.
Accepted(r) == \E k \in sdpKeys : k[1] = r

SdpSettles(r) ==
    /\ Accepted(r)
    /\ sdpFinal[r] = "None"
    /\ hooks < MaxHooks
    /\ \E s \in {"CONFIRMED", "FAILED"} : sdpFinal' = [sdpFinal EXCEPT ![r] = s]
    /\ UNCHANGED <<batchVars, rowVars, worker, batchLock, sdpKeys, payments, hook,
                   dispatches, faults, hooks>>

\* Statuses a callback about row r may carry.  Callbacks are neither ordered
\* nor delivered exactly once, so any past status may arrive at any time.
Reportable(r) ==
    (IF Accepted(r) THEN HookStatuses ELSE {}) \cup ({sdpFinal[r]} \ {"None"})

\* sdp_reconciliation_webhook, first statement: the row takes the reported
\* status whatever it had; the lease is not touched.
WebhookUpdate(r) ==
    /\ hook.pc = "idle"
    /\ hooks < MaxHooks
    /\ hooks' = hooks + 1
    /\ \E s \in Reportable(r) : rowStatus' = [rowStatus EXCEPT ![r] = s]
    /\ hook' = [pc |-> "recount", at |-> BatchOf[r]]
    /\ UNCHANGED <<batchVars, attempts, lockedBy, stale, worker, batchLock, sdpVars,
                   dispatches, faults>>

\* Second statement: the counters are recomputed from the rows.
WebhookRecount ==
    /\ hook.pc = "recount"
    /\ succeeded' = [succeeded EXCEPT ![hook.at] = InStatus(hook.at, "CONFIRMED")]
    /\ failed' = [failed EXCEPT ![hook.at] = InStatus(hook.at, "FAILED")]
    /\ hook' = [hook EXCEPT !.pc = "settle"]
    /\ UNCHANGED <<batchStatus, uploading, rowVars, worker, batchLock, sdpVars, dispatches,
                   faults, hooks>>

\* Third statement: an open batch whose counters add up is settled.
WebhookSettle ==
    LET b == hook.at IN
    /\ hook.pc = "settle"
    /\ batchStatus' = IF batchStatus[b] \in Open /\ succeeded[b] + failed[b] >= Total(b)
                      THEN [batchStatus EXCEPT ![b] =
                               IF failed[b] = 0 THEN "COMPLETED"
                               ELSE IF succeeded[b] = 0 THEN "FAILED" ELSE "PARTIALLY_FAILED"]
                      ELSE batchStatus
    /\ hook' = [pc |-> "idle", at |-> NoBatch]
    /\ UNCHANGED <<succeeded, failed, uploading, rowVars, worker, batchLock, sdpVars,
                   dispatches, faults, hooks>>

\* The handler dies between its statements, or one of them fails: their
\* errors are dropped (`let _ =`) and the next statement runs.
WebhookFails ==
    /\ hook.pc # "idle"
    /\ faults < MaxFaults
    /\ faults' = faults + 1
    /\ \/ hook' = [pc |-> "idle", at |-> NoBatch]
       \/ hook.pc = "recount" /\ hook' = [hook EXCEPT !.pc = "settle"]
    /\ UNCHANGED <<batchVars, rowVars, worker, batchLock, sdpVars, dispatches, hooks>>

-----------------------------------------------------------------------------
Upload == \/ \E b \in Batches : CreateBatch(b) \/ UploadFails(b)
          \/ \E r \in Rows : InsertRow(r)

\* Steps of the code of worker w.
WorkerStep(w) ==
    \/ ReclaimStaleLeases(w) \/ ClaimNextBatch(w) \/ AcquireLock(w) \/ ClaimRecipients(w)
    \/ BeginDispatch(w) \/ EndDispatch(w)
    \/ MarkSubmitted(w) \/ MarkRetry(w) \/ MarkFailed(w) \/ MarkRejected(w)
    \/ RecordChunkProgress(w) \/ FinalizeBatch(w) \/ ReleaseLock(w) \/ Restart(w)

Environment ==
    \/ \E w \in Workers : \/ SdpAccepts(w) \/ LeaseTimesOut(w) \/ RedisError(w)
                          \/ Crash(w) \/ DbError(w)
    \/ \E b \in Batches : LockExpires(b)
    \/ \E r \in Rows : SdpSettles(r) \/ WebhookUpdate(r)
    \/ WebhookFails

Webhook == WebhookRecount \/ WebhookSettle

Next ==
    \/ Upload
    \/ \E w \in Workers : WorkerStep(w)
    \/ Webhook
    \/ Environment

Spec == Init /\ [][Next]_vars

(***************************************************************************)
(* Fairness.  A worker that is up keeps running its loop (tokio schedules  *)
(* it, every HTTP request has a 30 s timeout and a crashed process is      *)
(* restarted), the webhook handler finishes what it began, and time        *)
(* passes: leases and locks do run out.  Nothing is assumed of SDP, of     *)
(* callbacks or of faults.                                                 *)
(***************************************************************************)
Fairness ==
    /\ \A w \in Workers : WF_vars(WorkerStep(w)) /\ WF_vars(LeaseTimesOut(w))
    /\ \A b \in Batches : WF_vars(LockExpires(b))
    /\ WF_vars(Webhook)

FairSpec == Spec /\ Fairness

-----------------------------------------------------------------------------
WorkerState == [pc : PCs, at : Batches \cup {NoBatch}, todo : SUBSET Rows, snap : [Rows -> Nat],
                cur : Rows \cup {NoRow}, arrived : BOOLEAN, outcome : Outcomes, done : Nat,
                holds : BOOLEAN]

\* Every variable has its type.
TypeOK ==
    /\ batchStatus \in [Batches -> {"Absent"} \cup Open \cup Terminal]
    /\ succeeded \in [Batches -> Nat]
    /\ failed \in [Batches -> Nat]
    /\ uploading \subseteq Batches
    /\ rowStatus \in [Rows -> {"Absent", "PENDING", "SUBMITTED", "CONFIRMED", "FAILED"}]
    /\ attempts \in [Rows -> Nat]
    /\ lockedBy \in [Rows -> Workers \cup {NoWorker}]
    /\ stale \subseteq Rows
    /\ worker \in [Workers -> WorkerState]
    /\ batchLock \in [Batches -> Workers \cup {NoWorker}]
    /\ sdpKeys \subseteq Rows \X Nat
    /\ payments \in [Rows -> Nat]
    /\ sdpFinal \in [Rows -> {"None", "CONFIRMED", "FAILED"}]
    /\ hook \in [pc : {"idle", "recount", "settle"}, at : Batches \cup {NoBatch}]
    /\ dispatches \in [Rows -> Nat]
    /\ faults \in 0..MaxFaults
    /\ hooks \in 0..MaxHooks

\* Nobody is paid twice: however often a row is re-leased, retried after an
\* ambiguous failure, or dispatched by two workers at once, SDP makes at most
\* one payment for it.
PaidAtMostOnce == \A r \in Rows : payments[r] <= 1

\* A row is shown as SUBMITTED or CONFIRMED only if SDP really took the
\* payment: no error path of dispatch_one or mark_* claims a success.
ShownMeansAccepted ==
    \A r \in Rows : rowStatus[r] \in {"SUBMITTED", "CONFIRMED"} => Accepted(r)

\* A settled batch stays settled with the same verdict: claim_next_batch,
\* finalize_batch and the webhook never reopen or relabel it.
SettledIsFinal ==
    [][\A b \in Batches : batchStatus[b] \in Terminal => batchStatus'[b] = batchStatus[b]]_vars

\* A row is in the hands of one worker at a time, so the same row is never
\* handed to SDP by two workers concurrently.
OneWorkerPerRow ==
    \A v, w \in Workers : v # w => InHand(v) \cap InHand(w) \subseteq {NoRow}

\* The denormalised counters equal what the rows say, at every step of every
\* worker and through crashes.
CountersMatchRows ==
    \A b \in Batches :
        /\ succeeded[b] = InStatus(b, "SUBMITTED") + InStatus(b, "CONFIRMED")
        /\ failed[b] = InStatus(b, "FAILED")

\* A row is handed to SDP at most max_attempts times, plus once for every
\* crash or error that hit its worker before the attempt was counted.
RetriesAreBounded == \A r \in Rows : dispatches[r] <= MaxAttempts + faults

\* No row is worked on twice at a time or for ever: leases keep it in one
\* worker's hands, and attempts are counted although the count is taken from a
\* snapshot older than the dispatch (claim_recipients, mark_retry).
RowsAreWorkedOnce == OneWorkerPerRow /\ RetriesAreBounded

\* Every batch is settled in the end and none of its rows is left pending,
\* whatever SDP answers and although workers crash.
EveryBatchSettles ==
    \A b \in Batches :
        batchStatus[b] \in Open ~>
            /\ batchStatus[b] \in Terminal
            /\ \A r \in RowsOf(b) : rowStatus[r] # "PENDING"

-----------------------------------------------------------------------------
(***************************************************************************)
(* What comments of the code promise and the code does not do.             *)
(***************************************************************************)

\* "Settles a batch's terminal status once no PENDING recipients remain": no
\* settled batch has a row that still waits for dispatch or for insertion by
\* its own upload.
NoRowLeftBehind ==
    \A b \in Batches : batchStatus[b] \in Terminal =>
        /\ b \notin uploading
        /\ \A r \in RowsOf(b) : rowStatus[r] # "PENDING"

\* "Claims one batch and drains up to claim_size of its recipients": a cycle
\* that met no fault leaves no row leased.
CycleDrainsItsClaim ==
    \A w \in Workers : worker[w].pc = "idle" => \A r \in Rows : lockedBy[r] # w
=============================================================================
