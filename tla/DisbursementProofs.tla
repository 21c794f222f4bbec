------------------------- MODULE DisbursementProofs -------------------------
(***************************************************************************)
(* What holds of the payout pipeline for every number of workers, rows,    *)
(* batches, retries, faults and callbacks: nobody is paid twice, a success *)
(* is shown only for a payment SDP took, and a settled batch stays         *)
(* settled.  No assumption on leases or on the Redis lock is used for      *)
(* that.  The second half assumes that leases outlast the work and that no *)
(* callback comes: then the counters match the rows, a row is in one hand  *)
(* and its retries are bounded.                                            *)
(***************************************************************************)
EXTENDS Disbursement, FiniteSetTheorems, TLAPS

\* What a worker's program counter says about its local variables: a row is in
\* its hands while it dispatches, and it knows of an acceptance only if SDP has
\* the key of that row.
WorkerKnows ==
    \A w \in Workers :
        /\ worker[w].pc \in {"inflight", "mark"} => worker[w].cur \in Rows
        /\ worker[w].arrived => worker[w].pc = "inflight" /\ <<worker[w].cur, 0>> \in sdpKeys
        /\ worker[w].outcome = "Submitted" => /\ worker[w].pc = "mark"
                                              /\ <<worker[w].cur, 0>> \in sdpKeys

WorkersOK == worker \in [Workers -> WorkerState] /\ WorkerKnows

\* SDP pays exactly for the keys it accepted, one key per row.
OnePaymentPerKey ==
    /\ sdpKeys \subseteq Rows \X {0}
    /\ \A r \in Rows : payments[r] = IF <<r, 0>> \in sdpKeys THEN 1 ELSE 0

\* Whatever claims a success, in the tables or at SDP, has a key behind it.
SuccessHasKey ==
    \A r \in Rows :
        /\ rowStatus[r] \in {"SUBMITTED", "CONFIRMED"} => <<r, 0>> \in sdpKeys
        /\ sdpFinal[r] # "None" => <<r, 0>> \in sdpKeys

\* The webhook works on a batch while it runs.
HookHasBatch == hook.pc # "idle" => hook.at \in Batches

\* The inductive invariant.
Inv == TypeOK /\ WorkerKnows /\ OnePaymentPerKey /\ SuccessHasKey /\ HookHasBatch

-----------------------------------------------------------------------------
\* The tallies SQL's COUNT computes are numbers.
LEMMA CountsAreNumbers ==
    ASSUME NEW b, NEW s PROVE InStatus(b, s) \in Nat
<1>1. IsFiniteSet({r \in RowsOf(b) : rowStatus[r] = s})
  BY ConfigAssumption, FS_Subset DEF RowsOf
<1> QED
  BY <1>1, FS_CardinalityType DEF InStatus

\* A known key is a key <<r, 0>>, so Accepted(r) is about that key.
LEMMA AcceptedIsKey ==
    ASSUME OnePaymentPerKey, NEW r \in Rows
    PROVE  Accepted(r) <=> <<r, 0>> \in sdpKeys
<1>1. ASSUME NEW k \in sdpKeys, k[1] = r PROVE k = <<r, 0>>
  BY <1>1 DEF OnePaymentPerKey
<1>2. <<r, 0>>[1] = r
  OBVIOUS
<1> QED
  BY <1>1, <1>2 DEF Accepted

\* A worker between cycles is well typed.
LEMMA FreshTyped ==
    /\ Fresh \in WorkerState
    /\ Fresh.pc = "idle" /\ ~Fresh.arrived /\ Fresh.outcome = "None"
BY DEF Fresh, WorkerState, PCs, Outcomes, NoRow, NoBatch

-----------------------------------------------------------------------------
(***************************************************************************)
(* How a step may move one worker.                                         *)
(***************************************************************************)

\* One worker moves to a state in which it knows no more than SDP has accepted,
\* and the others stay.
LEMMA OneWorkerMoves ==
    ASSUME WorkersOK, sdpKeys \subseteq sdpKeys',
           NEW w \in Workers, NEW s \in WorkerState,
           worker' = [worker EXCEPT ![w] = s],
           s.pc \in {"inflight", "mark"} => s.cur \in Rows,
           s.arrived => s.pc = "inflight" /\ <<s.cur, 0>> \in sdpKeys',
           s.outcome = "Submitted" => s.pc = "mark" /\ <<s.cur, 0>> \in sdpKeys'
    PROVE  WorkersOK'
<1>1. worker' \in [Workers -> WorkerState]
  BY DEF WorkersOK
<1>2. worker'[w] = s /\ \A v \in Workers \ {w} : worker'[v] = worker[v]
  BY DEF WorkersOK
<1> QED
  BY <1>1, <1>2 DEF WorkersOK, WorkerKnows

\* The worker goes back to an empty state.
LEMMA BackToFresh ==
    ASSUME WorkersOK, NEW w \in Workers, worker' = [worker EXCEPT ![w] = Fresh],
           sdpKeys' = sdpKeys
    PROVE  WorkersOK'
BY FreshTyped, OneWorkerMoves

\* The worker leaves its cycle.
LEMMA EndCycleMoves ==
    ASSUME WorkersOK, NEW w \in Workers, EndCycle(w), sdpKeys' = sdpKeys
    PROVE  WorkersOK'
<1> DEFINE s == [Fresh EXCEPT !.pc = "release", !.at = worker[w].at, !.holds = worker[w].holds]
<1>1. worker' = [worker EXCEPT ![w] = s]
  BY DEF EndCycle
<1>2. worker[w] \in WorkerState
  BY DEF WorkersOK
<1>3. s \in WorkerState /\ s.pc = "release" /\ ~s.arrived /\ s.outcome = "None"
  BY <1>2 DEF Fresh, WorkerState, PCs, Outcomes, NoRow, NoBatch
<1> HIDE DEF s
<1> QED
  BY <1>1, <1>3, OneWorkerMoves

\* The worker goes on to the next row of its chunk.
LEMMA NextRowMoves ==
    ASSUME WorkersOK, NEW w \in Workers, worker[w].pc = "mark", NextRow(w), sdpKeys' = sdpKeys
    PROVE  WorkersOK'
<1> DEFINE p == IF worker[w].todo = {} \/ worker[w].done + 1 = ChunkSize
                THEN "progress" ELSE "dispatch"
           d == IF worker[w].done + 1 = ChunkSize THEN 0 ELSE worker[w].done + 1
           s == [worker[w] EXCEPT !.pc = p, !.done = d, !.cur = NoRow, !.outcome = "None"]
<1>1. worker' = [worker EXCEPT ![w] = s]
  BY DEF NextRow, WorkersOK
<1>2. worker[w] \in WorkerState /\ ~worker[w].arrived
  BY DEF WorkersOK, WorkerKnows
<1>p. p \in {"progress", "dispatch"} /\ d \in Nat
  BY <1>2 DEF WorkerState
<1> HIDE DEF p, d
<1>3. s \in WorkerState
  BY <1>2, <1>p DEF WorkerState, PCs, Outcomes, NoRow
<1>4. s.pc = p /\ s.arrived = worker[w].arrived /\ s.outcome = "None"
  BY <1>2 DEF WorkerState
<1> HIDE DEF s
<1> QED
  BY <1>1, <1>2, <1>p, <1>3, <1>4, OneWorkerMoves

\* A counter that moves stays a number.
LEMMA OneMoreTyped ==
    ASSUME NEW c \in [Batches -> Nat], NEW b PROVE OneMore(c, b) \in [Batches -> Nat]
<1>1. CASE b \in Batches
  <2>1. c[b] + 1 \in Nat
    BY <1>1
  <2> QED
    BY <2>1 DEF OneMore
<1>2. CASE b \notin Batches
  BY <1>2 DEF OneMore
<1> QED
  BY <1>1, <1>2

\* The lease of a row ends.
LEMMA ReleaseRowTyped ==
    ASSUME TypeOK, NEW r \in Rows, ReleaseRow(r)
    PROVE  /\ attempts' \in [Rows -> Nat]
           /\ lockedBy' \in [Rows -> Workers \cup {NoWorker}]
           /\ stale' \subseteq Rows
BY DEF TypeOK, ReleaseRow

-----------------------------------------------------------------------------
(***************************************************************************)
(* One lemma per action.                                                   *)
(***************************************************************************)
\* CreateBatch keeps the invariant.
LEMMA CreateBatchKeepsInv ==
    ASSUME Inv, NEW b \in Batches, CreateBatch(b) PROVE Inv'
<1>0. WorkersOK
  BY DEF Inv, TypeOK, WorkersOK
<1>1. WorkersOK'
  BY <1>0 DEF WorkersOK, WorkerKnows, CreateBatch, sdpVars
<1>2. TypeOK'
  BY <1>1, ConfigAssumption, CountsAreNumbers
  DEF Inv, TypeOK, WorkersOK, HookHasBatch, CreateBatch, Open, Terminal,
      batchVars, rowVars, sdpVars
<1>3. OnePaymentPerKey'
  BY DEF Inv, TypeOK, WorkerKnows, OnePaymentPerKey, CreateBatch, sdpVars
<1>4. SuccessHasKey'
  BY AcceptedIsKey DEF Inv, TypeOK, WorkerKnows, SuccessHasKey, CreateBatch, rowVars, sdpVars
<1>5. HookHasBatch'
  BY DEF Inv, HookHasBatch, Batches, CreateBatch
<1> QED
  BY <1>1, <1>2, <1>3, <1>4, <1>5 DEF Inv, WorkersOK

\* InsertRow keeps the invariant.
LEMMA InsertRowKeepsInv ==
    ASSUME Inv, NEW r \in Rows, InsertRow(r) PROVE Inv'
<1>0. WorkersOK
  BY DEF Inv, TypeOK, WorkersOK
<1>1. WorkersOK'
  BY <1>0 DEF WorkersOK, WorkerKnows, InsertRow, sdpVars
<1>2. TypeOK'
  BY <1>1, ConfigAssumption, CountsAreNumbers
  DEF Inv, TypeOK, WorkersOK, HookHasBatch, InsertRow, Open, Terminal,
      batchVars, rowVars, sdpVars
<1>3. OnePaymentPerKey'
  BY DEF Inv, TypeOK, WorkerKnows, OnePaymentPerKey, InsertRow, sdpVars
<1>4. SuccessHasKey'
  BY AcceptedIsKey DEF Inv, TypeOK, WorkerKnows, SuccessHasKey, InsertRow, rowVars, sdpVars
<1>5. HookHasBatch'
  BY DEF Inv, HookHasBatch, Batches, InsertRow
<1> QED
  BY <1>1, <1>2, <1>3, <1>4, <1>5 DEF Inv, WorkersOK

\* UploadFails keeps the invariant.
LEMMA UploadFailsKeepsInv ==
    ASSUME Inv, NEW b \in Batches, UploadFails(b) PROVE Inv'
<1>0. WorkersOK
  BY DEF Inv, TypeOK, WorkersOK
<1>1. WorkersOK'
  BY <1>0 DEF WorkersOK, WorkerKnows, UploadFails, sdpVars
<1>2. TypeOK'
  BY <1>1, ConfigAssumption, CountsAreNumbers
  DEF Inv, TypeOK, WorkersOK, HookHasBatch, UploadFails, Open, Terminal,
      batchVars, rowVars, sdpVars
<1>3. OnePaymentPerKey'
  BY DEF Inv, TypeOK, WorkerKnows, OnePaymentPerKey, UploadFails, sdpVars
<1>4. SuccessHasKey'
  BY AcceptedIsKey DEF Inv, TypeOK, WorkerKnows, SuccessHasKey, UploadFails, rowVars, sdpVars
<1>5. HookHasBatch'
  BY DEF Inv, HookHasBatch, Batches, UploadFails
<1> QED
  BY <1>1, <1>2, <1>3, <1>4, <1>5 DEF Inv, WorkersOK

\* ReclaimStaleLeases keeps the invariant.
LEMMA ReclaimStaleLeasesKeepsInv ==
    ASSUME Inv, NEW w \in Workers, ReclaimStaleLeases(w) PROVE Inv'
<1>0. WorkersOK
  BY DEF Inv, TypeOK, WorkersOK
<1>1. WorkersOK'
  <2>k. sdpKeys' = sdpKeys
    BY DEF ReclaimStaleLeases, sdpVars
  <2> DEFINE s == [worker[w] EXCEPT !.pc = "poll"]
  <2>0. worker' = [worker EXCEPT ![w] = s]
    BY <1>0 DEF WorkersOK, ReclaimStaleLeases
  <2>1. worker[w] \in WorkerState
    BY <1>0 DEF WorkersOK
  <2>2. s \in WorkerState
    BY <2>1 DEF WorkerState, PCs, Outcomes, NoRow
  <2>3. s.arrived = worker[w].arrived /\ s.outcome = worker[w].outcome /\ s.pc = "poll"
    BY <2>1 DEF WorkerState
  <2>4. ~worker[w].arrived /\ worker[w].outcome # "Submitted"
    BY <1>0 DEF WorkersOK, WorkerKnows, ReclaimStaleLeases
  <2> HIDE DEF s
  <2> QED
    BY <1>0, <2>k, <2>0, <2>1, <2>2, <2>3, <2>4, OneWorkerMoves
<1>2. TypeOK'
  BY <1>1, ConfigAssumption, CountsAreNumbers
  DEF Inv, TypeOK, WorkersOK, HookHasBatch, ReclaimStaleLeases, Abandoned, Open, Terminal,
      batchVars, rowVars, sdpVars
<1>3. OnePaymentPerKey'
  BY DEF Inv, TypeOK, WorkerKnows, OnePaymentPerKey, ReclaimStaleLeases, Abandoned, sdpVars
<1>4. SuccessHasKey'
  BY AcceptedIsKey
  DEF Inv, TypeOK, WorkerKnows, SuccessHasKey, ReclaimStaleLeases, Abandoned, rowVars, sdpVars
<1>5. HookHasBatch'
  BY DEF Inv, HookHasBatch, Batches, ReclaimStaleLeases, Abandoned
<1> QED
  BY <1>1, <1>2, <1>3, <1>4, <1>5 DEF Inv, WorkersOK

\* ClaimNextBatch keeps the invariant.
LEMMA ClaimNextBatchKeepsInv ==
    ASSUME Inv, NEW w \in Workers, ClaimNextBatch(w) PROVE Inv'
<1>0. WorkersOK
  BY DEF Inv, TypeOK, WorkersOK
<1>1. WorkersOK'
  <2>k. sdpKeys' = sdpKeys
    BY DEF ClaimNextBatch, sdpVars
  <2>1. ASSUME NEW b \in Batches,
               worker' = [worker EXCEPT ![w].pc = IF UseRedis THEN "lock" ELSE "claim",
                                        ![w].at = b]
        PROVE  WorkersOK'
    <3> DEFINE s == [worker[w] EXCEPT !.pc = IF UseRedis THEN "lock" ELSE "claim", !.at = b]
    <3>0. worker' = [worker EXCEPT ![w] = s]
      BY <1>0, <2>1 DEF WorkersOK
    <3>1. worker[w] \in WorkerState
      BY <1>0 DEF WorkersOK
    <3>2. s \in WorkerState
      BY <3>1 DEF WorkerState, PCs
    <3>3. s.arrived = worker[w].arrived /\ s.outcome = worker[w].outcome
          /\ s.pc \in {"lock", "claim"}
      BY <3>1 DEF WorkerState
    <3>4. ~worker[w].arrived /\ worker[w].outcome # "Submitted"
      BY <1>0 DEF WorkersOK, WorkerKnows, ClaimNextBatch
    <3> HIDE DEF s
    <3> QED
      BY <1>0, <2>k, <3>0, <3>1, <3>2, <3>3, <3>4, OneWorkerMoves
  <2> QED
    BY <2>1, <1>0, <2>k, BackToFresh DEF ClaimNextBatch
<1>2. TypeOK'
  BY <1>1, ConfigAssumption, CountsAreNumbers
  DEF Inv, TypeOK, WorkersOK, HookHasBatch, ClaimNextBatch, Open, Terminal,
      batchVars, rowVars, sdpVars
<1>3. OnePaymentPerKey'
  BY DEF Inv, TypeOK, WorkerKnows, OnePaymentPerKey, ClaimNextBatch, sdpVars
<1>4. SuccessHasKey'
  BY AcceptedIsKey DEF Inv, TypeOK, WorkerKnows, SuccessHasKey, ClaimNextBatch, rowVars, sdpVars
<1>5. HookHasBatch'
  BY DEF Inv, HookHasBatch, Batches, ClaimNextBatch
<1> QED
  BY <1>1, <1>2, <1>3, <1>4, <1>5 DEF Inv, WorkersOK

\* AcquireLock keeps the invariant.
LEMMA AcquireLockKeepsInv ==
    ASSUME Inv, NEW w \in Workers, AcquireLock(w) PROVE Inv'
<1>0. WorkersOK
  BY DEF Inv, TypeOK, WorkersOK
<1>1. WorkersOK'
  <2>k. sdpKeys' = sdpKeys
    BY DEF AcquireLock, sdpVars
  <2>1. ASSUME worker' = [worker EXCEPT ![w].pc = "claim", ![w].holds = TRUE]
        PROVE  WorkersOK'
    <3> DEFINE s == [worker[w] EXCEPT !.pc = "claim", !.holds = TRUE]
    <3>0. worker' = [worker EXCEPT ![w] = s]
      BY <1>0, <2>1 DEF WorkersOK
    <3>1. worker[w] \in WorkerState
      BY <1>0 DEF WorkersOK
    <3>2. s \in WorkerState
      BY <3>1 DEF WorkerState, PCs
    <3>3. s.arrived = worker[w].arrived /\ s.outcome = worker[w].outcome /\ s.pc = "claim"
      BY <3>1 DEF WorkerState
    <3>4. ~worker[w].arrived /\ worker[w].outcome # "Submitted"
      BY <1>0 DEF WorkersOK, WorkerKnows, AcquireLock
    <3> HIDE DEF s
    <3> QED
      BY <1>0, <2>k, <3>0, <3>1, <3>2, <3>3, <3>4, OneWorkerMoves
  <2> QED
    BY <2>1, <1>0, <2>k, BackToFresh DEF AcquireLock
<1>2. TypeOK'
  BY <1>1, ConfigAssumption, CountsAreNumbers
  DEF Inv, TypeOK, WorkersOK, HookHasBatch, AcquireLock, Open, Terminal,
      batchVars, rowVars, sdpVars
<1>3. OnePaymentPerKey'
  BY DEF Inv, TypeOK, WorkerKnows, OnePaymentPerKey, AcquireLock, sdpVars
<1>4. SuccessHasKey'
  BY AcceptedIsKey DEF Inv, TypeOK, WorkerKnows, SuccessHasKey, AcquireLock, rowVars, sdpVars
<1>5. HookHasBatch'
  BY DEF Inv, HookHasBatch, Batches, AcquireLock
<1> QED
  BY <1>1, <1>2, <1>3, <1>4, <1>5 DEF Inv, WorkersOK

\* RedisError keeps the invariant.
LEMMA RedisErrorKeepsInv ==
    ASSUME Inv, NEW w \in Workers, RedisError(w) PROVE Inv'
<1>0. WorkersOK
  BY DEF Inv, TypeOK, WorkersOK
<1>1. WorkersOK'
  <2>k. sdpKeys' = sdpKeys
    BY DEF RedisError, sdpVars
  <2> DEFINE s == [worker[w] EXCEPT !.pc = "claim"]
  <2>0. worker' = [worker EXCEPT ![w] = s]
    BY <1>0 DEF WorkersOK, RedisError
  <2>1. worker[w] \in WorkerState
    BY <1>0 DEF WorkersOK
  <2>2. s \in WorkerState
    BY <2>1 DEF WorkerState, PCs, Outcomes, NoRow
  <2>3. s.arrived = worker[w].arrived /\ s.outcome = worker[w].outcome /\ s.pc = "claim"
    BY <2>1 DEF WorkerState
  <2>4. ~worker[w].arrived /\ worker[w].outcome # "Submitted"
    BY <1>0 DEF WorkersOK, WorkerKnows, RedisError
  <2> HIDE DEF s
  <2> QED
    BY <1>0, <2>k, <2>0, <2>1, <2>2, <2>3, <2>4, OneWorkerMoves
<1>2. TypeOK'
  BY <1>1, ConfigAssumption, CountsAreNumbers
  DEF Inv, TypeOK, WorkersOK, HookHasBatch, RedisError, Open, Terminal,
      batchVars, rowVars, sdpVars
<1>3. OnePaymentPerKey'
  BY DEF Inv, TypeOK, WorkerKnows, OnePaymentPerKey, RedisError, sdpVars
<1>4. SuccessHasKey'
  BY AcceptedIsKey DEF Inv, TypeOK, WorkerKnows, SuccessHasKey, RedisError, rowVars, sdpVars
<1>5. HookHasBatch'
  BY DEF Inv, HookHasBatch, Batches, RedisError
<1> QED
  BY <1>1, <1>2, <1>3, <1>4, <1>5 DEF Inv, WorkersOK

\* ClaimRecipients keeps the invariant.
LEMMA ClaimRecipientsKeepsInv ==
    ASSUME Inv, NEW w \in Workers, ClaimRecipients(w) PROVE Inv'
<1>0. WorkersOK
  BY DEF Inv, TypeOK, WorkersOK
<1>1. WorkersOK'
  <2>k. sdpKeys' = sdpKeys
    BY DEF ClaimRecipients, sdpVars
  <2> DEFINE claimed == OldestFew(Claimable(worker[w].at))
             s == [worker[w] EXCEPT
                      !.pc = IF claimed = {} THEN "finalize" ELSE "dispatch",
                      !.todo = claimed,
                      !.snap = [r \in Rows |-> IF r \in claimed THEN attempts[r] ELSE 0]]
  <2>0. worker' = [worker EXCEPT ![w] = s]
    BY <1>0 DEF WorkersOK, ClaimRecipients
  <2>1. worker[w] \in WorkerState
    BY <1>0 DEF WorkersOK
  <2>2. claimed \subseteq Rows
    BY DEF OldestFew, Claimable, RowsOf
  <2>3. attempts \in [Rows -> Nat]
    BY DEF Inv, TypeOK
  <2> HIDE DEF claimed
  <2>4. s \in WorkerState
    BY <2>1, <2>2, <2>3 DEF WorkerState, PCs
  <2>5. s.arrived = worker[w].arrived /\ s.outcome = worker[w].outcome
        /\ s.pc \in {"finalize", "dispatch"}
    BY <2>1 DEF WorkerState
  <2>6. ~worker[w].arrived /\ worker[w].outcome # "Submitted"
    BY <1>0 DEF WorkersOK, WorkerKnows, ClaimRecipients
  <2> HIDE DEF s
  <2> QED
    BY <1>0, <2>k, <2>0, <2>4, <2>5, <2>6, OneWorkerMoves
<1>2. TypeOK'
  BY <1>1, ConfigAssumption, CountsAreNumbers
  DEF Inv, TypeOK, WorkersOK, HookHasBatch, ClaimRecipients, Claimable, OldestFew, RowsOf, Open, Terminal,
      batchVars, rowVars, sdpVars
<1>3. OnePaymentPerKey'
  BY
  DEF Inv, TypeOK, WorkerKnows, OnePaymentPerKey, ClaimRecipients, Claimable, OldestFew, RowsOf, sdpVars
<1>4. SuccessHasKey'
  BY AcceptedIsKey
  DEF Inv, TypeOK, WorkerKnows, SuccessHasKey, ClaimRecipients, Claimable, OldestFew, RowsOf, rowVars, sdpVars
<1>5. HookHasBatch'
  BY DEF Inv, HookHasBatch, Batches, ClaimRecipients, Claimable, OldestFew, RowsOf
<1> QED
  BY <1>1, <1>2, <1>3, <1>4, <1>5 DEF Inv, WorkersOK

\* BeginDispatch keeps the invariant.
LEMMA BeginDispatchKeepsInv ==
    ASSUME Inv, NEW w \in Workers, BeginDispatch(w) PROVE Inv'
<1>0. WorkersOK
  BY DEF Inv, TypeOK, WorkersOK
<1>1. WorkersOK'
  <2>k. sdpKeys' = sdpKeys
    BY DEF BeginDispatch, sdpVars
  <2>1. PICK r \in worker[w].todo :
              worker' = [worker EXCEPT ![w].pc = "inflight", ![w].cur = r, ![w].todo = @ \ {r}]
    BY DEF BeginDispatch
  <2> DEFINE s == [worker[w] EXCEPT !.pc = "inflight", !.cur = r, !.todo = @ \ {r}]
  <2>2. worker' = [worker EXCEPT ![w] = s]
    BY <1>0, <2>1 DEF WorkersOK
  <2>3. worker[w] \in WorkerState
    BY <1>0 DEF WorkersOK
  <2>4. r \in Rows
    BY <2>3 DEF WorkerState
  <2>5. s \in WorkerState
    BY <2>3, <2>4 DEF WorkerState, PCs
  <2>6. s.arrived = worker[w].arrived /\ s.outcome = worker[w].outcome /\ s.cur = r
    BY <2>3 DEF WorkerState
  <2>7. ~worker[w].arrived /\ worker[w].outcome # "Submitted"
    BY <1>0 DEF WorkersOK, WorkerKnows, BeginDispatch
  <2> HIDE DEF s
  <2> QED
    BY <1>0, <2>k, <2>2, <2>4, <2>5, <2>6, <2>7, OneWorkerMoves
<1>d. dispatches' \in [Rows -> Nat]
  <2>1. PICK r : dispatches' = [dispatches EXCEPT ![r] = IF @ = DispatchCap THEN @ ELSE @ + 1]
    BY DEF BeginDispatch
  <2>2. dispatches \in [Rows -> Nat]
    BY DEF Inv, TypeOK
  <2>3. CASE r \in Rows
    <3>1. dispatches[r] \in Nat /\ dispatches[r] + 1 \in Nat
      BY <2>2, <2>3
    <3> QED
      BY <2>1, <2>2, <3>1
  <2>4. CASE r \notin Rows
    BY <2>1, <2>2, <2>4
  <2> QED
    BY <2>3, <2>4
<1>u. UNCHANGED <<batchVars, rowVars, batchLock, sdpVars, hook, faults, hooks>>
  BY DEF BeginDispatch
<1>2. TypeOK'
  BY <1>1, <1>d, <1>u
  DEF Inv, TypeOK, WorkersOK, batchVars, rowVars, sdpVars
<1>3. OnePaymentPerKey'
  BY DEF Inv, TypeOK, WorkerKnows, OnePaymentPerKey, BeginDispatch, DispatchCap, sdpVars
<1>4. SuccessHasKey'
  BY AcceptedIsKey
  DEF Inv, TypeOK, WorkerKnows, SuccessHasKey, BeginDispatch, DispatchCap, rowVars, sdpVars
<1>5. HookHasBatch'
  BY DEF Inv, HookHasBatch, Batches, BeginDispatch, DispatchCap
<1> QED
  BY <1>1, <1>2, <1>3, <1>4, <1>5 DEF Inv, WorkersOK

\* SdpAccepts keeps the invariant.
LEMMA SdpAcceptsKeepsInv ==
    ASSUME Inv, NEW w \in Workers, SdpAccepts(w) PROVE Inv'
<1>0. WorkersOK
  BY DEF Inv, TypeOK, WorkersOK
<1>1. WorkersOK'
  <2> DEFINE s == [worker[w] EXCEPT !.arrived = TRUE]
  <2>0. worker' = [worker EXCEPT ![w] = s]
    BY <1>0 DEF WorkersOK, SdpAccepts
  <2>1. worker[w] \in WorkerState
    BY <1>0 DEF WorkersOK
  <2>2. s \in WorkerState
    BY <2>1 DEF WorkerState
  <2>3. s.pc = worker[w].pc /\ s.cur = worker[w].cur /\ s.outcome = worker[w].outcome
    BY <2>1 DEF WorkerState
  <2>4. /\ worker[w].pc = "inflight" /\ worker[w].cur \in Rows
        /\ worker[w].outcome # "Submitted"
        /\ sdpKeys' = sdpKeys \cup {<<worker[w].cur, 0>>}
    BY <1>0 DEF WorkersOK, WorkerKnows, SdpAccepts, IdempotencyKey
  <2> HIDE DEF s
  <2> QED
    BY <1>0, <2>0, <2>2, <2>3, <2>4, OneWorkerMoves
<1>k. worker[w].cur \in Rows
  BY DEF Inv, WorkerKnows, SdpAccepts
<1>d. sdpKeys' \subseteq Rows \X Nat
  BY <1>k DEF Inv, TypeOK, SdpAccepts, IdempotencyKey
<1>p. payments' \in [Rows -> Nat]
  BY <1>k DEF Inv, TypeOK, SdpAccepts
<1>u. UNCHANGED <<batchVars, rowVars, batchLock, sdpFinal, hook, dispatches, faults, hooks>>
  BY DEF SdpAccepts
<1>2. TypeOK'
  BY <1>1, <1>d, <1>p, <1>u
  DEF Inv, TypeOK, WorkersOK, batchVars, rowVars, sdpVars
<1>3. OnePaymentPerKey'
  BY DEF Inv, TypeOK, WorkerKnows, OnePaymentPerKey, SdpAccepts, IdempotencyKey, sdpVars
<1>4. SuccessHasKey'
  BY AcceptedIsKey
  DEF Inv, TypeOK, WorkerKnows, SuccessHasKey, SdpAccepts, IdempotencyKey, rowVars, sdpVars
<1>5. HookHasBatch'
  BY DEF Inv, HookHasBatch, Batches, SdpAccepts, IdempotencyKey
<1> QED
  BY <1>1, <1>2, <1>3, <1>4, <1>5 DEF Inv, WorkersOK

\* EndDispatch keeps the invariant.
LEMMA EndDispatchKeepsInv ==
    ASSUME Inv, NEW w \in Workers, EndDispatch(w) PROVE Inv'
<1>0. WorkersOK
  BY DEF Inv, TypeOK, WorkersOK
<1>1. WorkersOK'
  <2>k. sdpKeys' = sdpKeys
    BY DEF EndDispatch, sdpVars
  <2>1. PICK o \in OutcomesOf(worker[w].arrived) :
              worker' = [worker EXCEPT ![w].pc = "mark", ![w].outcome = o, ![w].arrived = FALSE]
    BY DEF EndDispatch
  <2> DEFINE s == [worker[w] EXCEPT !.pc = "mark", !.outcome = o, !.arrived = FALSE]
  <2>2. worker' = [worker EXCEPT ![w] = s]
    BY <1>0, <2>1 DEF WorkersOK
  <2>3. worker[w] \in WorkerState
    BY <1>0 DEF WorkersOK
  <2>4. o \in Outcomes /\ (o = "Submitted" => worker[w].arrived)
    BY <2>3 DEF OutcomesOf, Outcomes
  <2>5. s \in WorkerState
    BY <2>3, <2>4 DEF WorkerState, PCs
  <2>6. s.pc = "mark" /\ ~s.arrived /\ s.outcome = o /\ s.cur = worker[w].cur
    BY <2>3 DEF WorkerState
  <2>7. worker[w].cur \in Rows /\ (worker[w].arrived => <<worker[w].cur, 0>> \in sdpKeys)
    BY <1>0 DEF WorkersOK, WorkerKnows, EndDispatch
  <2> HIDE DEF s
  <2> QED
    BY <1>0, <2>k, <2>2, <2>4, <2>5, <2>6, <2>7, OneWorkerMoves
<1>2. TypeOK'
  BY <1>1, ConfigAssumption, CountsAreNumbers
  DEF Inv, TypeOK, WorkersOK, HookHasBatch, EndDispatch, OutcomesOf, Open, Terminal,
      batchVars, rowVars, sdpVars
<1>3. OnePaymentPerKey'
  BY DEF Inv, TypeOK, WorkerKnows, OnePaymentPerKey, EndDispatch, OutcomesOf, sdpVars
<1>4. SuccessHasKey'
  BY AcceptedIsKey
  DEF Inv, TypeOK, WorkerKnows, SuccessHasKey, EndDispatch, OutcomesOf, rowVars, sdpVars
<1>5. HookHasBatch'
  BY DEF Inv, HookHasBatch, Batches, EndDispatch, OutcomesOf
<1> QED
  BY <1>1, <1>2, <1>3, <1>4, <1>5 DEF Inv, WorkersOK

\* MarkSubmitted keeps the invariant.
LEMMA MarkSubmittedKeepsInv ==
    ASSUME Inv, NEW w \in Workers, MarkSubmitted(w) PROVE Inv'
<1>0. WorkersOK
  BY DEF Inv, TypeOK, WorkersOK
<1>1. WorkersOK'
  <2>k. sdpKeys' = sdpKeys
    BY DEF MarkSubmitted, sdpVars
  <2> QED
    BY <1>0, <2>k, NextRowMoves DEF MarkSubmitted
<1>2. worker[w].cur \in Rows /\ worker[w].pc = "mark"
  BY DEF Inv, WorkerKnows, MarkSubmitted
<1>3. /\ attempts' \in [Rows -> Nat]
      /\ lockedBy' \in [Rows -> Workers \cup {NoWorker}]
      /\ stale' \subseteq Rows
  BY <1>2, ReleaseRowTyped DEF Inv, MarkSubmitted
<1>r. rowStatus' \in [Rows -> {"Absent", "PENDING", "SUBMITTED", "CONFIRMED", "FAILED"}]
  BY DEF Inv, TypeOK, MarkSubmitted
<1>c. succeeded' \in [Batches -> Nat]
  <2>1. succeeded' = OneMore(succeeded, worker[w].at)
    BY DEF MarkSubmitted
  <2>2. succeeded \in [Batches -> Nat]
    BY DEF Inv, TypeOK
  <2> QED
    BY <2>1, <2>2, OneMoreTyped
<1>u. UNCHANGED <<batchStatus, failed, uploading, batchLock, sdpVars, hook, dispatches,
                  faults, hooks>>
  BY DEF MarkSubmitted
<1>4. TypeOK'
  BY <1>1, <1>3, <1>r, <1>c, <1>u
  DEF Inv, TypeOK, WorkersOK, batchVars, rowVars, sdpVars
<1>5. OnePaymentPerKey'
  BY DEF Inv, TypeOK, WorkerKnows, OnePaymentPerKey, MarkSubmitted, OneMore, sdpVars
<1>6. SuccessHasKey'
  BY AcceptedIsKey
  DEF Inv, TypeOK, WorkerKnows, SuccessHasKey, MarkSubmitted, OneMore, rowVars, sdpVars
<1>7. HookHasBatch'
  BY DEF Inv, HookHasBatch, Batches, MarkSubmitted, OneMore
<1> QED
  BY <1>1, <1>4, <1>5, <1>6, <1>7 DEF Inv, WorkersOK

\* MarkRetry keeps the invariant.
LEMMA MarkRetryKeepsInv ==
    ASSUME Inv, NEW w \in Workers, MarkRetry(w) PROVE Inv'
<1>0. WorkersOK
  BY DEF Inv, TypeOK, WorkersOK
<1>1. WorkersOK'
  <2>k. sdpKeys' = sdpKeys
    BY DEF MarkRetry, sdpVars
  <2> QED
    BY <1>0, <2>k, NextRowMoves DEF MarkRetry
<1>2. worker[w].cur \in Rows /\ worker[w].pc = "mark"
  BY DEF Inv, WorkerKnows, MarkRetry
<1>3. /\ attempts' \in [Rows -> Nat]
      /\ lockedBy' \in [Rows -> Workers \cup {NoWorker}]
      /\ stale' \subseteq Rows
  BY <1>2, ReleaseRowTyped DEF Inv, MarkRetry
<1>4. TypeOK'
  BY <1>1, <1>2, <1>3, ConfigAssumption, CountsAreNumbers
  DEF Inv, TypeOK, WorkersOK, HookHasBatch, MarkRetry, Open, Terminal,
      batchVars, rowVars, sdpVars
<1>5. OnePaymentPerKey'
  BY DEF Inv, TypeOK, WorkerKnows, OnePaymentPerKey, MarkRetry, sdpVars
<1>6. SuccessHasKey'
  BY AcceptedIsKey DEF Inv, TypeOK, WorkerKnows, SuccessHasKey, MarkRetry, rowVars, sdpVars
<1>7. HookHasBatch'
  BY DEF Inv, HookHasBatch, Batches, MarkRetry
<1> QED
  BY <1>1, <1>4, <1>5, <1>6, <1>7 DEF Inv, WorkersOK

\* MarkFailed keeps the invariant.
LEMMA MarkFailedKeepsInv ==
    ASSUME Inv, NEW w \in Workers, MarkFailed(w) PROVE Inv'
<1>0. WorkersOK
  BY DEF Inv, TypeOK, WorkersOK
<1>1. WorkersOK'
  <2>k. sdpKeys' = sdpKeys
    BY DEF MarkFailed, sdpVars
  <2> QED
    BY <1>0, <2>k, NextRowMoves DEF MarkFailed
<1>2. worker[w].cur \in Rows /\ worker[w].pc = "mark"
  BY DEF Inv, WorkerKnows, MarkFailed
<1>3. /\ attempts' \in [Rows -> Nat]
      /\ lockedBy' \in [Rows -> Workers \cup {NoWorker}]
      /\ stale' \subseteq Rows
  BY <1>2, ReleaseRowTyped DEF Inv, MarkFailed
<1>r. rowStatus' \in [Rows -> {"Absent", "PENDING", "SUBMITTED", "CONFIRMED", "FAILED"}]
  BY DEF Inv, TypeOK, MarkFailed
<1>c. failed' \in [Batches -> Nat]
  <2>1. failed' = OneMore(failed, worker[w].at)
    BY DEF MarkFailed
  <2>2. failed \in [Batches -> Nat]
    BY DEF Inv, TypeOK
  <2> QED
    BY <2>1, <2>2, OneMoreTyped
<1>u. UNCHANGED <<batchStatus, succeeded, uploading, batchLock, sdpVars, hook, dispatches,
                  faults, hooks>>
  BY DEF MarkFailed
<1>4. TypeOK'
  BY <1>1, <1>3, <1>r, <1>c, <1>u
  DEF Inv, TypeOK, WorkersOK, batchVars, rowVars, sdpVars
<1>5. OnePaymentPerKey'
  BY DEF Inv, TypeOK, WorkerKnows, OnePaymentPerKey, MarkFailed, OneMore, sdpVars
<1>6. SuccessHasKey'
  BY AcceptedIsKey
  DEF Inv, TypeOK, WorkerKnows, SuccessHasKey, MarkFailed, OneMore, rowVars, sdpVars
<1>7. HookHasBatch'
  BY DEF Inv, HookHasBatch, Batches, MarkFailed, OneMore
<1> QED
  BY <1>1, <1>4, <1>5, <1>6, <1>7 DEF Inv, WorkersOK

\* MarkRejected keeps the invariant.
LEMMA MarkRejectedKeepsInv ==
    ASSUME Inv, NEW w \in Workers, MarkRejected(w) PROVE Inv'
<1>0. WorkersOK
  BY DEF Inv, TypeOK, WorkersOK
<1>1. WorkersOK'
  <2>k. sdpKeys' = sdpKeys
    BY DEF MarkRejected, sdpVars
  <2> QED
    BY <1>0, <2>k, EndCycleMoves DEF MarkRejected
<1>2. TypeOK'
  BY <1>1, ConfigAssumption, CountsAreNumbers
  DEF Inv, TypeOK, WorkersOK, HookHasBatch, MarkRejected, Open, Terminal,
      batchVars, rowVars, sdpVars
<1>3. OnePaymentPerKey'
  BY DEF Inv, TypeOK, WorkerKnows, OnePaymentPerKey, MarkRejected, sdpVars
<1>4. SuccessHasKey'
  BY AcceptedIsKey DEF Inv, TypeOK, WorkerKnows, SuccessHasKey, MarkRejected, rowVars, sdpVars
<1>5. HookHasBatch'
  BY DEF Inv, HookHasBatch, Batches, MarkRejected
<1> QED
  BY <1>1, <1>2, <1>3, <1>4, <1>5 DEF Inv, WorkersOK

\* RecordChunkProgress keeps the invariant.
LEMMA RecordChunkProgressKeepsInv ==
    ASSUME Inv, NEW w \in Workers, RecordChunkProgress(w) PROVE Inv'
<1>0. WorkersOK
  BY DEF Inv, TypeOK, WorkersOK
<1>1. WorkersOK'
  <2>k. sdpKeys' = sdpKeys
    BY DEF RecordChunkProgress, sdpVars
  <2>1. ASSUME worker' = [worker EXCEPT ![w].pc = IF worker[w].todo = {} THEN "finalize"
                                                  ELSE "dispatch"]
        PROVE  WorkersOK'
    <3> DEFINE s == [worker[w] EXCEPT !.pc = IF worker[w].todo = {} THEN "finalize" ELSE "dispatch"]
    <3>0. worker' = [worker EXCEPT ![w] = s]
      BY <1>0, <2>1 DEF WorkersOK
    <3>1. worker[w] \in WorkerState
      BY <1>0 DEF WorkersOK
    <3>2. s \in WorkerState
      BY <3>1 DEF WorkerState, PCs
    <3>3. s.arrived = worker[w].arrived /\ s.outcome = worker[w].outcome
          /\ s.pc \in {"finalize", "dispatch"}
      BY <3>1 DEF WorkerState
    <3>4. ~worker[w].arrived /\ worker[w].outcome # "Submitted"
      BY <1>0 DEF WorkersOK, WorkerKnows, RecordChunkProgress
    <3> HIDE DEF s
    <3> QED
      BY <1>0, <2>k, <3>0, <3>1, <3>2, <3>3, <3>4, OneWorkerMoves
  <2> QED
    BY <2>1, <1>0, <2>k, EndCycleMoves DEF RecordChunkProgress
<1>2. TypeOK'
  BY <1>1, ConfigAssumption, CountsAreNumbers
  DEF Inv, TypeOK, WorkersOK, HookHasBatch, RecordChunkProgress, Open, Terminal,
      batchVars, rowVars, sdpVars
<1>3. OnePaymentPerKey'
  BY DEF Inv, TypeOK, WorkerKnows, OnePaymentPerKey, RecordChunkProgress, sdpVars
<1>4. SuccessHasKey'
  BY AcceptedIsKey
  DEF Inv, TypeOK, WorkerKnows, SuccessHasKey, RecordChunkProgress, rowVars, sdpVars
<1>5. HookHasBatch'
  BY DEF Inv, HookHasBatch, Batches, RecordChunkProgress
<1> QED
  BY <1>1, <1>2, <1>3, <1>4, <1>5 DEF Inv, WorkersOK

\* FinalizeBatch keeps the invariant.
LEMMA FinalizeBatchKeepsInv ==
    ASSUME Inv, NEW w \in Workers, FinalizeBatch(w) PROVE Inv'
<1>0. WorkersOK
  BY DEF Inv, TypeOK, WorkersOK
<1>1. WorkersOK'
  <2>k. sdpKeys' = sdpKeys
    BY DEF FinalizeBatch, sdpVars
  <2> QED
    BY <1>0, <2>k, EndCycleMoves DEF FinalizeBatch
<1>2. TypeOK'
  BY <1>1, ConfigAssumption, CountsAreNumbers
  DEF Inv, TypeOK, WorkersOK, HookHasBatch, FinalizeBatch, SettledStatus, Open, Terminal,
      batchVars, rowVars, sdpVars
<1>3. OnePaymentPerKey'
  BY DEF Inv, TypeOK, WorkerKnows, OnePaymentPerKey, FinalizeBatch, SettledStatus, sdpVars
<1>4. SuccessHasKey'
  BY AcceptedIsKey
  DEF Inv, TypeOK, WorkerKnows, SuccessHasKey, FinalizeBatch, SettledStatus, rowVars, sdpVars
<1>5. HookHasBatch'
  BY DEF Inv, HookHasBatch, Batches, FinalizeBatch, SettledStatus
<1> QED
  BY <1>1, <1>2, <1>3, <1>4, <1>5 DEF Inv, WorkersOK

\* ReleaseLock keeps the invariant.
LEMMA ReleaseLockKeepsInv ==
    ASSUME Inv, NEW w \in Workers, ReleaseLock(w) PROVE Inv'
<1>0. WorkersOK
  BY DEF Inv, TypeOK, WorkersOK
<1>1. WorkersOK'
  <2>k. sdpKeys' = sdpKeys
    BY DEF ReleaseLock, sdpVars
  <2> QED
    BY <1>0, <2>k, BackToFresh DEF ReleaseLock
<1>2. TypeOK'
  BY <1>1, ConfigAssumption, CountsAreNumbers
  DEF Inv, TypeOK, WorkersOK, HookHasBatch, ReleaseLock, Open, Terminal,
      batchVars, rowVars, sdpVars
<1>3. OnePaymentPerKey'
  BY DEF Inv, TypeOK, WorkerKnows, OnePaymentPerKey, ReleaseLock, sdpVars
<1>4. SuccessHasKey'
  BY AcceptedIsKey DEF Inv, TypeOK, WorkerKnows, SuccessHasKey, ReleaseLock, rowVars, sdpVars
<1>5. HookHasBatch'
  BY DEF Inv, HookHasBatch, Batches, ReleaseLock
<1> QED
  BY <1>1, <1>2, <1>3, <1>4, <1>5 DEF Inv, WorkersOK

\* LockExpires keeps the invariant.
LEMMA LockExpiresKeepsInv ==
    ASSUME Inv, NEW b \in Batches, LockExpires(b) PROVE Inv'
<1>0. WorkersOK
  BY DEF Inv, TypeOK, WorkersOK
<1>1. WorkersOK'
  BY <1>0 DEF WorkersOK, WorkerKnows, LockExpires, sdpVars
<1>2. TypeOK'
  BY <1>1, ConfigAssumption, CountsAreNumbers
  DEF Inv, TypeOK, WorkersOK, HookHasBatch, LockExpires, Open, Terminal,
      batchVars, rowVars, sdpVars
<1>3. OnePaymentPerKey'
  BY DEF Inv, TypeOK, WorkerKnows, OnePaymentPerKey, LockExpires, sdpVars
<1>4. SuccessHasKey'
  BY AcceptedIsKey DEF Inv, TypeOK, WorkerKnows, SuccessHasKey, LockExpires, rowVars, sdpVars
<1>5. HookHasBatch'
  BY DEF Inv, HookHasBatch, Batches, LockExpires
<1> QED
  BY <1>1, <1>2, <1>3, <1>4, <1>5 DEF Inv, WorkersOK

\* LeaseTimesOut keeps the invariant.
LEMMA LeaseTimesOutKeepsInv ==
    ASSUME Inv, NEW w \in Workers, LeaseTimesOut(w) PROVE Inv'
<1>0. WorkersOK
  BY DEF Inv, TypeOK, WorkersOK
<1>1. WorkersOK'
  BY <1>0 DEF WorkersOK, WorkerKnows, LeaseTimesOut, sdpVars
<1>2. TypeOK'
  BY <1>1, ConfigAssumption, CountsAreNumbers
  DEF Inv, TypeOK, WorkersOK, HookHasBatch, LeaseTimesOut, Open, Terminal,
      batchVars, rowVars, sdpVars
<1>3. OnePaymentPerKey'
  BY DEF Inv, TypeOK, WorkerKnows, OnePaymentPerKey, LeaseTimesOut, sdpVars
<1>4. SuccessHasKey'
  BY AcceptedIsKey DEF Inv, TypeOK, WorkerKnows, SuccessHasKey, LeaseTimesOut, rowVars, sdpVars
<1>5. HookHasBatch'
  BY DEF Inv, HookHasBatch, Batches, LeaseTimesOut
<1> QED
  BY <1>1, <1>2, <1>3, <1>4, <1>5 DEF Inv, WorkersOK

\* Crash keeps the invariant.
LEMMA CrashKeepsInv ==
    ASSUME Inv, NEW w \in Workers, Crash(w) PROVE Inv'
<1>0. WorkersOK
  BY DEF Inv, TypeOK, WorkersOK
<1>1. WorkersOK'
  <2>k. sdpKeys' = sdpKeys
    BY DEF Crash, sdpVars
  <2> DEFINE s == [Fresh EXCEPT !.pc = "down"]
  <2>1. worker' = [worker EXCEPT ![w] = s]
    BY DEF Crash
  <2>2. s \in WorkerState /\ s.pc = "down" /\ ~s.arrived /\ s.outcome = "None"
    BY DEF WorkerState, PCs, Outcomes, Fresh, NoRow, NoBatch
  <2> HIDE DEF s
  <2> QED
    BY <1>0, <2>k, <2>1, <2>2, OneWorkerMoves
<1>2. TypeOK'
  BY <1>1, ConfigAssumption, CountsAreNumbers
  DEF Inv, TypeOK, WorkersOK, HookHasBatch, Crash, Open, Terminal,
      batchVars, rowVars, sdpVars
<1>3. OnePaymentPerKey'
  BY DEF Inv, TypeOK, WorkerKnows, OnePaymentPerKey, Crash, sdpVars
<1>4. SuccessHasKey'
  BY AcceptedIsKey DEF Inv, TypeOK, WorkerKnows, SuccessHasKey, Crash, rowVars, sdpVars
<1>5. HookHasBatch'
  BY DEF Inv, HookHasBatch, Batches, Crash
<1> QED
  BY <1>1, <1>2, <1>3, <1>4, <1>5 DEF Inv, WorkersOK

\* Restart keeps the invariant.
LEMMA RestartKeepsInv ==
    ASSUME Inv, NEW w \in Workers, Restart(w) PROVE Inv'
<1>0. WorkersOK
  BY DEF Inv, TypeOK, WorkersOK
<1>1. WorkersOK'
  <2>k. sdpKeys' = sdpKeys
    BY DEF Restart, sdpVars
  <2> QED
    BY <1>0, <2>k, BackToFresh DEF Restart
<1>2. TypeOK'
  BY <1>1, ConfigAssumption, CountsAreNumbers
  DEF Inv, TypeOK, WorkersOK, HookHasBatch, Restart, Open, Terminal,
      batchVars, rowVars, sdpVars
<1>3. OnePaymentPerKey'
  BY DEF Inv, TypeOK, WorkerKnows, OnePaymentPerKey, Restart, sdpVars
<1>4. SuccessHasKey'
  BY AcceptedIsKey DEF Inv, TypeOK, WorkerKnows, SuccessHasKey, Restart, rowVars, sdpVars
<1>5. HookHasBatch'
  BY DEF Inv, HookHasBatch, Batches, Restart
<1> QED
  BY <1>1, <1>2, <1>3, <1>4, <1>5 DEF Inv, WorkersOK

\* DbError keeps the invariant.
LEMMA DbErrorKeepsInv ==
    ASSUME Inv, NEW w \in Workers, DbError(w) PROVE Inv'
<1>0. WorkersOK
  BY DEF Inv, TypeOK, WorkersOK
<1>1. WorkersOK'
  <2>k. sdpKeys' = sdpKeys
    BY DEF DbError, sdpVars
  <2> QED
    BY <1>0, <2>k, EndCycleMoves DEF DbError
<1>2. TypeOK'
  BY <1>1, ConfigAssumption, CountsAreNumbers
  DEF Inv, TypeOK, WorkersOK, HookHasBatch, DbError, Open, Terminal,
      batchVars, rowVars, sdpVars
<1>3. OnePaymentPerKey'
  BY DEF Inv, TypeOK, WorkerKnows, OnePaymentPerKey, DbError, sdpVars
<1>4. SuccessHasKey'
  BY AcceptedIsKey DEF Inv, TypeOK, WorkerKnows, SuccessHasKey, DbError, rowVars, sdpVars
<1>5. HookHasBatch'
  BY DEF Inv, HookHasBatch, Batches, DbError
<1> QED
  BY <1>1, <1>2, <1>3, <1>4, <1>5 DEF Inv, WorkersOK

\* SdpSettles keeps the invariant.
LEMMA SdpSettlesKeepsInv ==
    ASSUME Inv, NEW r \in Rows, SdpSettles(r) PROVE Inv'
<1>0. WorkersOK
  BY DEF Inv, TypeOK, WorkersOK
<1>1. WorkersOK'
  BY <1>0 DEF WorkersOK, WorkerKnows, SdpSettles, sdpVars
<1>2. TypeOK'
  BY <1>1, ConfigAssumption, CountsAreNumbers
  DEF Inv, TypeOK, WorkersOK, HookHasBatch, SdpSettles, Accepted, Open, Terminal,
      batchVars, rowVars, sdpVars
<1>3. OnePaymentPerKey'
  BY DEF Inv, TypeOK, WorkerKnows, OnePaymentPerKey, SdpSettles, Accepted, sdpVars
<1>4. SuccessHasKey'
  BY AcceptedIsKey
  DEF Inv, TypeOK, WorkerKnows, SuccessHasKey, SdpSettles, Accepted, rowVars, sdpVars
<1>5. HookHasBatch'
  BY DEF Inv, HookHasBatch, Batches, SdpSettles, Accepted
<1> QED
  BY <1>1, <1>2, <1>3, <1>4, <1>5 DEF Inv, WorkersOK

\* WebhookUpdate keeps the invariant.
LEMMA WebhookUpdateKeepsInv ==
    ASSUME Inv, NEW r \in Rows, WebhookUpdate(r) PROVE Inv'
<1>0. WorkersOK
  BY DEF Inv, TypeOK, WorkersOK
<1>1. WorkersOK'
  BY <1>0 DEF WorkersOK, WorkerKnows, WebhookUpdate, sdpVars
<1>r. rowStatus' \in [Rows -> {"Absent", "PENDING", "SUBMITTED", "CONFIRMED", "FAILED"}]
  <2>1. Reportable(r) \subseteq {"PENDING", "SUBMITTED", "CONFIRMED", "FAILED"}
    BY ConfigAssumption DEF Inv, TypeOK, Reportable
  <2> QED
    BY <2>1 DEF Inv, TypeOK, WebhookUpdate
<1>h. hook' \in [pc : {"idle", "recount", "settle"}, at : Batches \cup {NoBatch}]
  BY DEF WebhookUpdate, Batches
<1>n. hooks' \in 0..MaxHooks
  BY ConfigAssumption DEF Inv, TypeOK, WebhookUpdate
<1>u. UNCHANGED <<batchVars, attempts, lockedBy, stale, worker, batchLock, sdpVars,
                  dispatches, faults>>
  BY DEF WebhookUpdate
<1>2. TypeOK'
  BY <1>1, <1>r, <1>h, <1>n, <1>u
  DEF Inv, TypeOK, WorkersOK, batchVars, rowVars, sdpVars
<1>3. OnePaymentPerKey'
  BY DEF Inv, TypeOK, WorkerKnows, OnePaymentPerKey, WebhookUpdate, Reportable, sdpVars
<1>4. SuccessHasKey'
  BY AcceptedIsKey
  DEF Inv, TypeOK, WorkerKnows, SuccessHasKey, WebhookUpdate, Reportable, rowVars, sdpVars
<1>5. HookHasBatch'
  BY DEF Inv, HookHasBatch, Batches, WebhookUpdate, Reportable
<1> QED
  BY <1>1, <1>2, <1>3, <1>4, <1>5 DEF Inv, WorkersOK

\* WebhookRecount keeps the invariant.
LEMMA WebhookRecountKeepsInv ==
    ASSUME Inv, WebhookRecount PROVE Inv'
<1>0. WorkersOK
  BY DEF Inv, TypeOK, WorkersOK
<1>1. WorkersOK'
  BY <1>0 DEF WorkersOK, WorkerKnows, WebhookRecount, sdpVars
<1>2. TypeOK'
  BY <1>1, ConfigAssumption, CountsAreNumbers
  DEF Inv, TypeOK, WorkersOK, HookHasBatch, WebhookRecount, Open, Terminal,
      batchVars, rowVars, sdpVars
<1>3. OnePaymentPerKey'
  BY DEF Inv, TypeOK, WorkerKnows, OnePaymentPerKey, WebhookRecount, sdpVars
<1>4. SuccessHasKey'
  BY AcceptedIsKey DEF Inv, TypeOK, WorkerKnows, SuccessHasKey, WebhookRecount, rowVars, sdpVars
<1>5. HookHasBatch'
  BY DEF Inv, HookHasBatch, Batches, WebhookRecount
<1> QED
  BY <1>1, <1>2, <1>3, <1>4, <1>5 DEF Inv, WorkersOK

\* WebhookSettle keeps the invariant.
LEMMA WebhookSettleKeepsInv ==
    ASSUME Inv, WebhookSettle PROVE Inv'
<1>0. WorkersOK
  BY DEF Inv, TypeOK, WorkersOK
<1>1. WorkersOK'
  BY <1>0 DEF WorkersOK, WorkerKnows, WebhookSettle, sdpVars
<1>2. TypeOK'
  BY <1>1, ConfigAssumption, CountsAreNumbers
  DEF Inv, TypeOK, WorkersOK, HookHasBatch, WebhookSettle, Open, Terminal,
      batchVars, rowVars, sdpVars
<1>3. OnePaymentPerKey'
  BY DEF Inv, TypeOK, WorkerKnows, OnePaymentPerKey, WebhookSettle, sdpVars
<1>4. SuccessHasKey'
  BY AcceptedIsKey DEF Inv, TypeOK, WorkerKnows, SuccessHasKey, WebhookSettle, rowVars, sdpVars
<1>5. HookHasBatch'
  BY DEF Inv, HookHasBatch, Batches, WebhookSettle
<1> QED
  BY <1>1, <1>2, <1>3, <1>4, <1>5 DEF Inv, WorkersOK

\* WebhookFails keeps the invariant.
LEMMA WebhookFailsKeepsInv ==
    ASSUME Inv, WebhookFails PROVE Inv'
<1>0. WorkersOK
  BY DEF Inv, TypeOK, WorkersOK
<1>1. WorkersOK'
  BY <1>0 DEF WorkersOK, WorkerKnows, WebhookFails, sdpVars
<1>2. TypeOK'
  BY <1>1, ConfigAssumption, CountsAreNumbers
  DEF Inv, TypeOK, WorkersOK, HookHasBatch, WebhookFails, Open, Terminal,
      batchVars, rowVars, sdpVars
<1>3. OnePaymentPerKey'
  BY DEF Inv, TypeOK, WorkerKnows, OnePaymentPerKey, WebhookFails, sdpVars
<1>4. SuccessHasKey'
  BY AcceptedIsKey DEF Inv, TypeOK, WorkerKnows, SuccessHasKey, WebhookFails, rowVars, sdpVars
<1>5. HookHasBatch'
  <2>1. hook \in [pc : {"idle", "recount", "settle"}, at : Batches \cup {NoBatch}]
    BY DEF Inv, TypeOK
  <2>2. hook'.pc = "idle" \/ hook'.at = hook.at
    BY <2>1 DEF WebhookFails
  <2> QED
    BY <2>2 DEF Inv, HookHasBatch, WebhookFails
<1> QED
  BY <1>1, <1>2, <1>3, <1>4, <1>5 DEF Inv, WorkersOK

-----------------------------------------------------------------------------
\* The invariant is inductive: it holds initially and every step of every
\* process, of SDP and of the environment keeps it.
LEMMA InvInductive ==
    /\ Init => Inv
    /\ Inv /\ [Next]_vars => Inv'
<1>1. Init => Inv
  <2> SUFFICES ASSUME Init PROVE Inv
    OBVIOUS
  <2>1. TypeOK
    BY FreshTyped, ConfigAssumption DEF Init, TypeOK, Open
  <2>2. WorkerKnows
    BY FreshTyped DEF Init, WorkerKnows
  <2>3. OnePaymentPerKey /\ SuccessHasKey /\ HookHasBatch
    BY DEF Init, OnePaymentPerKey, SuccessHasKey, HookHasBatch
  <2> QED
    BY <2>1, <2>2, <2>3 DEF Inv
<1>2. Inv /\ UNCHANGED vars => Inv'
  BY DEF Inv, TypeOK, WorkerKnows, OnePaymentPerKey, SuccessHasKey, HookHasBatch, vars,
         batchVars, rowVars, sdpVars
<1>3. Inv /\ Upload => Inv'
  BY CreateBatchKeepsInv, InsertRowKeepsInv, UploadFailsKeepsInv DEF Upload
<1>4. ASSUME Inv, NEW w \in Workers, WorkerStep(w) PROVE Inv'
  BY <1>4, ReclaimStaleLeasesKeepsInv, ClaimNextBatchKeepsInv, AcquireLockKeepsInv,
     ClaimRecipientsKeepsInv, BeginDispatchKeepsInv, EndDispatchKeepsInv,
     MarkSubmittedKeepsInv, MarkRetryKeepsInv, MarkFailedKeepsInv, MarkRejectedKeepsInv,
     RecordChunkProgressKeepsInv, FinalizeBatchKeepsInv, ReleaseLockKeepsInv, RestartKeepsInv
  DEF WorkerStep
<1>5. Inv /\ Webhook => Inv'
  BY WebhookRecountKeepsInv, WebhookSettleKeepsInv DEF Webhook
<1>6. Inv /\ Environment => Inv'
  BY SdpAcceptsKeepsInv, LeaseTimesOutKeepsInv, RedisErrorKeepsInv, CrashKeepsInv,
     DbErrorKeepsInv, LockExpiresKeepsInv, SdpSettlesKeepsInv, WebhookUpdateKeepsInv,
     WebhookFailsKeepsInv DEF Environment
<1> QED
  BY <1>1, <1>2, <1>3, <1>4, <1>5, <1>6 DEF Next

\* The inductive invariant holds in every reachable state.
THEOREM InvAlways == Spec => []Inv
BY InvInductive, PTL DEF Spec

\* Every column and every local variable keeps its type, for any number of
\* workers, rows and faults.
THEOREM TypeCorrect == Spec => []TypeOK
<1>1. Inv => TypeOK
  BY DEF Inv
<1> QED
  BY <1>1, InvAlways, PTL

\* Nobody is paid twice: the key of idempotency_key_for is the same for every
\* attempt and every worker, so re-leased rows, retries after lost answers and
\* concurrent dispatches all end in at most one payment.
THEOREM NobodyPaidTwice == Spec => []PaidAtMostOnce
<1>1. Inv => PaidAtMostOnce
  <2> SUFFICES ASSUME Inv, NEW r \in Rows PROVE payments[r] <= 1
    BY DEF PaidAtMostOnce
  <2>1. payments[r] = 0 \/ payments[r] = 1
    BY DEF Inv, OnePaymentPerKey
  <2> QED
    BY <2>1
<1> QED
  BY <1>1, InvAlways, PTL

\* A row shows SUBMITTED or CONFIRMED only if SDP took its payment: no path of
\* dispatch_one, mark_* or the webhook invents a success.
THEOREM ShownAlwaysAccepted == Spec => []ShownMeansAccepted
<1>1. Inv => ShownMeansAccepted
  BY AcceptedIsKey DEF Inv, SuccessHasKey, ShownMeansAccepted
<1> QED
  BY <1>1, InvAlways, PTL

\* claim_next_batch, finalize_batch and the webhook never reopen or relabel a
\* settled batch: each of their UPDATEs names the open statuses it applies to.
THEOREM SettledStaysSettled == Spec => SettledIsFinal
<1> DEFINE Kept == \A b \in Batches : batchStatus[b] \in Terminal => batchStatus'[b] = batchStatus[b]
<1>1. ASSUME Inv, Next PROVE Kept
  <2>0. batchStatus \in [Batches -> {"Absent"} \cup Open \cup Terminal]
    BY <1>1 DEF Inv, TypeOK
  <2>1. ASSUME NEW b \in Batches, CreateBatch(b) PROVE Kept
    BY <2>0, <2>1 DEF CreateBatch, Terminal
  <2>2. ASSUME NEW w \in Workers, ClaimNextBatch(w) PROVE Kept
    <3>1. \/ batchStatus' = batchStatus
          \/ \E b \in Batches : /\ batchStatus[b] \in Open
                                /\ batchStatus' = [batchStatus EXCEPT ![b] = "PROCESSING"]
      BY <2>2 DEF ClaimNextBatch
    <3> QED
      BY <2>0, <3>1 DEF Open, Terminal
  <2>3. ASSUME NEW w \in Workers, FinalizeBatch(w) PROVE Kept
    <3>1. \/ batchStatus' = batchStatus
          \/ \E b, v : /\ batchStatus[b] = "PROCESSING"
                       /\ batchStatus' = [batchStatus EXCEPT ![b] = v]
      BY <2>3 DEF FinalizeBatch, MayFinalize
    <3> QED
      BY <2>0, <3>1 DEF Terminal
  <2>4. ASSUME WebhookSettle PROVE Kept
    <3>1. \/ batchStatus' = batchStatus
          \/ \E b, v : /\ batchStatus[b] \in Open
                       /\ batchStatus' = [batchStatus EXCEPT ![b] = v]
      BY <2>4 DEF WebhookSettle
    <3> QED
      BY <2>0, <3>1 DEF Open, Terminal
  <2>5. ASSUME NEW b \in Batches, UploadFails(b) \/ LockExpires(b) PROVE Kept
    BY <2>5 DEF UploadFails, LockExpires, batchVars
  <2>6. ASSUME NEW r \in Rows, InsertRow(r) \/ SdpSettles(r) \/ WebhookUpdate(r) PROVE Kept
    BY <2>6 DEF InsertRow, SdpSettles, WebhookUpdate, batchVars
  <2>7. ASSUME NEW w \in Workers,
               \/ ReclaimStaleLeases(w) \/ AcquireLock(w) \/ ClaimRecipients(w)
               \/ BeginDispatch(w) \/ EndDispatch(w) \/ MarkSubmitted(w) \/ MarkRetry(w)
               \/ MarkFailed(w) \/ MarkRejected(w) \/ RecordChunkProgress(w)
               \/ ReleaseLock(w) \/ Restart(w)
        PROVE  Kept
    BY <2>7 DEF ReclaimStaleLeases, AcquireLock, ClaimRecipients, BeginDispatch, EndDispatch,
                MarkSubmitted, MarkRetry, MarkFailed, MarkRejected, RecordChunkProgress,
                ReleaseLock, Restart, batchVars
  <2>8. ASSUME NEW w \in Workers,
               \/ SdpAccepts(w) \/ LeaseTimesOut(w) \/ RedisError(w) \/ Crash(w) \/ DbError(w)
        PROVE  Kept
    BY <2>8 DEF SdpAccepts, LeaseTimesOut, RedisError, Crash, DbError, batchVars
  <2>9. ASSUME WebhookRecount \/ WebhookFails PROVE Kept
    BY <2>9 DEF WebhookRecount, WebhookFails, batchVars
  <2> HIDE DEF Kept
  <2> QED
    BY <1>1, <2>1, <2>2, <2>3, <2>4, <2>5, <2>6, <2>7, <2>8, <2>9
    DEF Next, Upload, WorkerStep, Webhook, Environment
<1>2. Inv /\ [Next]_vars => [Kept]_vars
  BY <1>1 DEF vars
<1> QED
  BY <1>2, InvAlways, PTL DEF Spec, SettledIsFinal

-----------------------------------------------------------------------------
(***************************************************************************)
(* Timely leases.  While no callback arrives and no live worker outlasts   *)
(* its lease, a row in a worker's hands is leased to it, PENDING, of the   *)
(* batch the worker is at, and as often attempted as the worker noted when *)
(* it claimed the row.  The counters and the bound on retries rest on it.  *)
(***************************************************************************)
HandOK(s, w) ==
    /\ s.cur \notin s.todo
    /\ s.cur # NoRow => s.pc \in {"inflight", "mark"}
    /\ s.pc \in {"idle", "poll", "lock"} => s.todo = {}
    /\ \A r \in Rows : r \in s.todo \/ r = s.cur =>
          /\ lockedBy[r] = w /\ r \notin stale
          /\ rowStatus[r] = "PENDING" /\ BatchOf[r] = s.at
          /\ s.snap[r] = attempts[r]

LeasesHold == \A w \in Workers : HandOK(worker[w], w)

\* A request for the row is out and its answer is not counted yet.
Flying(r) == \E w \in Workers : worker[w].cur = r

AttemptsCount ==
    \A r \in Rows :
        /\ attempts[r] <= MaxAttempts
        /\ rowStatus[r] \in {"Absent", "PENDING"} => attempts[r] < MaxAttempts
        /\ dispatches[r] <= attempts[r] + faults + IF Flying(r) THEN 1 ELSE 0

LeaseInv == Inv /\ LeasesHold /\ AttemptsCount /\ CountersMatchRows /\ hook.pc = "idle"

Timely == TimelyLeases /\ MaxHooks = 0

\* One worker moves to a state whose hand is in order; no row changes.
LEMMA HandMoves ==
    ASSUME LeasesHold, worker \in [Workers -> WorkerState], NEW w \in Workers, NEW s,
           worker' = [worker EXCEPT ![w] = s], HandOK(s, w), UNCHANGED rowVars
    PROVE  LeasesHold'
<1>1. worker'[w] = s /\ \A v \in Workers \ {w} : worker'[v] = worker[v]
  OBVIOUS
<1>2. UNCHANGED <<rowStatus, attempts, lockedBy, stale>>
  BY DEF rowVars
<1> QED
  BY <1>1, <1>2 DEF LeasesHold, HandOK

LEMMA EmptyHand ==
    ASSUME NEW s, NEW w, s.todo = {}, s.cur = NoRow PROVE HandOK(s, w)
BY ConfigAssumption DEF HandOK

LEMMA SameHand ==
    ASSUME NEW s, NEW t, NEW w, HandOK(t, w), s.todo = t.todo, s.cur = t.cur, s.at = t.at, s.snap = t.snap,
           t.cur # NoRow => s.pc \in {"inflight", "mark"},
           s.pc \in {"idle", "poll", "lock"} => t.todo = {}
    PROVE  HandOK(s, w)
BY DEF HandOK

\* A dispatch that is forgotten is paid for with a fault.
LEMMA AttemptsStay ==
    ASSUME Inv, AttemptsCount, UNCHANGED <<rowStatus, attempts, dispatches>>, faults' \in Nat,
           \/ faults' = faults + 1
           \/ faults' = faults /\ \A r \in Rows : Flying(r) => Flying(r)'
    PROVE  AttemptsCount'
<1>0. attempts \in [Rows -> Nat] /\ dispatches \in [Rows -> Nat] /\ faults \in Nat
  BY DEF Inv, TypeOK
<1> SUFFICES ASSUME NEW r \in Rows
             PROVE  dispatches[r] <= attempts[r] + faults' + IF Flying(r)' THEN 1 ELSE 0
  BY DEF AttemptsCount
<1>1. dispatches[r] <= attempts[r] + faults + IF Flying(r) THEN 1 ELSE 0
  BY DEF AttemptsCount
<1>2. attempts[r] \in Nat /\ dispatches[r] \in Nat
  BY <1>0
<1> QED
  BY <1>0, <1>1, <1>2

LEMMA CountersStay ==
    ASSUME CountersMatchRows, UNCHANGED <<succeeded, failed, rowStatus>>
    PROVE  CountersMatchRows'
BY DEF CountersMatchRows, InStatus, RowsOf

\* A step of one worker between two rows: hands in order, nothing written.
LEMMA WorkerMoves ==
    ASSUME LeaseInv, Inv', NEW w \in Workers, NEW s, worker' = [worker EXCEPT ![w] = s], HandOK(s, w),
           UNCHANGED <<rowVars, succeeded, failed, dispatches, hook>>,
           \/ faults' = faults + 1
           \/ faults' = faults /\ (worker[w].cur = NoRow \/ s.cur = worker[w].cur)
    PROVE  LeaseInv'
<1>0. worker \in [Workers -> WorkerState] /\ faults \in Nat /\ faults' \in Nat
  BY DEF LeaseInv, Inv, TypeOK
<1>1. LeasesHold'
  BY <1>0, HandMoves DEF LeaseInv
<1>2. worker'[w] = s /\ \A v \in Workers \ {w} : worker'[v] = worker[v]
  BY <1>0
<1>3. ASSUME NEW r \in Rows, Flying(r), faults' = faults PROVE Flying(r)'
  <2>1. worker[w].cur = NoRow \/ s.cur = worker[w].cur
    BY <1>0, <1>3
  <2>2. r # NoRow
    BY ConfigAssumption
  <2>3. PICK v \in Workers : worker[v].cur = r
    BY <1>3 DEF Flying
  <2>4. worker'[v].cur = r
    BY <1>2, <2>1, <2>2, <2>3
  <2> QED
    BY <2>4 DEF Flying
<1>4. AttemptsCount'
  BY <1>0, <1>3, AttemptsStay DEF LeaseInv, rowVars
<1>5. CountersMatchRows'
  BY CountersStay DEF LeaseInv, rowVars
<1> QED
  BY <1>1, <1>4, <1>5 DEF LeaseInv

\* Nothing the leases are about changes.
LEMMA OthersMove ==
    ASSUME LeaseInv, Inv', UNCHANGED <<worker, rowVars, succeeded, failed, dispatches, hook>>,
           faults' \in {faults, faults + 1}
    PROVE  LeaseInv'
<1>0. faults' \in Nat
  BY DEF Inv, TypeOK
<1>1. LeasesHold'
  BY DEF LeaseInv, LeasesHold, HandOK, rowVars
<1>2. AttemptsCount'
  BY <1>0, AttemptsStay DEF LeaseInv, rowVars, Flying
<1>3. CountersMatchRows'
  BY CountersStay DEF LeaseInv, rowVars
<1> QED
  BY <1>1, <1>2, <1>3 DEF LeaseInv

-----------------------------------------------------------------------------
\* The worker leaves its cycle with empty hands.
LEMMA EndCycleHand ==
    ASSUME LeaseInv, Inv', NEW w \in Workers, EndCycle(w),
           UNCHANGED <<rowVars, succeeded, failed, dispatches, hook>>,
           faults' = faults + 1 \/ (faults' = faults /\ worker[w].cur = NoRow)
    PROVE  LeaseInv'
<1> DEFINE s == [Fresh EXCEPT !.pc = "release", !.at = worker[w].at, !.holds = worker[w].holds]
<1>1. worker' = [worker EXCEPT ![w] = s]
  BY DEF EndCycle
<1>2. s.todo = {} /\ s.cur = NoRow
  BY DEF Fresh
<1> HIDE DEF s
<1>3. HandOK(s, w)
  BY <1>2, EmptyHand
<1> QED
  BY <1>1, <1>3, WorkerMoves

LEMMA FreshHand ==
    ASSUME LeaseInv, Inv', NEW w \in Workers, worker' = [worker EXCEPT ![w] = Fresh], worker[w].cur = NoRow,
           UNCHANGED <<rowVars, succeeded, failed, dispatches, hook, faults>>
    PROVE  LeaseInv'
<1>1. HandOK(Fresh, w)
  BY EmptyHand DEF Fresh
<1> QED
  BY <1>1, WorkerMoves

\* Between dispatches no request is out.
LEMMA NothingOut ==
    ASSUME LeaseInv, NEW w \in Workers, worker[w].pc \notin {"inflight", "mark"}
    PROVE  worker[w].cur = NoRow
BY DEF LeaseInv, LeasesHold, HandOK

LEMMA UploadKeepsLeases == ASSUME LeaseInv, Inv', Upload PROVE LeaseInv'
<1>1. ASSUME NEW b \in Batches, CreateBatch(b) PROVE LeaseInv'
  BY <1>1, OthersMove DEF CreateBatch
<1>2. ASSUME NEW b \in Batches, UploadFails(b) PROVE LeaseInv'
  BY <1>2, OthersMove DEF UploadFails
<1>3. ASSUME NEW r \in Rows, InsertRow(r) PROVE LeaseInv'
  <2>1. /\ rowStatus[r] = "Absent" /\ rowStatus' = [rowStatus EXCEPT ![r] = "PENDING"]
        /\ UNCHANGED <<succeeded, failed, attempts, lockedBy, stale, worker, dispatches, faults, hook>>
    BY <1>3 DEF InsertRow
  <2>2. rowStatus \in [Rows -> {"Absent", "PENDING", "SUBMITTED", "CONFIRMED", "FAILED"}]
    BY DEF LeaseInv, Inv, TypeOK
  <2>3. LeasesHold'
    BY <2>1, <2>2 DEF LeaseInv, LeasesHold, HandOK
  <2>4. AttemptsCount'
    BY <2>1, <2>2 DEF LeaseInv, AttemptsCount, Flying
  <2>5. \A q \in Rows, st \in {"SUBMITTED", "CONFIRMED", "FAILED"} : rowStatus'[q] = st <=> rowStatus[q] = st
    BY <2>1, <2>2
  <2>6. CountersMatchRows'
    <3>1. \A b \in Batches, st \in {"SUBMITTED", "CONFIRMED", "FAILED"} :
            {q \in RowsOf(b) : rowStatus'[q] = st} = {q \in RowsOf(b) : rowStatus[q] = st}
      BY <2>5 DEF RowsOf
    <3> QED
      BY <2>1, <3>1 DEF LeaseInv, CountersMatchRows, InStatus, RowsOf
  <2> QED
    BY <2>1, <2>3, <2>4, <2>6 DEF LeaseInv
<1> QED
  BY <1>1, <1>2, <1>3 DEF Upload

\* Steps of a worker that leave its hand as it is, or empty.
LEMMA CycleKeepsLeases ==
    ASSUME LeaseInv, Inv', NEW w \in Workers,
           \/ ClaimNextBatch(w) \/ AcquireLock(w) \/ RedisError(w) \/ SdpAccepts(w) \/ EndDispatch(w)
           \/ RecordChunkProgress(w) \/ FinalizeBatch(w) \/ ReleaseLock(w) \/ Restart(w)
           \/ Crash(w) \/ DbError(w)
    PROVE  LeaseInv'
<1>0. worker[w] \in WorkerState /\ worker \in [Workers -> WorkerState] /\ HandOK(worker[w], w)
  BY DEF LeaseInv, Inv, TypeOK, LeasesHold
<1>1. ASSUME ClaimNextBatch(w) PROVE LeaseInv'
  <2>0. worker[w].pc = "poll" /\ UNCHANGED <<rowVars, succeeded, failed, dispatches, hook, faults>>
    BY <1>1 DEF ClaimNextBatch
  <2>1. worker[w].cur = NoRow /\ worker[w].todo = {}
    BY <1>0, <2>0, NothingOut DEF HandOK
  <2>2. CASE worker' = [worker EXCEPT ![w] = Fresh]
    BY <2>0, <2>1, <2>2, FreshHand
  <2>3. ASSUME NEW b \in Batches,
               worker' = [worker EXCEPT ![w].pc = IF UseRedis THEN "lock" ELSE "claim", ![w].at = b]
        PROVE  LeaseInv'
    <3> DEFINE s == [worker[w] EXCEPT !.pc = IF UseRedis THEN "lock" ELSE "claim", !.at = b]
    <3>1. worker' = [worker EXCEPT ![w] = s]
      BY <1>0, <2>3
    <3>2. s.todo = {} /\ s.cur = NoRow
      BY <1>0, <2>1 DEF WorkerState
    <3> HIDE DEF s
    <3> QED
      BY <2>0, <2>1, <3>1, <3>2, EmptyHand, WorkerMoves
  <2> QED
    BY <1>1, <2>2, <2>3 DEF ClaimNextBatch
<1>2. ASSUME AcquireLock(w) PROVE LeaseInv'
  <2>0. worker[w].pc = "lock" /\ UNCHANGED <<rowVars, succeeded, failed, dispatches, hook, faults>>
    BY <1>2 DEF AcquireLock, batchVars
  <2>1. worker[w].cur = NoRow /\ worker[w].todo = {}
    BY <1>0, <2>0, NothingOut DEF HandOK
  <2>2. CASE worker' = [worker EXCEPT ![w] = Fresh]
    BY <2>0, <2>1, <2>2, FreshHand
  <2>3. CASE worker' = [worker EXCEPT ![w].pc = "claim", ![w].holds = TRUE]
    <3> DEFINE s == [worker[w] EXCEPT !.pc = "claim", !.holds = TRUE]
    <3>1. worker' = [worker EXCEPT ![w] = s]
      BY <1>0, <2>3
    <3>2. s.todo = {} /\ s.cur = NoRow
      BY <1>0, <2>1 DEF WorkerState
    <3> HIDE DEF s
    <3> QED
      BY <2>0, <2>1, <3>1, <3>2, EmptyHand, WorkerMoves
  <2> QED
    BY <1>2, <2>2, <2>3 DEF AcquireLock
<1>3. ASSUME RedisError(w) PROVE LeaseInv'
  <2> DEFINE s == [worker[w] EXCEPT !.pc = "claim"]
  <2>1. worker' = [worker EXCEPT ![w] = s]
    BY <1>0, <1>3 DEF RedisError
  <2>2. s.todo = {} /\ s.cur = NoRow
    BY <1>0, <1>3, NothingOut DEF WorkerState, HandOK, RedisError
  <2> HIDE DEF s
  <2> QED
    BY <1>3, <2>1, <2>2, EmptyHand, WorkerMoves DEF RedisError, batchVars
<1>4. ASSUME SdpAccepts(w) PROVE LeaseInv'
  <2> DEFINE s == [worker[w] EXCEPT !.arrived = TRUE]
  <2>1. worker' = [worker EXCEPT ![w] = s]
    BY <1>0, <1>4 DEF SdpAccepts
  <2>2. s.todo = worker[w].todo /\ s.cur = worker[w].cur /\ s.at = worker[w].at /\ s.snap = worker[w].snap
        /\ s.pc = "inflight"
    BY <1>0, <1>4 DEF WorkerState, SdpAccepts
  <2> HIDE DEF s
  <2>3. HandOK(s, w)
    BY <1>0, <2>2, SameHand
  <2> QED
    BY <1>4, <2>1, <2>2, <2>3, WorkerMoves DEF SdpAccepts, batchVars
<1>5. ASSUME EndDispatch(w) PROVE LeaseInv'
  <2>0. PICK o \in OutcomesOf(worker[w].arrived) :
          worker' = [worker EXCEPT ![w].pc = "mark", ![w].outcome = o, ![w].arrived = FALSE]
    BY <1>5 DEF EndDispatch
  <2> DEFINE s == [worker[w] EXCEPT !.pc = "mark", !.outcome = o, !.arrived = FALSE]
  <2>1. worker' = [worker EXCEPT ![w] = s]
    BY <1>0, <2>0
  <2>2. s.todo = worker[w].todo /\ s.cur = worker[w].cur /\ s.at = worker[w].at /\ s.snap = worker[w].snap
        /\ s.pc = "mark"
    BY <1>0 DEF WorkerState
  <2> HIDE DEF s
  <2>3. HandOK(s, w)
    BY <1>0, <2>2, SameHand
  <2> QED
    BY <1>5, <2>1, <2>2, <2>3, WorkerMoves DEF EndDispatch, batchVars
<1>6. ASSUME RecordChunkProgress(w) PROVE LeaseInv'
  <2>1. EndCycle(w) /\ worker[w].pc = "progress"
    BY <1>6 DEF RecordChunkProgress, LoggableEvents
  <2> QED
    BY <1>6, <2>1, NothingOut, EndCycleHand DEF RecordChunkProgress, batchVars
<1>7. ASSUME FinalizeBatch(w) PROVE LeaseInv'
  BY <1>7, NothingOut, EndCycleHand DEF FinalizeBatch
<1>8. ASSUME ReleaseLock(w) PROVE LeaseInv'
  BY <1>8, NothingOut, FreshHand DEF ReleaseLock, batchVars
<1>9. ASSUME Restart(w) PROVE LeaseInv'
  BY <1>9, NothingOut, FreshHand DEF Restart, batchVars
<1>10. ASSUME Crash(w) PROVE LeaseInv'
  <2> DEFINE s == [Fresh EXCEPT !.pc = "down"]
  <2>1. worker' = [worker EXCEPT ![w] = s]
    BY <1>10 DEF Crash
  <2>2. s.todo = {} /\ s.cur = NoRow
    BY DEF Fresh
  <2> HIDE DEF s
  <2> QED
    BY <1>10, <2>1, <2>2, EmptyHand, WorkerMoves DEF Crash, batchVars
<1>11. ASSUME DbError(w) PROVE LeaseInv'
  BY <1>11, EndCycleHand DEF DbError, batchVars
<1> QED
  BY <1>1, <1>2, <1>3, <1>4, <1>5, <1>6, <1>7, <1>8, <1>9, <1>10, <1>11

\* reclaim_stale_leases takes nothing out of a hand.
LEMMA ReclaimKeepsLeases ==
    ASSUME LeaseInv, Inv', NEW w \in Workers, ReclaimStaleLeases(w) PROVE LeaseInv'
<1>0. worker[w] \in WorkerState /\ worker \in [Workers -> WorkerState] /\ HandOK(worker[w], w)
  BY DEF LeaseInv, Inv, TypeOK, LeasesHold
<1> DEFINE s == [worker[w] EXCEPT !.pc = "poll"]
<1>1. /\ worker' = [worker EXCEPT ![w] = s] /\ worker[w].pc = "idle"
      /\ lockedBy' = [r \in Rows |-> IF r \in Abandoned THEN NoWorker ELSE lockedBy[r]]
      /\ stale' = stale \ Abandoned
      /\ UNCHANGED <<rowStatus, attempts, succeeded, failed, dispatches, hook, faults>>
  BY <1>0 DEF ReclaimStaleLeases, batchVars
<1>2. s.todo = {} /\ s.cur = NoRow /\ worker[w].cur = NoRow
  BY <1>0, <1>1, NothingOut DEF HandOK, WorkerState
<1> HIDE DEF s
<1>3. worker'[w] = s /\ \A v \in Workers \ {w} : worker'[v] = worker[v]
  BY <1>0, <1>1
<1>4. Abandoned \subseteq stale
  BY DEF Abandoned
<1>5. LeasesHold'
  <2>1. HandOK(worker[w], w)'
    BY <1>2, <1>3, ConfigAssumption DEF HandOK
  <2>2. ASSUME NEW v \in Workers \ {w} PROVE HandOK(worker[v], v)'
    BY <1>1, <1>3, <1>4 DEF LeaseInv, LeasesHold, HandOK
  <2> QED
    BY <2>1, <2>2 DEF LeasesHold
<1>6. AttemptsCount'
  <2>1. ASSUME NEW r \in Rows, Flying(r) PROVE Flying(r)'
    BY <1>2, <1>3, <2>1, ConfigAssumption DEF Flying
  <2>2. faults' \in Nat
    BY DEF Inv, TypeOK
  <2> QED
    BY <1>1, <2>1, <2>2, AttemptsStay DEF LeaseInv
<1>7. CountersMatchRows'
  BY <1>1, CountersStay DEF LeaseInv
<1> QED
  BY <1>1, <1>5, <1>6, <1>7 DEF LeaseInv

\* A lease runs out only for rows nobody is going to mark.
LEMMA TimeoutKeepsLeases ==
    ASSUME LeaseInv, Inv', Timely, NEW w \in Workers, LeaseTimesOut(w) PROVE LeaseInv'
<1>1. /\ \A r \in stale' : r \in stale \/ (lockedBy[r] = w /\ r \notin InHand(w))
      /\ UNCHANGED <<rowStatus, attempts, lockedBy, worker, succeeded, failed, dispatches, hook, faults>>
  BY DEF LeaseTimesOut, Timely, batchVars
<1>2. LeasesHold'
  BY <1>1 DEF LeaseInv, LeasesHold, HandOK, InHand
<1>3. AttemptsCount'
  BY <1>1 DEF LeaseInv, AttemptsCount, Flying
<1>4. CountersMatchRows'
  BY <1>1, CountersStay DEF LeaseInv
<1> QED
  BY <1>1, <1>2, <1>3, <1>4 DEF LeaseInv

\* claim_recipients takes rows nobody has.
LEMMA ClaimKeepsLeases ==
    ASSUME LeaseInv, Inv', NEW w \in Workers, ClaimRecipients(w) PROVE LeaseInv'
<1>0. worker[w] \in WorkerState /\ worker \in [Workers -> WorkerState] /\ NoWorker \notin Workers
  BY ConfigAssumption DEF LeaseInv, Inv, TypeOK
<1> DEFINE claimed == OldestFew(Claimable(worker[w].at))
           noted == [r \in Rows |-> IF r \in claimed THEN attempts[r] ELSE 0]
           s == [worker[w] EXCEPT !.pc = IF claimed = {} THEN "finalize" ELSE "dispatch",
                                  !.todo = claimed, !.snap = noted]
<1>1. /\ worker' = [worker EXCEPT ![w] = s] /\ worker[w].pc = "claim"
      /\ lockedBy' = [r \in Rows |-> IF r \in claimed THEN w ELSE lockedBy[r]]
      /\ stale' = stale \ claimed
      /\ UNCHANGED <<rowStatus, attempts, succeeded, failed, dispatches, hook, faults>>
  BY <1>0 DEF ClaimRecipients, batchVars
<1>2. \A r \in claimed : /\ r \in Rows /\ BatchOf[r] = worker[w].at /\ rowStatus[r] = "PENDING"
                         /\ lockedBy[r] = NoWorker /\ noted[r] = attempts[r]
  BY DEF OldestFew, Claimable, RowsOf
<1> HIDE DEF claimed, noted
<1>3. worker[w].cur = NoRow
  BY <1>1, NothingOut
<1>4. s.todo = claimed /\ s.cur = NoRow /\ s.at = worker[w].at /\ s.snap = noted /\ s.pc \in {"finalize", "dispatch"}
  BY <1>0, <1>3 DEF WorkerState
<1> HIDE DEF s
<1>5. worker'[w] = s /\ \A v \in Workers \ {w} : worker'[v] = worker[v]
  BY <1>0, <1>1
<1>6. \A r \in Rows : r # NoRow
  BY ConfigAssumption
<1>7. HandOK(worker[w], w)'
  <2>1. NoRow \notin claimed
    BY <1>2, <1>6
  <2> QED
    BY <1>1, <1>2, <1>4, <1>5, <1>6, <2>1 DEF HandOK
<1>8. ASSUME NEW v \in Workers \ {w} PROVE HandOK(worker[v], v)'
  <2>1. HandOK(worker[v], v)
    BY DEF LeaseInv, LeasesHold
  <2> QED
    BY <1>0, <1>1, <1>2, <1>5, <2>1 DEF HandOK
<1>9. LeasesHold'
  BY <1>7, <1>8 DEF LeasesHold
<1>10. AttemptsCount'
  <2>1. ASSUME NEW r \in Rows, Flying(r) PROVE Flying(r)'
    BY <1>3, <1>5, <1>6, <2>1 DEF Flying
  <2>2. faults' \in Nat
    BY DEF Inv, TypeOK
  <2> QED
    BY <1>1, <2>1, <2>2, AttemptsStay DEF LeaseInv
<1>11. CountersMatchRows'
  BY <1>1, CountersStay DEF LeaseInv
<1> QED
  BY <1>1, <1>9, <1>10, <1>11 DEF LeaseInv

\* The row that is sent is in no other hand and was not out before.
LEMMA DispatchKeepsLeases ==
    ASSUME LeaseInv, Inv', NEW w \in Workers, BeginDispatch(w) PROVE LeaseInv'
<1>0. worker[w] \in WorkerState /\ worker \in [Workers -> WorkerState] /\ HandOK(worker[w], w)
  BY DEF LeaseInv, Inv, TypeOK, LeasesHold
<1>1. PICK r \in worker[w].todo :
        /\ worker[w].pc = "dispatch"
        /\ worker' = [worker EXCEPT ![w].pc = "inflight", ![w].cur = r, ![w].todo = @ \ {r}]
        /\ dispatches' = [dispatches EXCEPT ![r] = IF @ = DispatchCap THEN @ ELSE @ + 1]
        /\ UNCHANGED <<batchVars, rowVars, hook, faults>>
  BY DEF BeginDispatch
<1>2. r \in Rows
  BY <1>0 DEF WorkerState
<1> DEFINE s == [worker[w] EXCEPT !.pc = "inflight", !.cur = r, !.todo = @ \ {r}]
<1>3. worker' = [worker EXCEPT ![w] = s]
  BY <1>0, <1>1
<1>4. worker[w].cur = NoRow
  BY <1>1, NothingOut
<1>5. s.todo = worker[w].todo \ {r} /\ s.cur = r /\ s.at = worker[w].at /\ s.snap = worker[w].snap
      /\ s.pc = "inflight"
  BY <1>0 DEF WorkerState
<1> HIDE DEF s
<1>6. HandOK(s, w)
  BY <1>0, <1>5 DEF HandOK
<1>7. LeasesHold'
  BY <1>0, <1>1, <1>3, <1>6, HandMoves DEF LeaseInv
<1>8. worker'[w] = s /\ \A v \in Workers \ {w} : worker'[v] = worker[v]
  BY <1>0, <1>3
<1>9. AttemptsCount'
  <2>0. attempts \in [Rows -> Nat] /\ dispatches \in [Rows -> Nat] /\ faults \in Nat
    BY DEF LeaseInv, Inv, TypeOK
  <2>1. ~Flying(r) /\ Flying(r)'
    <3>1. lockedBy[r] = w
      BY <1>0, <1>2 DEF HandOK
    <3>2. \A v \in Workers : worker[v].cur = r => lockedBy[r] = v
      BY <1>2 DEF LeaseInv, LeasesHold, HandOK
    <3>3. r # NoRow
      BY <1>2, ConfigAssumption
    <3> QED
      BY <1>4, <1>5, <1>8, <3>1, <3>2, <3>3 DEF Flying
  <2>2. \A q \in Rows \ {r} : Flying(q)' <=> Flying(q)
    <3>1. \A q \in Rows : q # NoRow
      BY ConfigAssumption
    <3> QED
      BY <1>4, <1>5, <1>8, <3>1 DEF Flying
  <2>3. /\ dispatches'[r] <= dispatches[r] + 1
        /\ \A q \in Rows \ {r} : dispatches'[q] = dispatches[q]
    BY <1>1, <1>2, <2>0
  <2>4. UNCHANGED <<attempts, rowStatus, faults>>
    BY <1>1 DEF rowVars
  <2> SUFFICES ASSUME NEW q \in Rows
               PROVE  dispatches'[q] <= attempts[q] + faults + IF Flying(q)' THEN 1 ELSE 0
    BY <2>4 DEF LeaseInv, AttemptsCount
  <2>5. dispatches[q] <= attempts[q] + faults + IF Flying(q) THEN 1 ELSE 0
    BY DEF LeaseInv, AttemptsCount
  <2>6. CASE q = r
    <3>1. dispatches'[q] \in Nat /\ attempts[q] \in Nat /\ dispatches[q] \in Nat
      BY <2>0 DEF Inv, TypeOK
    <3> QED
      BY <2>0, <2>1, <2>3, <2>5, <2>6, <3>1
  <2>7. CASE q # r
    BY <2>2, <2>3, <2>5, <2>7
  <2> QED
    BY <2>6, <2>7
<1>10. CountersMatchRows'
  BY <1>1, CountersStay DEF LeaseInv, rowVars, batchVars
<1> QED
  BY <1>1, <1>7, <1>9, <1>10 DEF LeaseInv

-----------------------------------------------------------------------------
(***************************************************************************)
(* The end of an attempt.                                                  *)
(***************************************************************************)

\* The row leaves the hand, its attempt is counted.
LEMMA MarkMoves ==
    ASSUME LeaseInv, NEW w \in Workers, worker[w].pc = "mark", NEW st,
           rowStatus' = [rowStatus EXCEPT ![worker[w].cur] = st],
           ReleaseRow(worker[w].cur), NextRow(w), UNCHANGED <<dispatches, faults>>,
           st \in {"Absent", "PENDING"} => worker[w].snap[worker[w].cur] + 1 < MaxAttempts
    PROVE  LeasesHold' /\ AttemptsCount'
<1>0. worker[w] \in WorkerState /\ worker \in [Workers -> WorkerState] /\ HandOK(worker[w], w)
      /\ worker[w].cur \in Rows
  BY DEF LeaseInv, Inv, TypeOK, LeasesHold, WorkerKnows
<1> DEFINE r == worker[w].cur
           p == IF worker[w].todo = {} \/ worker[w].done + 1 = ChunkSize
                THEN "progress" ELSE "dispatch"
           d == IF worker[w].done + 1 = ChunkSize THEN 0 ELSE worker[w].done + 1
           s == [worker[w] EXCEPT !.pc = p, !.done = d, !.cur = NoRow, !.outcome = "None"]
<1>1. worker' = [worker EXCEPT ![w] = s]
  BY <1>0 DEF NextRow
<1>p. p \in {"progress", "dispatch"}
  OBVIOUS
<1>2. s.todo = worker[w].todo /\ s.cur = NoRow /\ s.at = worker[w].at /\ s.snap = worker[w].snap /\ s.pc = p
  <2> HIDE DEF p, d
  <2> QED
    BY <1>0 DEF WorkerState
<1> HIDE DEF s, p, d
<1>3. worker'[w] = s /\ \A v \in Workers \ {w} : worker'[v] = worker[v]
  BY <1>0, <1>1
<1>4. /\ attempts \in [Rows -> Nat] /\ lockedBy \in [Rows -> Workers \cup {NoWorker}]
      /\ rowStatus \in [Rows -> {"Absent", "PENDING", "SUBMITTED", "CONFIRMED", "FAILED"}]
      /\ dispatches \in [Rows -> Nat] /\ faults \in Nat
  BY DEF LeaseInv, Inv, TypeOK
<1>5. lockedBy[r] = w /\ rowStatus[r] = "PENDING" /\ worker[w].snap[r] = attempts[r] /\ r \notin worker[w].todo
  BY <1>0 DEF HandOK
<1>6. /\ attempts'[r] = attempts[r] + 1 /\ rowStatus'[r] = st
      /\ \A q \in Rows \ {r} : /\ attempts'[q] = attempts[q] /\ lockedBy'[q] = lockedBy[q]
                               /\ rowStatus'[q] = rowStatus[q] /\ (q \in stale' <=> q \in stale)
  BY <1>0, <1>4 DEF ReleaseRow
<1>7. \A q \in Rows : q # NoRow
  BY ConfigAssumption
<1>8. ASSUME NEW v \in Workers PROVE HandOK(worker[v], v)'
  <2>0. HandOK(worker[v], v)
    BY DEF LeaseInv, LeasesHold
  <2>1. CASE v = w
    <3>0. NoRow \notin worker[w].todo
      BY <1>0, <1>7 DEF WorkerState
    <3> QED
      BY <1>0, <1>2, <1>p, <1>3, <1>5, <1>6, <1>7, <2>0, <2>1, <3>0 DEF HandOK
  <2>2. CASE v # w
    <3>1. r \notin worker[v].todo /\ worker[v].cur # r
      BY <1>0, <1>5, <2>0, <2>2 DEF HandOK
    <3> QED
      BY <1>3, <1>6, <2>0, <2>2, <3>1 DEF HandOK
  <2> QED
    BY <2>1, <2>2
<1>9. ASSUME NEW q \in Rows
      PROVE  /\ attempts'[q] <= MaxAttempts
             /\ rowStatus'[q] \in {"Absent", "PENDING"} => attempts'[q] < MaxAttempts
             /\ dispatches'[q] <= attempts'[q] + faults' + IF Flying(q)' THEN 1 ELSE 0
  <2>0. /\ attempts[q] <= MaxAttempts
        /\ rowStatus[q] \in {"Absent", "PENDING"} => attempts[q] < MaxAttempts
        /\ dispatches[q] <= attempts[q] + faults + IF Flying(q) THEN 1 ELSE 0
    BY DEF LeaseInv, AttemptsCount
  <2>t. attempts[q] \in Nat /\ dispatches[q] \in Nat /\ MaxAttempts \in Nat
    BY <1>4, ConfigAssumption
  <2>1. CASE q = r
    BY <1>4, <1>5, <1>6, <2>0, <2>t, <2>1
  <2>2. CASE q # r
    <3>1. Flying(q) => Flying(q)'
      BY <1>3, <2>2 DEF Flying
    <3> QED
      BY <1>4, <1>6, <2>0, <2>t, <2>2, <3>1
  <2> QED
    BY <2>1, <2>2
<1> QED
  BY <1>8, <1>9 DEF LeasesHold, AttemptsCount

\* One row leaves PENDING: one tally of one batch goes up by one.
LEMMA TallyMoves ==
    ASSUME rowStatus \in [Rows -> {"Absent", "PENDING", "SUBMITTED", "CONFIRMED", "FAILED"}],
           NEW r \in Rows, rowStatus[r] = "PENDING", NEW st,
           rowStatus' = [rowStatus EXCEPT ![r] = st],
           NEW b \in Batches, NEW t \in {"SUBMITTED", "CONFIRMED", "FAILED"}
    PROVE  InStatus(b, t)' = IF b = BatchOf[r] /\ t = st THEN InStatus(b, t) + 1 ELSE InStatus(b, t)
<1> DEFINE S == {q \in RowsOf(b) : rowStatus[q] = t}
           T == {q \in RowsOf(b) : rowStatus'[q] = t}
<1>0. IsFiniteSet(S)
  BY ConfigAssumption, FS_Subset DEF RowsOf
<1>1. InStatus(b, t) = Cardinality(S) /\ InStatus(b, t)' = Cardinality(T)
  BY DEF InStatus, RowsOf
<1>2. CASE b = BatchOf[r] /\ t = st
  <2>1. r \notin S /\ T = S \cup {r}
    BY <1>2 DEF RowsOf
  <2> HIDE DEF S, T
  <2> QED
    BY <1>0, <1>1, <1>2, <2>1, FS_AddElement
<1>3. CASE ~(b = BatchOf[r] /\ t = st)
  <2>1. T = S
    BY <1>3 DEF RowsOf
  <2> QED
    BY <1>1, <1>3, <2>1
<1> QED
  BY <1>2, <1>3

LEMMA MarkKeepsLeases ==
    ASSUME LeaseInv, Inv', NEW w \in Workers, MarkSubmitted(w) \/ MarkRetry(w) \/ MarkFailed(w)
    PROVE  LeaseInv'
<1> DEFINE r == worker[w].cur
           b == worker[w].at
<1>0. worker[w].pc = "mark" /\ r \in Rows /\ HandOK(worker[w], w)
  BY DEF MarkSubmitted, MarkRetry, MarkFailed, LeaseInv, Inv, WorkerKnows, LeasesHold
<1>1. rowStatus[r] = "PENDING" /\ BatchOf[r] = b /\ b \in Batches
  BY <1>0 DEF HandOK, Batches
<1>2. /\ rowStatus \in [Rows -> {"Absent", "PENDING", "SUBMITTED", "CONFIRMED", "FAILED"}]
      /\ succeeded \in [Batches -> Nat] /\ failed \in [Batches -> Nat]
  BY DEF LeaseInv, Inv, TypeOK
<1>3. \A c \in Batches : /\ InStatus(c, "SUBMITTED") \in Nat /\ InStatus(c, "CONFIRMED") \in Nat
                         /\ succeeded[c] = InStatus(c, "SUBMITTED") + InStatus(c, "CONFIRMED")
                         /\ failed[c] = InStatus(c, "FAILED")
  BY CountsAreNumbers DEF LeaseInv, CountersMatchRows
<1>4. ASSUME MarkSubmitted(w) PROVE LeaseInv'
  <2>1. /\ rowStatus' = [rowStatus EXCEPT ![r] = "SUBMITTED"] /\ ReleaseRow(r) /\ NextRow(w)
        /\ succeeded' = [succeeded EXCEPT ![b] = @ + 1] /\ UNCHANGED <<failed, dispatches, faults, hook>>
    BY <1>4 DEF MarkSubmitted, OneMore
  <2>2. LeasesHold' /\ AttemptsCount'
    BY <1>0, <2>1, MarkMoves
  <2>3. CountersMatchRows'
    <3>0. \A c \in Batches, t \in {"SUBMITTED", "CONFIRMED", "FAILED"} :
            InStatus(c, t)' = IF c = b /\ t = "SUBMITTED" THEN InStatus(c, t) + 1 ELSE InStatus(c, t)
      <4> HIDE DEF r, b
      <4> QED
        BY <1>0, <1>1, <1>2, <2>1, TallyMoves
    <3>1. ASSUME NEW c \in Batches
          PROVE  /\ InStatus(c, "SUBMITTED")' = IF c = b THEN InStatus(c, "SUBMITTED") + 1
                                                ELSE InStatus(c, "SUBMITTED")
                 /\ InStatus(c, "CONFIRMED")' = InStatus(c, "CONFIRMED")
                 /\ InStatus(c, "FAILED")' = InStatus(c, "FAILED")
      BY <3>0
    <3>2. ASSUME NEW c \in Batches
          PROVE  /\ succeeded'[c] = InStatus(c, "SUBMITTED")' + InStatus(c, "CONFIRMED")'
                 /\ failed'[c] = InStatus(c, "FAILED")'
      BY <1>1, <1>2, <1>3, <2>1, <3>1
    <3> QED
      BY <3>2 DEF CountersMatchRows
  <2> QED
    BY <2>1, <2>2, <2>3 DEF LeaseInv
<1>5. ASSUME MarkFailed(w) PROVE LeaseInv'
  <2>1. /\ rowStatus' = [rowStatus EXCEPT ![r] = "FAILED"] /\ ReleaseRow(r) /\ NextRow(w)
        /\ failed' = [failed EXCEPT ![b] = @ + 1] /\ UNCHANGED <<succeeded, dispatches, faults, hook>>
    BY <1>5 DEF MarkFailed, OneMore
  <2>2. LeasesHold' /\ AttemptsCount'
    BY <1>0, <2>1, MarkMoves
  <2>3. CountersMatchRows'
    <3>0. \A c \in Batches, t \in {"SUBMITTED", "CONFIRMED", "FAILED"} :
            InStatus(c, t)' = IF c = b /\ t = "FAILED" THEN InStatus(c, t) + 1 ELSE InStatus(c, t)
      <4> HIDE DEF r, b
      <4> QED
        BY <1>0, <1>1, <1>2, <2>1, TallyMoves
    <3>1. ASSUME NEW c \in Batches
          PROVE  /\ InStatus(c, "SUBMITTED")' = InStatus(c, "SUBMITTED")
                 /\ InStatus(c, "CONFIRMED")' = InStatus(c, "CONFIRMED")
                 /\ InStatus(c, "FAILED")' = IF c = b THEN InStatus(c, "FAILED") + 1
                                             ELSE InStatus(c, "FAILED")
      BY <3>0
    <3>2. ASSUME NEW c \in Batches
          PROVE  /\ succeeded'[c] = InStatus(c, "SUBMITTED")' + InStatus(c, "CONFIRMED")'
                 /\ failed'[c] = InStatus(c, "FAILED")'
      BY <1>1, <1>2, <1>3, <2>1, <3>1
    <3> QED
      BY <3>2 DEF CountersMatchRows
  <2> QED
    BY <2>1, <2>2, <2>3 DEF LeaseInv
<1>6. ASSUME MarkRetry(w) PROVE LeaseInv'
  <2>1. /\ ReleaseRow(r) /\ NextRow(w) /\ ~MustFail(worker[w].outcome, worker[w].snap[r] + 1)
        /\ UNCHANGED <<succeeded, failed, rowStatus, dispatches, faults, hook>>
    BY <1>6 DEF MarkRetry, batchVars
  <2>2. rowStatus' = [rowStatus EXCEPT ![r] = "PENDING"]
    BY <1>0, <1>1, <1>2, <2>1
  <2>3. worker[w].snap[r] + 1 < MaxAttempts
    <3>0. worker[w] \in WorkerState
      BY DEF LeaseInv, Inv, TypeOK
    <3>1. worker[w].snap[r] \in Nat /\ MaxAttempts \in Nat
      BY <1>0, <3>0, ConfigAssumption DEF WorkerState
    <3> QED
      BY <2>1, <3>1 DEF MustFail
  <2>4. LeasesHold' /\ AttemptsCount'
    BY <1>0, <2>1, <2>2, <2>3, MarkMoves
  <2>5. CountersMatchRows'
    BY <2>1, CountersStay DEF LeaseInv
  <2> QED
    BY <2>1, <2>4, <2>5 DEF LeaseInv
<1> QED
  BY <1>4, <1>5, <1>6

LEMMA DisjointUnion ==
    ASSUME NEW S, NEW T, IsFiniteSet(S), IsFiniteSet(T), S \cap T = {}
    PROVE  IsFiniteSet(S \cup T) /\ Cardinality(S \cup T) = Cardinality(S) + Cardinality(T)
<1>1. /\ IsFiniteSet(S \cup T)
      /\ Cardinality(S \cup T) = Cardinality(S) + Cardinality(T) - Cardinality(S \cap T)
  BY FS_Union
<1>2. Cardinality(S \cap T) = 0
  BY FS_EmptySet
<1> QED
  BY <1>1, <1>2, FS_CardinalityType

\* The CHECK on the counters never rejects: the row in hand is not counted yet.
LEMMA NeverRejected ==
    ASSUME LeaseInv, NEW w \in Workers, worker[w].pc = "mark" PROVE RoomForOneMore(worker[w].at)
<1> DEFINE r == worker[w].cur
           b == worker[w].at
           In(t) == {q \in RowsOf(b) : rowStatus[q] = t}
           C == In("SUBMITTED") \cup In("CONFIRMED")
           U == C \cup In("FAILED")
<1>0. r \in Rows /\ rowStatus[r] = "PENDING" /\ BatchOf[r] = b /\ b \in Batches
  <2>1. r \in Rows /\ HandOK(worker[w], w)
    BY DEF LeaseInv, Inv, WorkerKnows, LeasesHold
  <2> QED
    BY <2>1 DEF HandOK, Batches
<1>1. IsFiniteSet(RowsOf(b))
  BY ConfigAssumption, FS_Subset DEF RowsOf
<1>2. \A t : IsFiniteSet(In(t)) /\ Cardinality(In(t)) \in Nat
  BY <1>1, FS_Subset, FS_CardinalityType
<1>3. In("SUBMITTED") \cap In("CONFIRMED") = {} /\ C \cap In("FAILED") = {}
  OBVIOUS
<1>4. IsFiniteSet(C) /\ Cardinality(C) = Cardinality(In("SUBMITTED")) + Cardinality(In("CONFIRMED"))
  <2>1. \A S, T : IsFiniteSet(S) /\ IsFiniteSet(T) /\ S \cap T = {} =>
          IsFiniteSet(S \cup T) /\ Cardinality(S \cup T) = Cardinality(S) + Cardinality(T)
    BY DisjointUnion
  <2> QED
    BY <1>2, <1>3, <2>1
<1>5. IsFiniteSet(U) /\ Cardinality(U) = Cardinality(C) + Cardinality(In("FAILED"))
  <2>1. IsFiniteSet(In("FAILED"))
    BY <1>2
  <2> HIDE DEF C, In
  <2> QED
    BY <1>3, <1>4, <2>1, DisjointUnion
<1>6. U \subseteq RowsOf(b) \ {r}
  BY <1>0
<1>7. IsFiniteSet(RowsOf(b) \ {r}) /\ Cardinality(RowsOf(b) \ {r}) = Total(b) - 1 /\ Total(b) \in Nat
  <2> DEFINE S == RowsOf(b)
  <2>1. r \in S /\ IsFiniteSet(S)
    BY <1>0, <1>1 DEF RowsOf
  <2> HIDE DEF S
  <2>2. IsFiniteSet(S \ {r}) /\ Cardinality(S \ {r}) = Cardinality(S) - 1 /\ Cardinality(S) \in Nat
    BY <2>1, FS_RemoveElement, FS_CardinalityType
  <2> QED
    BY <2>2 DEF Total, S
<1>8. Cardinality(U) <= Total(b) - 1
  <2> HIDE DEF U
  <2> QED
    BY <1>6, <1>7, FS_Subset
<1>9. succeeded[b] = Cardinality(In("SUBMITTED")) + Cardinality(In("CONFIRMED"))
      /\ failed[b] = Cardinality(In("FAILED"))
  BY <1>0 DEF LeaseInv, CountersMatchRows, InStatus
<1> HIDE DEF C, U, In, b
<1>10. succeeded[b] + failed[b] < Total(b)
  BY <1>2, <1>4, <1>5, <1>7, <1>8, <1>9
<1> QED
  BY <1>10 DEF RoomForOneMore, b

-----------------------------------------------------------------------------
LEMMA LeaseInvStarts == ASSUME Init PROVE LeaseInv
<1>1. Inv
  BY InvInductive
<1>2. LeasesHold
  BY EmptyHand DEF Init, LeasesHold, Fresh
<1>3. AttemptsCount
  BY ConfigAssumption DEF Init, AttemptsCount
<1>4. CountersMatchRows
  <2>1. \A b \in Batches, t \in {"SUBMITTED", "CONFIRMED", "FAILED"} : InStatus(b, t) = 0
    <3>1. \A b \in Batches, t \in {"SUBMITTED", "CONFIRMED", "FAILED"} :
            {r \in RowsOf(b) : rowStatus[r] = t} = {}
      BY DEF Init, RowsOf
    <3> QED
      BY <3>1, FS_EmptySet DEF InStatus
  <2> QED
    BY <2>1 DEF Init, CountersMatchRows
<1> QED
  BY <1>1, <1>2, <1>3, <1>4 DEF LeaseInv, Init

LEMMA LeaseInvStep == ASSUME Timely, LeaseInv, [Next]_vars PROVE LeaseInv'
<1>0. Inv' /\ hooks = MaxHooks /\ hook.pc = "idle"
  <2>1. Inv'
    BY InvInductive DEF LeaseInv
  <2>2. hooks \in 0..MaxHooks
    BY DEF LeaseInv, Inv, TypeOK
  <2> QED
    BY <2>1, <2>2 DEF LeaseInv, Timely
<1>1. CASE UNCHANGED vars
  BY <1>0, <1>1, OthersMove DEF vars, batchVars
<1>2. ASSUME NEW w \in Workers, WorkerStep(w) PROVE LeaseInv'
  <2>1. ~MarkRejected(w)
    BY NeverRejected DEF MarkRejected
  <2> QED
    BY <1>0, <1>2, <2>1, ReclaimKeepsLeases, CycleKeepsLeases, ClaimKeepsLeases, DispatchKeepsLeases,
       MarkKeepsLeases DEF WorkerStep
<1>3. ASSUME Webhook PROVE LeaseInv'
  BY <1>0, <1>3 DEF Webhook, WebhookRecount, WebhookSettle
<1>4. ASSUME Environment PROVE LeaseInv'
  <2>1. ASSUME NEW b \in Batches, LockExpires(b) PROVE LeaseInv'
    BY <1>0, <2>1, OthersMove DEF LockExpires, batchVars
  <2>2. ASSUME NEW r \in Rows, SdpSettles(r) \/ WebhookUpdate(r) PROVE FALSE
    BY <1>0, <2>2, ConfigAssumption DEF SdpSettles, WebhookUpdate
  <2>3. ASSUME WebhookFails PROVE FALSE
    BY <1>0, <2>3 DEF WebhookFails
  <2> QED
    BY <1>0, <1>4, <2>1, <2>2, <2>3, CycleKeepsLeases, TimeoutKeepsLeases DEF Environment
<1> QED
  BY <1>0, <1>1, <1>2, <1>3, <1>4, UploadKeepsLeases DEF Next

\* The rows in hand are leased to the one who has them, so no two hands meet.
LEMMA LeasesAreExclusive == ASSUME LeaseInv PROVE RowsAreWorkedOnce
<1>1. OneWorkerPerRow
  <2> SUFFICES ASSUME NEW v \in Workers, NEW w \in Workers, v # w, NEW r, r \in InHand(v) \cap InHand(w)
               PROVE  r = NoRow
    BY DEF OneWorkerPerRow
  <2>1. worker[v] \in WorkerState /\ HandOK(worker[v], v) /\ HandOK(worker[w], w)
    BY DEF LeaseInv, Inv, TypeOK, LeasesHold
  <2>2. CASE r \in Rows
    BY <2>1, <2>2 DEF HandOK, InHand
  <2>3. CASE r \notin Rows
    BY <2>1, <2>3 DEF WorkerState, InHand
  <2> QED
    BY <2>2, <2>3
<1>2. RetriesAreBounded
  <2> SUFFICES ASSUME NEW r \in Rows PROVE dispatches[r] <= MaxAttempts + faults
    BY DEF RetriesAreBounded
  <2>0. attempts[r] \in Nat /\ dispatches[r] \in Nat /\ faults \in Nat /\ MaxAttempts \in Nat
    BY ConfigAssumption DEF LeaseInv, Inv, TypeOK
  <2>1. /\ attempts[r] <= MaxAttempts
        /\ rowStatus[r] \in {"Absent", "PENDING"} => attempts[r] < MaxAttempts
        /\ dispatches[r] <= attempts[r] + faults + IF Flying(r) THEN 1 ELSE 0
    BY DEF LeaseInv, AttemptsCount
  <2>2. Flying(r) => rowStatus[r] = "PENDING"
    BY DEF Flying, LeaseInv, LeasesHold, HandOK
  <2> QED
    BY <2>0, <2>1, <2>2
<1> QED
  BY <1>1, <1>2 DEF RowsAreWorkedOnce

\* mark_submitted and mark_failed move a row and its batch's counter together:
\* while leases outlast the work and no callback overwrites a row, the counters
\* are what COUNT over the rows would say, through every crash and retry.
THEOREM CountersAlwaysMatch == ASSUME Timely PROVE Spec => []CountersMatchRows
<1>1. LeaseInv => CountersMatchRows
  BY DEF LeaseInv
<1>2. LeaseInv /\ [Next]_vars => LeaseInv'
  BY LeaseInvStep
<1> QED
  BY <1>1, <1>2, LeaseInvStarts, PTL DEF Spec

\* claim_recipients and mark_retry, under the same conditions: no row is in two
\* workers' hands, and none is sent more often than max_attempts and the faults
\* allow, although the attempt is computed from a number read at the claim.
THEOREM RowsAlwaysWorkedOnce == ASSUME Timely PROVE Spec => []RowsAreWorkedOnce
<1>1. LeaseInv => RowsAreWorkedOnce
  BY LeasesAreExclusive
<1>2. LeaseInv /\ [Next]_vars => LeaseInv'
  BY LeaseInvStep
<1> QED
  BY <1>1, <1>2, LeaseInvStarts, PTL DEF Spec
=============================================================================
