--------------------------- MODULE MCDisbursement ---------------------------
(***************************************************************************)
(* Disbursement for TLC.                                                   *)
(***************************************************************************)
EXTENDS Disbursement, TLC

\* One batch with every row.
OneBatch == [r \in Rows |-> 1]

\* Replicas in containers: every process has the same process id.
SamePid == [w \in Workers |-> 1]

WorkerSymmetry == Permutations(Workers)
=============================================================================
