------------------------------ MODULE MCRunJob ------------------------------
(***************************************************************************)
(* RunJob.tla on small sets: two or three attempts at one operation, and   *)
(* runs of one job on two operations.                                      *)
(***************************************************************************)
EXTENDS RunJob, TLC

CONSTANTS
  a, b, c,   \* runs
  k, m,      \* lock ids
  j          \* the job

OneLock == [r \in Run |-> k]
TwoLocks == [r \in Run |-> IF r = c THEN m ELSE k]
OneJob == [r \in Run |-> j]

(* Where runs may be slower than their ttl. *)
Nowhere == [r \in Run |-> {}]
BeforeLaunch == [r \in Run |-> Committing]
AfterLaunch == [r \in Run |-> Leased \ Committing]
AfterRecord == [r \in Run |-> Leased \ Exclusive]

Symmetry == Permutations(Capital)
=============================================================================
