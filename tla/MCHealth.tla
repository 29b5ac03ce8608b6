------------------------------ MODULE MCHealth ------------------------------
(* Health.tla on runs of one job under two lock ids. *)
EXTENDS Health

CONSTANTS a, c, k, m, j

TwoLocks == [r \in Run |-> IF r = c THEN m ELSE k]
OneJob == [r \in Run |-> j]
Supervising == [r \in Run |-> Launched]
=============================================================================
