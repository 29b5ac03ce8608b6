-------------------------- MODULE EconomicOperation --------------------------
(***************************************************************************)
(* What run_job promises of economic operations (README.md, "Integration   *)
(* contract"; docs/OPERATIONS_CONTRACT.md), without leases, files and      *)
(* processes: attempts at an operation follow each other, an attempt is    *)
(* known before it is submitted, and what is known decides on the next.    *)
(***************************************************************************)
CONSTANTS
  Attempt,     \* attempts at operations
  Operation,   \* operations
  OperationOf, \* the operation of each attempt
  Capital,     \* attempts that move capital
  Nobody

VARIABLES
  outcome,     \* outcome[op]: what is known of operation op, and from whom
  submitted    \* attempts that have been submitted

vars == <<outcome, submitted>>

Untried == [state |-> "ABSENT", run |-> Nobody]
Outcomes == {"SUCCEEDED", "FAILED", "SKIPPED", "WAITING"}
Pending(a) == [state |-> "IN_PROGRESS", run |-> a]

Init == outcome = [op \in Operation |-> Untried] /\ submitted = {}

(* An operation that succeeded is not attempted again, nor is one that moves
   capital and was attempted before, whatever came of it. *)
Begin(a) ==
  LET op == OperationOf[a]
  IN  /\ op \in Operation /\ a \notin submitted
      /\ outcome[op].state # "SUCCEEDED"
      /\ a \in Capital => outcome[op].state = "ABSENT"
      /\ outcome' = [outcome EXCEPT ![op] = Pending(a)]
      /\ UNCHANGED submitted

(* An attempt is submitted once, while it is the one in progress. *)
Submit(a) ==
  LET op == OperationOf[a]
  IN  /\ op \in Operation /\ outcome[op] = Pending(a) /\ a \notin submitted
      /\ submitted' = submitted \cup {a}
      /\ UNCHANGED outcome

(* Only the attempt in progress has an outcome, and only one that was submitted
   succeeds. *)
Conclude(a) ==
  LET op == OperationOf[a]
  IN  /\ op \in Operation /\ outcome[op] = Pending(a)
      /\ \E state \in Outcomes :
           /\ state = "SUCCEEDED" => a \in submitted
           /\ outcome' = [outcome EXCEPT ![op] = [state |-> state, run |-> a]]
      /\ UNCHANGED submitted

Next == \E a \in Attempt : Begin(a) \/ Submit(a) \/ Conclude(a)

Spec == Init /\ [][Next]_vars

=============================================================================
