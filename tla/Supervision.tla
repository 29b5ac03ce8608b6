---------------------------- MODULE Supervision ----------------------------
(***************************************************************************)
(* What the launch, the supervision and the cleanup of a command promise   *)
(* the rest of run_job, without groups, jobs, signals and pipes: a command *)
(* runs once and under supervision, and the run that supervises it ends    *)
(* after it, by an exception, or by its death.                             *)
(***************************************************************************)
CONSTANT Run    \* calls of run_job

VARIABLES
  runner,     \* runner[r]: at work, past the cleanup ("over"), or dead
  command,    \* command[r]: not started, running, or ended: no code of it runs
  raised,     \* runs with an exception on its way out
  contained   \* whether the system ends a command with its runner

vars == <<runner, command, raised, contained>>

Become(r, state) == runner' = [runner EXCEPT ![r] = state]
Ended(r) == [command EXCEPT ![r] = IF @ = "running" THEN "ended" ELSE @]

Init ==
  /\ runner = [r \in Run |-> "working"]
  /\ command = [r \in Run |-> "none"]
  /\ raised = {} /\ contained \in BOOLEAN

Start(r) ==
  /\ runner[r] = "working" /\ command[r] = "none"
  /\ command' = [command EXCEPT ![r] = "running"]
  /\ UNCHANGED <<runner, raised, contained>>

(* The command exits or is killed. *)
End(r) ==
  /\ command[r] = "running" /\ command' = Ended(r)
  /\ UNCHANGED <<runner, raised, contained>>

Raise(r) ==
  /\ runner[r] # "dead" /\ raised' = raised \cup {r}
  /\ UNCHANGED <<runner, command, contained>>

(* The cleanup is over: the command has ended, or an exception says that it may
   not have. *)
Finish(r) ==
  /\ runner[r] = "working" /\ Become(r, "over")
  /\ raised' \in {raised, raised \cup {r}}
  /\ command' \in {command, Ended(r)}
  /\ command'[r] = "running" => r \in raised'
  /\ UNCHANGED contained

Die(r) ==
  /\ runner[r] # "dead" /\ Become(r, "dead")
  /\ command' = IF contained THEN Ended(r) ELSE command
  /\ UNCHANGED <<raised, contained>>

Next == \E r \in Run : Start(r) \/ End(r) \/ Raise(r) \/ Finish(r) \/ Die(r)

Spec == Init /\ [][Next]_vars

=============================================================================
