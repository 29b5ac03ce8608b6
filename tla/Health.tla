------------------------------- MODULE Health -------------------------------
(***************************************************************************)
(* health.assess over the files run_job leaves and the result the task     *)
(* scheduler keeps of the job (windows.inspect_scheduled_task): what an    *)
(* operator is told of a job whose runs raise, die, overlap and are        *)
(* skipped.  Each run is one start of `predictor-ops run` by the task.     *)
(***************************************************************************)
EXTENDS RunJob

CONSTANT ByDefault   \* runs whose exit_statuses give SUCCEEDED to code 0 alone

ASSUME ExitAssumption == ByDefault \subseteq Run

VARIABLES
  latest,   \* latest[j]: the run of j the scheduler saw end last
  aged      \* jobs whose terminal heartbeat is older than max_age_seconds

healthVars == <<vars, latest, aged>>

HealthInit ==
  /\ Init
  /\ latest = [j \in Job |-> NoRun]
  /\ aged = {}

-----------------------------------------------------------------------------
Ended(r) == pc[r] = "done" \/ r \notin alive

(* A run does a step: a heartbeat it writes is young, and if its process ends
   the scheduler keeps its result as the last of its job. *)
RunStep ==
  /\ Next
  /\ aged' = {j \in aged : heartbeat'[j] = heartbeat[j]}
  /\ latest' = [j \in Job |->
       IF \E r \in Run : JobOf[r] = j /\ ~Ended(r) /\ Ended(r)'
       THEN CHOOSE r \in Run : JobOf[r] = j /\ ~Ended(r) /\ Ended(r)'
       ELSE latest[j]]

(* max_age_seconds have passed since finished_at. *)
Age(j) ==
  /\ heartbeat[j].state \in Statuses \ {"WAITING"} /\ j \notin aged
  /\ aged' = aged \cup {j}
  /\ UNCHANGED <<vars, latest>>

HealthNext ==
  RunStep \/ \E j \in Job : Age(j)

HealthSpec == HealthInit /\ [][HealthNext]_healthVars

(* Time goes on; nothing is asked of the runs. *)
HealthFairSpec == HealthSpec /\ \A j \in Job : WF_healthVars(Age(j))

-----------------------------------------------------------------------------
(* main returns run_job's exit code: 0 for SKIPPED, the command's own if that
   decided, and 3 for what run_job raises; a process that dies has another. *)
MayExitWithZero(r) ==
  r \in alive \ raised /\
    (\/ child[r] = "none" /\ status[r] = "SKIPPED"
     \/ status[r] = "SUCCEEDED"
     \/ r \notin ByDefault /\ child[r] = "bad")
MayExitWithError(r) ==
  \/ r \notin alive \ raised
  \/ status[r] = "FAILED" \/ child[r] = "bad"
  \/ r \notin ByDefault /\ child[r] = "ok"

(* inspect_scheduled_task: the query may fail, the task may be disabled or may
   never have ended; else its last result decides. *)
Inspect(j) ==
  {"CONFIGURATION_ERROR", "SKIPPED"}
  \cup (IF latest[j] = NoRun THEN {"WAITING"} ELSE {})
  \cup (IF latest[j] # NoRun /\ MayExitWithZero(latest[j]) THEN {"SUCCEEDED"} ELSE {})
  \cup (IF latest[j] # NoRun /\ MayExitWithError(latest[j]) THEN {"FAILED"} ELSE {})

(* Mutant: a heartbeat is never too old. *)
AssessEver(j, scheduler) ==
  IF scheduler \notin {"NONE", "SUCCEEDED", "WAITING"} THEN scheduler
  ELSE heartbeat[j].state

(* assess, with no scheduler or with what it answers: any trouble of the
   scheduler's goes before the heartbeat, and a heartbeat that is missing or
   too old is a failure. *)
Assess(j, scheduler) ==
  IF scheduler \notin {"NONE", "SUCCEEDED", "WAITING"} THEN scheduler
  ELSE IF heartbeat[j].state = "ABSENT" THEN "FAILED"
  ELSE IF heartbeat[j].state = "SUCCEEDED" /\ j \in aged THEN "FAILED"
  ELSE heartbeat[j].state

-----------------------------------------------------------------------------
(* What an ended run must have left behind to count for a healthy job: no
   exception, an event, no open claim and, if it launched a command whose code 0
   means success, a command that exited well. *)
EndedWell(r) ==
  /\ r \in alive \ raised /\ r \in logged /\ ~InProgress(r)
  /\ r \in ByDefault => child[r] \in {"none", "ok"}

(* A job is healthy by the scheduler and the heartbeat only if the command
   behind the heartbeat exited well, and the last run to end ended well too:
   a run that died or raised is not hidden by the heartbeat of another. *)
HealthIsEarned ==
  \A j \in Job :
    (\E answer \in Inspect(j) : Assess(j, answer) = "SUCCEEDED") =>
      /\ heartbeat[j].run \in Run /\ child[heartbeat[j].run] = "ok"
      /\ latest[j] # NoRun => EndedWell(latest[j])

(* A job that is never run again is not called healthy for ever, even by the
   heartbeat alone. *)
SilenceIsNoticed ==
  \A j \in Job :
    (\A r \in Run : JobOf[r] = j => ~InFlight(r))
      ~> (Assess(j, "NONE") # "SUCCEEDED")

=============================================================================
