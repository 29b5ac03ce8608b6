------------------------------- MODULE RunJob -------------------------------
(***************************************************************************)
(* run_job and _run_locked (runner.py): one supervised execution of a job  *)
(* under the lease of its lock id.  Many runs, each a process of its own,  *)
(* share the leases (LeaseService), the idempotency records, the           *)
(* heartbeats and the event logs.  A run may raise, be told to stop, lose  *)
(* its lease, or die between any two steps, and a child may outlive it.    *)
(***************************************************************************)
EXTENDS Naturals

CONSTANTS
  Run, Lock, Job,    \* runs; lock ids (economic_lock_id); job ids
  LockOf, JobOf,     \* the lock id and the job id of each run's job
  Capital,           \* runs whose job has capital_permission (EXECUTION)
  Keyed,             \* lock ids that come from an economic key
  Unkillable,        \* runs whose child stays through SIGKILL and its wait
  Contained,         \* whether a child dies with its runner (a Windows job)
  Stalls,            \* Stalls[r]: places where r may take longer than its ttl
  Mapped,            \* the statuses that exit_statuses gives to exit codes
  ReadFaults         \* whether reading a file may raise an OSError

NoRun == "nobody"

ASSUME RunAssumption == NoRun \notin Run
ASSUME JobAssumption == LockOf \in [Run -> Lock] /\ JobOf \in [Run -> Job]
ASSUME KindAssumption == Capital \subseteq Run /\ Keyed \subseteq Lock
ASSUME FaultAssumption ==
  Unkillable \subseteq Run /\ {Contained, ReadFaults} \subseteq BOOLEAN

VARIABLES
  lease,      \* lease[r]: r and the lease of its lock id, see LeaseService
  pc,         \* pc[r]: where r is in run_job
  alive,      \* the runner processes that still exist
  child,      \* child[r]: the command r launched
  due,        \* runs past their deadline, or whose shutdown event is set
  status,     \* status[r]: what run_job returns, SKIPPED until the claim;
              \* FAILED stands for every RunStatus that is not in Statuses
  record,     \* record[k]: idempotency/<k>.json
  heartbeat,  \* heartbeat[j]: heartbeat.json, with the run and its status
  logged,     \* runs that have a record in events.jsonl
  raised      \* runs in which an exception is on its way out of run_job

vars == <<lease, pc, alive, child, due, status, record, heartbeat, logged, raised>>
files == <<record, heartbeat, logged>>

LS == INSTANCE LeaseService

-----------------------------------------------------------------------------
Gates == {"check", "killswitch", "claim"}
Looping == {"poll", "tick", "renew"}                   \* the supervision loop
Launched == Looping \cup {"announce", "cleanup"}       \* after Popen returned
Closing == {"settle", "report", "log"}        \* of the terminal artifacts
Executing == {"setup"} \cup Launched \cup Closing
Leased == Gates \cup Executing \cup {"skip", "release"}

ASSUME StallAssumption == Stalls \in [Run -> SUBSET Leased]

Statuses == {"SKIPPED", "SUCCEEDED", "FAILED", "WAITING"}
ASSUME MapAssumption == {"SUCCEEDED", "FAILED"} \subseteq Mapped /\ Mapped \subseteq Statuses

RecordStates == Statuses \cup {"ABSENT", "IN_PROGRESS"}
NoRecord == [state |-> "ABSENT", run |-> NoRun]

Init ==
  /\ LS!Init
  /\ pc = [r \in Run |-> "new"] /\ alive = Run
  /\ child = [r \in Run |-> "none"]
  /\ due = {} /\ raised = {}
  /\ status = [r \in Run |-> "SKIPPED"]
  /\ record = [k \in Lock |-> NoRecord]
  /\ heartbeat = [j \in Job |-> NoRecord]
  /\ logged = {}

At(r, label) == r \in alive /\ pc[r] = label
Goto(r, label) == pc' = [pc EXCEPT ![r] = label]
Raise(r) == raised' = raised \cup {r}
Write(r, state) == record' = [record EXCEPT ![LockOf[r]] = [state |-> state, run |-> r]]
Beat(r, state) == heartbeat' = [heartbeat EXCEPT ![JobOf[r]] = [state |-> state, run |-> r]]
Become(r, state) == status' = [status EXCEPT ![r] = state]

(* _terminate_tree: SIGTERM, SIGKILL and a bounded wait, whose TimeoutExpired
   is no OSError and leaves run_job; or the job object's termination, whose
   OSError is caught. *)
Kill(r) == child' = [child EXCEPT ![r] = IF @ = "running" THEN "killed" ELSE @]
Killable(r) == child[r] = "running" => r \notin Unkillable
TerminateTree(r) ==
  \/ Killable(r) /\ Kill(r) /\ UNCHANGED raised
  \/ ~Killable(r) /\ (Raise(r) \/ UNCHANGED raised) /\ UNCHANGED child

-----------------------------------------------------------------------------
(* acquire returns a lock that is acquired. *)
Acquire(r) ==
  /\ At(r, "new") /\ LS!Grant(r)
  /\ Goto(r, "check")
  /\ UNCHANGED <<alive, child, due, status, files, raised>>

(* acquire returns a lock that is not: another run owns the lease, or a file
   that acquire cannot parse or evict is in the way. *)
Refused(r) ==
  /\ At(r, "new") /\ Goto(r, "skip")
  /\ UNCHANGED <<lease, alive, child, due, status, files, raised>>

AcquireRaises(r) ==
  /\ At(r, "new") /\ Goto(r, "done") /\ Raise(r)
  /\ UNCHANGED <<lease, alive, child, due, status, files>>

(* Mutant: only a SUCCEEDED record stops the run of an execution job. *)
ClaimedUnlessSucceeded(r) == record[LockOf[r]].state = "SUCCEEDED"

(* Mutant: capital operations alone are not repeated. *)
ClaimedIfCapital(r) == record[LockOf[r]].state # "ABSENT" /\ r \in Capital

(* The record closes the operation to r. *)
Claimed(r) ==
  LET previous == record[LockOf[r]].state
  IN  previous = "SUCCEEDED" \/ (previous # "ABSENT" /\ r \in Capital)

(* A record that cannot be read counts as UNKNOWN: it stops capital alone. *)
Check(r) ==
  /\ At(r, "check")
  /\ \/ Claimed(r) /\ Goto(r, "skip")
     \/ ~Claimed(r) /\ Goto(r, "killswitch")
     \/ /\ ReadFaults /\ record[LockOf[r]].state # "ABSENT" /\ r \notin Capital
        /\ Goto(r, "killswitch")
  /\ UNCHANGED <<lease, alive, child, due, status, files, raised>>

(* exists() raises, or the record is JSON that is no object. *)
CheckRaises(r) ==
  /\ At(r, "check") /\ ReadFaults
  /\ Goto(r, "release") /\ Raise(r)
  /\ UNCHANGED <<lease, alive, child, due, status, files>>

(* kill_switch_reasons: none for a job that is no execution; for an execution
   job what its risk data says, and always some when it has no key. *)
KillSwitch(r) ==
  /\ At(r, "killswitch")
  /\ \/ r \in Capital /\ Goto(r, "skip")
     \/ (r \in Capital => LockOf[r] \in Keyed) /\ Goto(r, "claim")
  /\ UNCHANGED <<lease, alive, child, due, status, files, raised>>

(* append_jsonl writes the event, or it raises: before the write, or after it,
   from the sync or from the unlink of the append lock. *)
AppendEvent(r) ==
  \/ logged' = logged \cup {r} /\ UNCHANGED raised
  \/ logged' \in {logged, logged \cup {r}} /\ Raise(r)

(* skipped.<run>.json and the event are written, or one of them raises. *)
Skip(r) ==
  /\ At(r, "skip") /\ Goto(r, "release")
  /\ AppendEvent(r)
  /\ UNCHANGED <<lease, alive, child, due, status, record, heartbeat>>

(* Mutant: the operation is not claimed before it is launched. *)
ClaimNothing(r) ==
  /\ At(r, "claim") /\ Goto(r, "setup") /\ Become(r, "FAILED")
  /\ UNCHANGED <<lease, alive, child, due, files, raised>>

Claim(r) ==
  /\ At(r, "claim") /\ Goto(r, "setup") /\ Become(r, "FAILED")
  /\ IF LockOf[r] \in Keyed THEN Write(r, "IN_PROGRESS") ELSE UNCHANGED record
  /\ UNCHANGED <<lease, alive, child, due, heartbeat, logged, raised>>

(* atomic_json raises: before its replace, or after it, from the unlink. *)
ClaimRaises(r) ==
  /\ At(r, "claim") /\ LockOf[r] \in Keyed
  /\ Goto(r, "release") /\ Raise(r)
  /\ UNCHANGED record \/ Write(r, "IN_PROGRESS")
  /\ UNCHANGED <<lease, alive, child, due, status, heartbeat, logged>>

-----------------------------------------------------------------------------
(* Provenance is collected and Popen returns: the child is contained, then
   its code runs. *)
Launch(r) ==
  /\ At(r, "setup") /\ Goto(r, "announce")
  /\ child' = [child EXCEPT ![r] = "running"]
  /\ UNCHANGED <<lease, alive, due, status, files, raised>>

(* Provenance, Popen or the containment fails: CONFIGURATION_ERROR, or an
   exception that only the finally clause meets; no code of the child has run. *)
LaunchFails(r) ==
  /\ At(r, "setup") /\ Goto(r, "cleanup")
  /\ UNCHANGED raised \/ Raise(r)
  /\ UNCHANGED <<lease, alive, child, due, status, files>>

(* The first heartbeat is written and the output reader is started. *)
Announce(r) ==
  /\ At(r, "announce") /\ Goto(r, "poll")
  /\ Beat(r, "WAITING")
  /\ UNCHANGED <<lease, alive, child, due, status, record, logged, raised>>

(* The write of the heartbeat raises an OSError, which is caught. *)
AnnounceFails(r) ==
  /\ At(r, "announce") /\ Goto(r, "cleanup")
  /\ UNCHANGED heartbeat \/ Beat(r, "WAITING")
  /\ UNCHANGED <<lease, alive, child, due, status, record, logged, raised>>

(* The reader's thread cannot be started: cleanup kills the child, and its
   join of the unstarted thread raises; no terminal artifact is written. *)
ReaderFails(r) ==
  /\ At(r, "announce") /\ Goto(r, "release")
  /\ Beat(r, "WAITING") /\ Raise(r)
  /\ IF Killable(r) THEN Kill(r) ELSE UNCHANGED child
  /\ UNCHANGED <<lease, alive, due, status, record, logged>>

(* poll() is None: the child is running, as of now. *)
Poll(r) ==
  /\ At(r, "poll") /\ child[r] = "running"
  /\ Goto(r, "tick")
  /\ UNCHANGED <<lease, alive, child, due, status, files, raised>>

(* The child has exited: exit_statuses maps its code to a status, to WAITING or
   SKIPPED too, and success without the expected artifact is PARTIAL. *)
Reap(r) ==
  /\ At(r, "poll") /\ child[r] # "running"
  /\ Goto(r, "cleanup")
  /\ \E s \in Mapped : Become(r, s) /\ (s = "SUCCEEDED" <=> child[r] = "ok")
  /\ UNCHANGED <<lease, alive, child, due, files, raised>>

(* The deadline has passed, or shutdown is set. *)
Stop(r) ==
  /\ At(r, "tick") /\ r \in due
  /\ Goto(r, "cleanup")
  /\ TerminateTree(r)
  /\ UNCHANGED <<lease, alive, due, status, files>>

(* Mutant: a beat puts off the deadline. *)
ContinueUnbounded(r) ==
  /\ At(r, "tick") /\ Goto(r, "poll")
  /\ UNCHANGED <<lease, alive, child, due, status, files, raised>>

(* No heartbeat is due. *)
Continue(r) ==
  /\ At(r, "tick") /\ r \notin due
  /\ Goto(r, "poll")
  /\ UNCHANGED <<lease, alive, child, due, status, files, raised>>

(* refresh returns True; the lease may be lost before the heartbeat is renewed. *)
Refresh(r) ==
  /\ At(r, "tick") /\ r \notin due /\ lease[r] = "owner"
  /\ Goto(r, "renew")
  /\ UNCHANGED <<lease, alive, child, due, status, files, raised>>

Renew(r) ==
  /\ At(r, "renew") /\ Goto(r, "poll")
  /\ Beat(r, "WAITING")
  /\ UNCHANGED <<lease, alive, child, due, status, record, logged, raised>>

(* refresh returns False: the child is killed and the run has failed. *)
LeaseLost(r) ==
  /\ At(r, "tick") /\ r \notin due
  /\ lease[r] # "owner" \/ ReadFaults
  /\ Goto(r, "cleanup")
  /\ TerminateTree(r)
  /\ UNCHANGED <<lease, alive, due, status, files>>

(* refresh or the heartbeat raises an OSError: CONFIGURATION_ERROR. *)
ContinueRaises(r) ==
  /\ \/ At(r, "tick") /\ r \notin due /\ UNCHANGED heartbeat
     \/ At(r, "renew") /\ (UNCHANGED heartbeat \/ Beat(r, "WAITING"))
  /\ Goto(r, "cleanup")
  /\ UNCHANGED <<lease, alive, child, due, status, record, logged, raised>>

-----------------------------------------------------------------------------
(* Mutant: cleanup leaves a child that is still running alone. *)
CleanupWithoutKill(r) ==
  /\ At(r, "cleanup") /\ Goto(r, "settle")
  /\ UNCHANGED <<lease, alive, child, due, status, files, raised>>

(* _close_process_resources: a child still running is killed, the reader is
   joined; a reader that failed or hangs turns the status to FAILED. *)
Cleanup(r) ==
  /\ At(r, "cleanup") /\ Killable(r)
  /\ Kill(r)
  /\ Goto(r, "settle")
  /\ \/ UNCHANGED status
     \/ child[r] # "none" /\ Become(r, "FAILED")
  /\ UNCHANGED <<lease, alive, due, files, raised>>

(* _close_process_resources raises, of a child that stays or in closing the job
   or a stream of one that has ended: no terminal artifact is written. *)
CleanupRaises(r) ==
  /\ At(r, "cleanup") /\ child[r] # "none"
  /\ Goto(r, "release") /\ Raise(r)
  /\ IF Killable(r) THEN Kill(r) ELSE UNCHANGED child
  /\ UNCHANGED <<lease, alive, due, status, files>>

(* Mutant: an error of the terminal record is dropped. *)
SettleQuietly(r) ==
  /\ At(r, "settle") /\ Goto(r, "report")
  /\ \/ LockOf[r] \in Keyed /\ Write(r, status[r]) /\ UNCHANGED raised
     \/ UNCHANGED <<record, raised>>
  /\ UNCHANGED <<lease, alive, child, due, status, heartbeat, logged>>

(* The idempotency record is given the terminal status; an error is kept and
   raised after the other artifacts. *)
Settle(r) ==
  /\ At(r, "settle") /\ Goto(r, "report")
  /\ \/ LockOf[r] \in Keyed /\ Write(r, status[r]) /\ UNCHANGED raised
     \/ LockOf[r] \in Keyed /\ Raise(r) /\ (UNCHANGED record \/ Write(r, status[r]))
     \/ LockOf[r] \notin Keyed /\ UNCHANGED <<record, raised>>
  /\ UNCHANGED <<lease, alive, child, due, status, heartbeat, logged>>

(* The heartbeat is given the terminal status. *)
Report(r) ==
  /\ At(r, "report") /\ Goto(r, "log")
  /\ \/ Beat(r, status[r]) /\ UNCHANGED raised
     \/ Raise(r) /\ (UNCHANGED heartbeat \/ Beat(r, status[r]))
  /\ UNCHANGED <<lease, alive, child, due, status, record, logged>>

(* The record is appended to events.jsonl. *)
Log(r) ==
  /\ At(r, "log") /\ Goto(r, "release")
  /\ AppendEvent(r)
  /\ UNCHANGED <<lease, alive, child, due, status, record, heartbeat>>

(* release removes the lease r still has; it may raise, or fail to read the
   file, and leave it there. *)
Release(r) ==
  /\ At(r, "release") /\ Goto(r, "done")
  /\ \/ LS!Lose(r) /\ UNCHANGED raised
     \/ (lease[r] # "owner" \/ ReadFaults) /\ UNCHANGED <<lease, raised>>
     \/ lease[r] # "new" /\ Raise(r) /\ UNCHANGED lease
  /\ UNCHANGED <<alive, child, due, status, files>>

-----------------------------------------------------------------------------
(* The runner process ends, at any point of the run. *)
Die(r) ==
  /\ r \in alive /\ pc[r] # "done"
  /\ alive' = alive \ {r}
  /\ IF Contained /\ Killable(r) THEN Kill(r) ELSE UNCHANGED child
  /\ UNCHANGED <<lease, pc, due, status, files, raised>>

(* An acquirer evicts the lease of r: its process is gone, or it left the
   lease behind, or it did not renew it in time.  r itself does not notice:
   it goes on as it is, and only refresh looks at the lease again. *)
Evict(r) ==
  /\ r \notin alive \/ pc[r] = "done" \/ pc[r] \in Stalls[r]
  /\ LS!Lose(r)
  /\ UNCHANGED <<pc, alive, child, due, status, files, raised>>

(* The child exits by itself; "ok" is a code that exit_statuses maps to
   SUCCEEDED, with the expected artifact there. *)
ChildExits(r) ==
  /\ child[r] = "running"
  /\ \E code \in {"ok", "bad"} : child' = [child EXCEPT ![r] = code]
  /\ UNCHANGED <<lease, pc, alive, due, status, files, raised>>

(* timeout_seconds have passed, or a signal sets the shutdown event. *)
Due(r) ==
  /\ pc[r] \in Looping /\ r \in alive \ due
  /\ due' = due \cup {r}
  /\ UNCHANGED <<lease, pc, alive, child, status, files, raised>>

Step(r) ==
  \/ Check(r) \/ CheckRaises(r) \/ KillSwitch(r) \/ Skip(r) \/ Claim(r) \/ ClaimRaises(r)
  \/ Launch(r) \/ LaunchFails(r) \/ Announce(r) \/ AnnounceFails(r) \/ ReaderFails(r)
  \/ Poll(r) \/ Reap(r) \/ Stop(r) \/ Continue(r) \/ Refresh(r) \/ Renew(r)
  \/ LeaseLost(r) \/ ContinueRaises(r) \/ Cleanup(r) \/ CleanupRaises(r)
  \/ Settle(r) \/ Report(r) \/ Log(r) \/ Release(r)

Next ==
  \E r \in Run :
    \/ Acquire(r) \/ Refused(r) \/ AcquireRaises(r) \/ Step(r)
    \/ Die(r) \/ Evict(r) \/ ChildExits(r) \/ Due(r)

Spec == Init /\ [][Next]_vars

(* A run that has started goes on, and its deadline comes: timeout_seconds is
   a finite number and every step of the loop ends. *)
FairSpec == Spec /\ \A r \in Run : WF_vars(Step(r)) /\ WF_vars(Due(r))

-----------------------------------------------------------------------------
SameLock(r, s) == LockOf[r] = LockOf[s]
OnLock(k) == {r \in Run : LockOf[r] = k}

(* The child of r outlived its runner, or the runner's attempts to kill it. *)
Escaped(r) == r \notin alive \/ r \in Unkillable \cap raised

(* The values of the variables. *)
TypeOK ==
  /\ LS!LeaseTypeOK
  /\ pc \in [Run -> {"new", "done"} \cup Leased]
  /\ alive \subseteq Run /\ due \subseteq Run /\ raised \subseteq Run /\ logged \subseteq Run
  /\ child \in [Run -> {"none", "running", "ok", "bad", "killed"}]
  /\ status \in [Run -> Statuses]
  /\ record \in [Lock -> [state : RecordStates, run : Run \cup {NoRun}]]
  /\ heartbeat \in [Job -> [state : Statuses \cup {"ABSENT"}, run : Run \cup {NoRun}]]

(* From acquire to the launch, and on to the terminal record. *)
Committing == Gates \cup {"setup"}
Exclusive == Committing \cup Launched \cup {"settle"}

(* No capital run of lock id k is slower than its ttl before its launch. *)
Prompt(k) == \A r \in OnLock(k) \cap Capital : Stalls[r] \cap Committing = {}

(* Where k serves only capital the record takes over from the lease once there
   is a launch; else every run needs its lease until its terminal record. *)
Vital(k) == IF OnLock(k) \subseteq Capital THEN Committing ELSE Exclusive
Timely(k) == \A r \in OnLock(k) : Stalls[r] \cap Vital(k) = {}

(* A run past acquire owns the lease of its lock, for as long as it has come to
   no place where it may be slower than its ttl. *)
LeaseInv ==
  \A r \in alive :
    /\ pc[r] = "new" => lease[r] = "new"
    /\ pc[r] \in Committing /\ Stalls[r] \cap Committing = {} => lease[r] = "owner"
    /\ pc[r] \in Exclusive /\ Stalls[r] \cap Exclusive = {} => lease[r] = "owner"

(* Runs that own a lease exclude each other (LeaseService's own promise). *)
OwnerInv ==
  \A r, s \in Run : SameLock(r, s) /\ lease[r] = "owner" /\ lease[s] = "owner" => r = s

(* What a run has launched, by where it is: nothing before setup, and once
   its resources are closed nothing that still runs. *)
ChildInv ==
  \A r \in Run :
    /\ pc[r] \in {"new", "skip", "setup"} \cup Gates => child[r] = "none"
    /\ pc[r] \in {"announce"} \cup Looping => child[r] # "none"
    /\ pc[r] \in Closing => child[r] # "running"
    /\ status[r] = "SUCCEEDED" => child[r] = "ok"

(* Only a keyed lock serves capital past the kill switch. *)
KeyInv ==
  \A r \in Capital :
    pc[r] \in {"claim"} \cup Executing \/ child[r] # "none" => LockOf[r] \in Keyed

(* A keyed operation is claimed before it is launched, and a record never
   disappears; the claim stays with its run until the terminal record, unless
   a rival overtook the run. *)
InProgress(r) == record[LockOf[r]].state = "IN_PROGRESS" /\ record[LockOf[r]].run = r
Claiming == Exclusive \ Gates      \* from the claim to the terminal record
ClaimInv ==
  \A r \in Run : LockOf[r] \in Keyed =>
    /\ child[r] # "none" \/ pc[r] \in Claiming => record[LockOf[r]].state # "ABSENT"
    /\ Timely(LockOf[r]) /\ r \in alive /\ pc[r] \in Claiming => InProgress(r)

(* Past the check there is no record for capital, and, if records can be read,
   none that says SUCCEEDED for anyone, unless a rival overtook the run. *)
FreshInv ==
  \A r \in alive : Timely(LockOf[r]) /\ pc[r] \in {"killswitch", "claim"} =>
    /\ r \in Capital => record[LockOf[r]].state = "ABSENT"
    /\ ~ReadFaults => record[LockOf[r]].state # "SUCCEEDED"

(* While a capital run can still launch, no other capital run has, whatever
   becomes of the leases of other runs. *)
FirstInv ==
  \A r, s \in Capital :
    /\ SameLock(r, s) /\ r # s /\ Prompt(LockOf[r])
    /\ r \in alive /\ pc[r] \in Committing \ {"check"}
    => child[s] = "none"

(* SUCCEEDED is recorded only of a child that exited so by itself: one that
   was killed, timed out or orphaned never counts. *)
SuccessInv ==
  \A k \in Lock :
    record[k].state = "SUCCEEDED" => record[k].run \in Run /\ child[record[k].run] = "ok"

(* The inductive invariant: how the lease, the record, the child and the
   place of every run hang together, whatever crashes or raises. *)
RunInv ==
  /\ TypeOK /\ LeaseInv /\ OwnerInv /\ ChildInv /\ KeyInv /\ ClaimInv
  /\ FreshInv /\ FirstInv /\ SuccessInv

(* A capital operation is submitted at most once, whatever crashes, raises,
   lost heartbeats, timeouts and later attempts there are. *)
SingleSubmission ==
  \A r, s \in Capital :
    SameLock(r, s) /\ r # s => child[r] = "none" \/ child[s] = "none"

(* A record that says SUCCEEDED is final: no later run, and no late write of
   an earlier one, replaces it. *)
SucceededIsFinal ==
  [][\A k \in Lock : record[k].state = "SUCCEEDED" => record'[k] = record[k]]_vars

(* The record of a capital attempt stays with the run that made it: an
   ambiguous attempt is held for reconciliation, not taken over. *)
AttemptIsHeld ==
  [][\A k \in Lock :
       OnLock(k) \subseteq Capital /\ record[k].state # "ABSENT"
         => record'[k].run = record[k].run]_vars

(* The files, the leases and the processes of run_job implement economic
   operations as they are promised: see EconomicOperation. *)
Operations == INSTANCE EconomicOperation WITH
  Attempt <- Run, Operation <- Keyed, OperationOf <- LockOf, Nobody <- NoRun,
  outcome <- [k \in Keyed |-> record[k]],
  submitted <- {r \in Run : LockOf[r] \in Keyed /\ child[r] # "none"}
ImplementsOperation == Operations!Spec

(* A command runs once, and what runs on past the cleanup, or past the death of
   its runner, is what an exception or the platform accounts for: see Supervision,
   which ProcessTree implements as well. *)
Past == Closing \cup {"release", "done"}      \* the cleanup is over
RunnerOf == [r \in Run |-> IF r \notin alive THEN "dead"
                          ELSE IF pc[r] \in Past THEN "over" ELSE "working"]
CommandOf ==
  [r \in Run |-> IF child[r] = "none" THEN "none"
                ELSE IF child[r] = "running" /\ (Contained => r \in alive) THEN "running"
                ELSE "ended"]
Supervised == INSTANCE Supervision WITH
  runner <- RunnerOf, command <- CommandOf, contained <- Contained
ImplementsSupervision == Supervised!Spec

(* When run_job returns it leaves nothing running and an event of the attempt,
   and the heartbeat and the record, if it was the last to write them, say the
   very status it returned: neither is left at an earlier stage of the run. *)
ReturnedIsRecorded ==
  \A r \in alive :
    pc[r] = "done" /\ r \notin raised =>
      /\ child[r] # "running" /\ r \in logged
      /\ \A entry \in {heartbeat[JobOf[r]], record[LockOf[r]]} :
           entry.run = r => entry.state = status[r]

(* Two commands of one lock id run together only if one of them outlived its
   runner, or the attempts to kill it. *)
OneSupervisedChild ==
  \A r, s \in Run :
    SameLock(r, s) /\ r # s /\ child[r] = "running" /\ child[s] = "running"
      => Escaped(r) \/ Escaped(s)

(* Every run that starts ends, or its process dies. *)
InFlight(r) == r \in alive /\ pc[r] \notin {"new", "done"}
RunsEnd == \A r \in Run : InFlight(r) ~> ~InFlight(r)

=============================================================================
