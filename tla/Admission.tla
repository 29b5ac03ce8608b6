------------------------------ MODULE Admission ------------------------------
(***************************************************************************)
(* How a run comes to submit an operation (cli.py, config.py, models.py,   *)
(* operations.py, provenance.py and the gates of runner.py): the jobs file *)
(* is read and validated, the lease is taken, the operation's record and   *)
(* the kill switch are asked, the operation is claimed through AtomicJson, *)
(* the package's identity is established, and the command is launched.     *)
(* Time passes, processes end and the power fails between any two steps.   *)
(***************************************************************************)
EXTENDS AtomicJson, Config, KillSwitch, Provenance

CONSTANTS
  Offered,    \* Offered[r]: the jobs files that r may find
  JobId,      \* the id r is asked to run
  Installs,   \* states of the installed package
  MaxNow      \* bound: the clock

ASSUME ClockAssumption == MaxNow \in Nat
ASSUME InstallAssumption == Installs \subseteq Installations
ASSUME ValueAssumption == {"IN_PROGRESS", "SUCCEEDED", "FAILED"} \subseteq Value

VARIABLES
  pc,         \* pc[r]: where r is
  job,        \* job[r]: the JobConfig that r finds, until r is done
  now,        \* the clock
  since,      \* since[r]: when r got its lease, until it launches
  evicted,    \* runs whose lease another run has taken over
  launched,   \* launched[r]: what r launched, and whether it was admissible
  vanished    \* records that a power loss has taken back

vars == <<atomicVars, pc, job, now, since, evicted, launched, vanished>>
history == <<since, evicted, launched, vanished>>

-----------------------------------------------------------------------------
Leased == {"check", "gate", "claim", "claiming", "launch", "settle", "settling"}

(* What loading the job may come to. *)
Loadable == [r \in Run |-> {LoadJob(f, JobId) : f \in Offered[r]}]

(* The records have paths, and pydantic has made numbers and texts of what is
   compared. *)
Numeric(i) ==
  /\ i.risk_max_age \subseteq Int
  /\ \A m \in Measure : i.kill_switch_limits[m] \subseteq Int
  /\ \A s \in i.risk_snapshot :
       s.observed_at \subseteq Int /\ \A m \in Measure : s.value[m] \in Int
Textual(key) ==
  /\ key.parts \in Seq(Character) \X Seq(Character)
  /\ key.time \in Int /\ key.zone \subseteq Int /\ \A x, y \in key.zone : x = y
Typed(i) ==
  /\ EconomicLockId(i) \in Path /\ Numeric(i)
  /\ \A key \in i.economic_key : i.economic_key = {key} /\ Textual(key)
ASSUME JobAssumption ==
  \A r \in Run : \A found \in Loadable[r] : \A i \in found : Typed(i)

Init ==
  /\ AtomicInit
  /\ pc = [r \in Run |-> "load"]
  /\ job \in {f \in [Run -> UNION {Loadable[r] : r \in Run}] :
               \A r \in Run : f[r] \in Loadable[r]}
  /\ now = 0 /\ since = [r \in Run |-> 0] /\ evicted = {}
  /\ launched = [r \in Run |-> {}]
  /\ vanished = {}

Goto(r, label) == pc' = [pc EXCEPT ![r] = label]
Leave(r) == Goto(r, "done") /\ job' = [job EXCEPT ![r] = {}]
MyJob(r) == The(job[r])
LockId(r) == EconomicLockId(MyJob(r))
IsKeyed(r) == MyJob(r).economic_key # {}

(* FileJobConfigSource.load and load_job: main ends with exit code 3 if the
   file is not valid or the job is not there. *)
Load(r) ==
  /\ pc[r] = "load"
  /\ IF job[r] = {} THEN Leave(r) ELSE Goto(r, "acquire") /\ UNCHANGED job
  /\ UNCHANGED <<atomicVars, now, history>>

(* LeaseService: the lease of the lock id is refused or granted; if a run has it,
   granted once it is older than that run's lock_stale_after_seconds, of which
   that run hears nothing before its command runs. *)
Holders(r) == {o \in Run \ ({r} \cup evicted) : pc[o] \in Leased /\ LockId(o) = LockId(r)}
Acquire(r) ==
  /\ pc[r] = "acquire"
  /\ \/ Leave(r) /\ UNCHANGED <<since, evicted>>
     \/ /\ Goto(r, "check") /\ since' = [since EXCEPT ![r] = now]
        /\ evicted' = evicted \cup Holders(r)
        /\ UNCHANGED job
  /\ UNCHANGED <<atomicVars, now, launched, vanished>>

(* A record that is no whole payload counts as UNKNOWN. *)
Check(r) ==
  /\ pc[r] = "check"
  /\ LET record == file[LockId(r)]
     IN  IF record.value = {"SUCCEEDED"} \/ (record # Absent /\ MyJob(r).capital_permission)
           THEN Leave(r) ELSE Goto(r, "gate") /\ UNCHANGED job
  /\ UNCHANGED <<atomicVars, now, history>>

Gate(r) ==
  /\ pc[r] = "gate"
  /\ IF KillSwitchReasons(MyJob(r), now) # {} THEN Leave(r)
     ELSE Goto(r, IF IsKeyed(r) THEN "claim" ELSE "launch") /\ UNCHANGED job
  /\ UNCHANGED <<atomicVars, now, history>>

(* Mutant: the command is launched first and claimed after. *)
ClaimLater(r) ==
  /\ pc[r] = "claim" /\ Goto(r, "launch")
  /\ UNCHANGED <<atomicVars, job, now, history>>

Claim(r) ==
  /\ pc[r] = "claim" /\ Goto(r, "claiming")
  /\ Begin(r, LockId(r), "IN_PROGRESS")
  /\ UNCHANGED <<job, now, history>>

(* atomic_json returns or raises. *)
Claimed(r) ==
  /\ pc[r] = "claiming" /\ End(r)
  /\ \/ call[r] = "returned" /\ Goto(r, "launch") /\ UNCHANGED job
     \/ call[r] = "raised" /\ Leave(r)
  /\ UNCHANGED <<now, history>>

(* Of the installations of which collect_provenance returns: whether they are
   genuine, should the job's mode ask for that. *)
Identities(strict) ==
  {strict => Genuine(dist) :
     dist \in {d \in Installs :
                CollectProvenance(strict, d) \in {"VALIDATED", "UNVERIFIED"}}}

(* The package's identity, then Popen; a ProvenanceError, what escapes from
   there, and a failed Popen end in the terminal record. *)
Launch(r) ==
  /\ pc[r] = "launch" /\ Goto(r, "settle")
  /\ \/ UNCHANGED launched
     \/ \E genuine \in Identities(MyJob(r).strict) :
          launched' = [launched EXCEPT ![r] =
            {[lock |-> LockId(r), execution |-> MyJob(r).job_type = {"EXECUTION"},
              held |-> r \notin evicted, genuine |-> genuine,
              admissible |-> \E t \in since[r]..now : Admissible(MyJob(r), t)]}]
  /\ since' = [since EXCEPT ![r] = 0]
  /\ UNCHANGED <<atomicVars, job, now, evicted, vanished>>

(* The command has ended, or never started: the terminal record, which says
   SUCCEEDED only of a command that did. *)
Settle(r) ==
  /\ pc[r] = "settle"
  /\ IF IsKeyed(r)
       THEN /\ Goto(r, "settling") /\ UNCHANGED job
            /\ \/ launched[r] # {} /\ Begin(r, LockId(r), "SUCCEEDED")
               \/ Begin(r, LockId(r), "FAILED")
       ELSE Leave(r) /\ UNCHANGED atomicVars
  /\ UNCHANGED <<now, history>>

Settled(r) ==
  /\ pc[r] = "settling" /\ End(r)
  /\ Leave(r)
  /\ UNCHANGED <<now, history>>

Write(r) == AtomicStep(r) /\ UNCHANGED <<pc, job, now, history>>

Step(r) ==
  \/ Load(r) \/ Acquire(r) \/ Check(r) \/ Gate(r) \/ Claim(r) \/ Claimed(r)
  \/ Launch(r) \/ Settle(r) \/ Settled(r)

-----------------------------------------------------------------------------
(* The runner's process ends; its lease is taken over at once. *)
Die(r) ==
  /\ pc[r] \notin {"load", "done"} /\ Leave(r)
  /\ Forget({r})
  /\ UNCHANGED <<file, disk, now, history>>

Reboot ==
  /\ PowerLoss
  /\ LET gone == {r \in Run : pc[r] # "load"}
     IN  /\ pc' = [r \in Run |-> IF r \in gone THEN "done" ELSE pc[r]]
         /\ job' = [r \in Run |-> IF r \in gone THEN {} ELSE job[r]]
  /\ vanished' = vanished \cup {p \in DOMAIN file : file[p] # Absent /\ file'[p] = Absent}
  /\ UNCHANGED <<now, since, evicted, launched>>

Tick == now < MaxNow /\ now' = now + 1 /\ UNCHANGED <<atomicVars, pc, job, history>>

Disk ==
  /\ \E p \in DOMAIN file : WriteBack(p)
  /\ UNCHANGED <<pc, job, now, history>>

Next == (\E r \in Run : Step(r) \/ Write(r) \/ Die(r)) \/ Reboot \/ Tick \/ Disk

Spec == Init /\ [][Next]_vars

-----------------------------------------------------------------------------
(* The values of the variables. *)
Launches == [lock : Path, execution : BOOLEAN, held : BOOLEAN,
             genuine : BOOLEAN, admissible : BOOLEAN]
Places == Leased \cup {"load", "acquire", "done"}
TypeOK ==
  /\ AtomicTypeOK
  /\ pc \in [Run -> Places]
  /\ job = [r \in Run |-> job[r]]
  /\ \A r \in Run : \A i \in job[r] : ValidJob(i) /\ Typed(i)
  /\ now \in Nat /\ since \in [Run -> Nat]
  /\ launched \in [Run -> SUBSET Launches]
  /\ evicted \subseteq Run /\ vanished \subseteq Path

(* Where a run stands: it has a job and writes the record of its lock id only. *)
Placed(r) ==
  /\ pc[r] \notin {"load", "done"} => job[r] # {}
  /\ pc[r] \notin {"claiming", "settling"} => call[r] = "idle"
  /\ pc[r] \in {"claim", "claiming", "settling"} => IsKeyed(r)
  /\ pc[r] \in Leased => since[r] <= now
  /\ call[r] # "idle" => \A a \in arg[r] : a.path = LockId(r)
PlaceInv == \A r \in Run : Placed(r)

(* Two runs have one lease only if it was taken from one of them. *)
LeaseInv ==
  \A r, s \in Run \ evicted :
    r # s /\ pc[r] \in Leased /\ pc[s] \in Leased => LockId(r) # LockId(s)

(* Past the gate a run was admissible at some time since its acquire. *)
Execution(r) == MyJob(r).job_type = {"EXECUTION"}
GateInv ==
  \A r \in Run : pc[r] \in {"claim", "claiming", "launch"} =>
    \E t \in since[r]..now : Admissible(MyJob(r), t)

(* What a run has claimed has a record, and keeps it unless the power fails. *)
Claiming(r) ==
  \/ pc[r] = "claiming" /\ call[r] \in {"unlink", "returned"}
  \/ pc[r] = "launch" /\ IsKeyed(r)
ClaimInv ==
  /\ \A r \in Run : Claiming(r) => file[LockId(r)] # Absent
  /\ \A r \in Run : \A l \in launched[r] :
       l.execution => file[l.lock] # Absent \/ l.lock \in vanished

(* A run that moves capital, has passed the check and still has its lease has no
   predecessor that launched with the lease. *)
FirstInv ==
  \A r \in Run \ evicted, s \in Run :
    r # s /\ pc[r] \in {"gate", "claim", "claiming", "launch"} /\ Execution(r) =>
      \A m \in launched[s] :
        m.execution /\ m.held /\ m.lock = LockId(r) => m.lock \in vanished

(* An execution job is submitted again only if the power failed after the
   claim and before the system had written the record's directory entry, or if
   one of the two runs had lost its lease before it launched. *)
SubmittedOnce ==
  \A r, s \in Run : r # s =>
    \A l \in launched[r], m \in launched[s] :
      l.execution /\ m.execution /\ l.held /\ m.held /\ l.lock = m.lock =>
        l.lock \in vanished

(* What is launched was admissible at a time since the run's acquire, and a
   strict run has verified every file of its package: no combination of missing
   fields, limits, sources and ages slips through the validators and the gate. *)
LaunchedIsAdmissible ==
  \A r \in Run : \A l \in launched[r] : l.admissible /\ l.genuine

(* The inductive invariant. *)
AdmissionInv ==
  /\ TypeOK /\ SyncedInv /\ PlaceInv /\ LeaseInv /\ GateInv /\ ClaimInv /\ FirstInv
  /\ SubmittedOnce /\ LaunchedIsAdmissible

(* Runs of valid jobs share a lease if they serve one operation, however its time
   is written, and keyed ones only then. *)
SameOperation(k, l) ==
  k.parts = l.parts /\ \A x \in k.zone, y \in l.zone : k.time - x = l.time - y
OneLockPerOperation ==
  \A r, s \in Run : \A i \in job[r], k \in job[s] :
    \A x \in i.economic_key, y \in k.economic_key :
      EconomicLockId(i) = EconomicLockId(k) <=> SameOperation(x, y)

=============================================================================
