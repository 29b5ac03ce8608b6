---------------------------- MODULE HealthProof ----------------------------
(***************************************************************************)
(* What health.assess calls healthy has been earned, for any runs, locks   *)
(* and jobs, and even if live runs lose their leases.                      *)
(***************************************************************************)
EXTENDS Health, RunJobProof

(* Success, of a run and in a heartbeat, is a command that exited well. *)
SuccessOf(r) ==
  /\ pc[r] \in {"new", "setup"} \cup Gates => child[r] = "none"
  /\ status[r] = "SUCCEEDED" => child[r] = "ok"
HeartbeatOf(j) ==
  heartbeat[j].state = "SUCCEEDED"
    => heartbeat[j].run \in Run /\ child[heartbeat[j].run] = "ok"
EarnedInv ==
  TypeOK /\ TraceInv /\ (\A r \in Run : SuccessOf(r)) /\ (\A j \in Job : HeartbeatOf(j))

(* The scheduler's last run is one whose process has ended. *)
LatestInv ==
  /\ latest \in [Job -> Run \cup {NoRun}]
  /\ \A j \in Job : latest[j] # NoRun => Ended(latest[j])

(* A child that exited well stays so: nothing is launched in its place. *)
LEMMA OkStays ==
  ASSUME EarnedInv, [Next]_vars, NEW r \in Run, child[r] = "ok"
  PROVE  child'[r] = "ok"
  <1> USE DEF EarnedInv, TypeOK, SuccessOf
  <1>1. ASSUME NEW s \in Run, Step(s) PROVE child'[r] = "ok"
    <2>1. CASE s # r
      BY <1>1, <2>1, StepIsOwn
    <2>2. CASE s = r /\ UNCHANGED child
      BY <2>2
    <2>3. CASE s = r /\ (ReaderFails(s) \/ Stop(s) \/ LeaseLost(s) \/ Cleanup(s)
                         \/ CleanupRaises(s))
      BY <2>3 DEF ReaderFails, Stop, LeaseLost, Cleanup, CleanupRaises, TerminateTree, Kill
    <2>4. CASE s = r /\ Launch(s)
      BY <2>4 DEF Launch, At
    <2> QED
      BY <1>1, <2>1, <2>2, <2>3, <2>4
         DEF Step, files, Check, CheckRaises, KillSwitch, Skip, Claim, ClaimRaises,
             LaunchFails, Announce, AnnounceFails, Poll, Reap, Continue, Refresh, Renew,
             ContinueRaises, Settle, Report, Log, Release
  <1>2. ASSUME NEW s \in Run, Acquire(s) \/ Refused(s) \/ AcquireRaises(s) \/ Die(s)
                              \/ Evict(s) \/ ChildExits(s) \/ Due(s)
        PROVE  child'[r] = "ok"
    BY <1>2 DEF Acquire, Refused, AcquireRaises, Die, Evict, ChildExits, Due, Kill, files
  <1>3. CASE UNCHANGED vars
    BY <1>3 DEF vars
  <1> QED
    BY <1>1, <1>2, <1>3 DEF Next

(* A run's status says SUCCEEDED of such a child alone. *)
LEMMA SuccessKeeps ==
  ASSUME EarnedInv, [Next]_vars, NEW r \in Run
  PROVE  SuccessOf(r)'
  <1> USE DEF EarnedInv, TypeOK, SuccessOf, Gates
  <1>1. ASSUME NEW s \in Run, Step(s) PROVE SuccessOf(r)'
    <2>1. CASE Claim(s) \/ Reap(s) \/ Cleanup(s)
      BY <2>1 DEF Claim, Reap, Cleanup, Become, Kill, At, Goto
    <2>2. CASE Launch(s) \/ ReaderFails(s) \/ CleanupRaises(s)
      BY <2>2 DEF Launch, ReaderFails, CleanupRaises, Kill, At, Goto
    <2>3. CASE Stop(s) \/ LeaseLost(s)
      BY <2>3 DEF Stop, LeaseLost, TerminateTree, Kill, At, Goto
    <2>4. CASE UNCHANGED <<child, status>>
      <3>1. pc'[r] \in {"new", "setup"} \cup Gates => pc[r] \in {"new", "setup"} \cup Gates
        BY <1>1, <2>4
           DEF Step, files, Check, CheckRaises, KillSwitch, Skip, Claim, ClaimRaises,
               Launch, LaunchFails, Announce, AnnounceFails, ReaderFails, Poll, Reap,
               Stop, Continue, Refresh, Renew, LeaseLost, ContinueRaises, Cleanup,
               CleanupRaises, Settle, Report, Log, Release, At, Goto
      <3> QED
        BY <3>1, <2>4
    <2> QED
      BY <1>1, <2>1, <2>2, <2>3, <2>4
         DEF Step, files, Check, CheckRaises, KillSwitch, Skip, ClaimRaises, LaunchFails,
             Announce, AnnounceFails, Poll, Continue, Refresh, Renew, ContinueRaises,
             Settle, Report, Log, Release
  <1>2. ASSUME NEW s \in Run, Acquire(s) \/ Refused(s) \/ AcquireRaises(s) PROVE SuccessOf(r)'
    BY <1>2 DEF Acquire, Refused, AcquireRaises, At, Goto, files
  <1>3. ASSUME NEW s \in Run, Die(s) \/ Evict(s) \/ ChildExits(s) \/ Due(s) PROVE SuccessOf(r)'
    BY <1>3 DEF Die, Evict, ChildExits, Due, Kill, files
  <1>4. CASE UNCHANGED vars
    BY <1>4 DEF vars
  <1> QED
    BY <1>1, <1>2, <1>3, <1>4 DEF Next

(* A heartbeat says SUCCEEDED only of such a run. *)
LEMMA HeartbeatKeeps ==
  ASSUME EarnedInv, [Next]_vars, NEW j \in Job
  PROVE  HeartbeatOf(j)'
  <1>1. CASE heartbeat' = heartbeat
    BY <1>1, OkStays DEF EarnedInv, HeartbeatOf
  <1>2. ASSUME NEW r \in Run, NEW state, Beat(r, state),
               state = "WAITING" \/ (state = status[r])
        PROVE  HeartbeatOf(j)'
    <2>1. heartbeat'[j] = IF j = JobOf[r] THEN [state |-> state, run |-> r] ELSE heartbeat[j]
      BY <1>2, JobAssumption DEF Beat, EarnedInv, TypeOK
    <2>2. CASE j # JobOf[r]
      BY <2>1, <2>2, OkStays DEF EarnedInv, HeartbeatOf
    <2>3. CASE j = JobOf[r]
      BY <1>2, <2>1, <2>3, OkStays DEF EarnedInv, HeartbeatOf, SuccessOf
    <2> QED
      BY <2>2, <2>3
  <1>3. \/ heartbeat' = heartbeat
        \/ \E r \in Run : Beat(r, "WAITING") \/ Beat(r, status[r])
    <2>1. ASSUME NEW r \in Run, Step(r)
          PROVE  heartbeat' = heartbeat \/ Beat(r, "WAITING") \/ Beat(r, status[r])
      BY <2>1
         DEF Step, files, Check, CheckRaises, KillSwitch, Skip, Claim, ClaimRaises,
             Launch, LaunchFails, Announce, AnnounceFails, ReaderFails, Poll, Reap, Stop,
             Continue, Refresh, Renew, LeaseLost, ContinueRaises, Cleanup, CleanupRaises,
             Settle, Report, Log, Release
    <2> QED
      BY <2>1
         DEF Next, vars, files, Acquire, Refused, AcquireRaises, Die, Evict, ChildExits, Due
  <1> QED
    BY <1>1, <1>2, <1>3

LEMMA EarnedKeeps == ASSUME EarnedInv, [Next]_vars PROVE EarnedInv'
  BY TypeKeeps, TraceKeeps, SuccessKeeps, HeartbeatKeeps DEF EarnedInv

(* A process that has ended stays so. *)
LEMMA EndedStays ==
  ASSUME TypeOK, [Next]_vars, NEW r \in Run, Ended(r) PROVE Ended(r)'
  <1> USE DEF TypeOK, Ended
  <1>1. ASSUME NEW s \in Run, Step(s) PROVE Ended(r)'
    BY <1>1
       DEF Step, files, Check, CheckRaises, KillSwitch, Skip, Claim, ClaimRaises, Launch,
           LaunchFails, Announce, AnnounceFails, ReaderFails, Poll, Reap, Stop, Continue,
           Refresh, Renew, LeaseLost, ContinueRaises, Cleanup, CleanupRaises, Settle,
           Report, Log, Release, At, Goto
  <1>2. ASSUME NEW s \in Run, Acquire(s) \/ Refused(s) \/ AcquireRaises(s) \/ Die(s)
                              \/ Evict(s) \/ ChildExits(s) \/ Due(s)
        PROVE  Ended(r)'
    BY <1>2 DEF Acquire, Refused, AcquireRaises, Die, Evict, ChildExits, Due, At, Goto,
                files
  <1>3. CASE UNCHANGED vars
    BY <1>3 DEF vars
  <1> QED
    BY <1>1, <1>2, <1>3 DEF Next

LEMMA LatestKeeps ==
  ASSUME TypeOK, LatestInv, [HealthNext]_healthVars PROVE LatestInv'
  <1>1. CASE RunStep
    <2> SUFFICES ASSUME NEW j \in Job
                 PROVE  \/ latest'[j] = NoRun
                        \/ \E r \in Run : latest'[j] = r /\ Ended(r)'
      BY <1>1 DEF LatestInv, RunStep, Ended
    <2>1. CASE \E r \in Run : JobOf[r] = j /\ ~Ended(r) /\ Ended(r)'
      <3>1. latest'[j] = CHOOSE r \in Run : JobOf[r] = j /\ ~Ended(r) /\ Ended(r)'
        BY <1>1, <2>1 DEF RunStep
      <3> QED
        BY <2>1, <3>1
    <2>2. CASE ~\E r \in Run : JobOf[r] = j /\ ~Ended(r) /\ Ended(r)'
      <3>1. latest'[j] = latest[j]
        BY <1>1, <2>2 DEF RunStep
      <3>2. CASE latest[j] = NoRun
        BY <3>1, <3>2
      <3>3. CASE latest[j] # NoRun
        <4>1. latest[j] \in Run /\ Ended(latest[j])
          BY <3>3 DEF LatestInv
        <4>2. PICK r \in Run : latest[j] = r
          BY <4>1
        <4>3. Ended(r)'
          BY <1>1, <4>1, <4>2, EndedStays DEF RunStep
        <4> QED
          BY <3>1, <4>2, <4>3
      <3> QED
        BY <3>2, <3>3
    <2> QED
      BY <2>1, <2>2
  <1>2. CASE UNCHANGED <<vars, latest>>
    BY <1>2 DEF LatestInv, Ended, vars
  <1> QED
    BY <1>1, <1>2 DEF HealthNext, Age, healthVars

-----------------------------------------------------------------------------
(* A job is called healthy only for a command that exited well, and never over
   a last run that died, raised or left its claim open. *)
THEOREM HealthIsEarnedTheorem == HealthSpec => []HealthIsEarned
  <1>1. HealthInit => EarnedInv /\ LatestInv
    <2> SUFFICES ASSUME HealthInit PROVE EarnedInv /\ LatestInv
      OBVIOUS
    <2>1. TypeOK /\ TraceInv
      BY InitTraces, InitKeeps DEF HealthInit, RunInv
    <2>2. \A r \in Run : SuccessOf(r)
      BY DEF HealthInit, Init, SuccessOf
    <2>3. \A j \in Job : HeartbeatOf(j)
      BY DEF HealthInit, Init, HeartbeatOf, NoRecord
    <2>4. LatestInv
      BY DEF HealthInit, LatestInv
    <2> QED
      BY <2>1, <2>2, <2>3, <2>4 DEF EarnedInv
  <1>2. EarnedInv /\ LatestInv /\ [HealthNext]_healthVars => EarnedInv' /\ LatestInv'
    <2> SUFFICES ASSUME EarnedInv, LatestInv, [HealthNext]_healthVars
                 PROVE  EarnedInv' /\ LatestInv'
      OBVIOUS
    <2>1. [Next]_vars
      BY DEF HealthNext, RunStep, Age, healthVars
    <2> QED
      BY <2>1, EarnedKeeps, LatestKeeps DEF EarnedInv
  <1>3. EarnedInv /\ LatestInv => HealthIsEarned
    <2> SUFFICES ASSUME EarnedInv, LatestInv, NEW j \in Job, NEW answer \in Inspect(j),
                        Assess(j, answer) = "SUCCEEDED"
                 PROVE  /\ heartbeat[j].run \in Run /\ child[heartbeat[j].run] = "ok"
                        /\ latest[j] # NoRun => EndedWell(latest[j])
      BY DEF HealthIsEarned
    <2>1. heartbeat[j].state = "SUCCEEDED" /\ answer \in {"SUCCEEDED", "WAITING"}
      BY DEF Assess, Inspect
    <2>2. heartbeat[j].run \in Run /\ child[heartbeat[j].run] = "ok"
      BY <2>1 DEF EarnedInv, HeartbeatOf
    <2>3. ASSUME latest[j] # NoRun PROVE EndedWell(latest[j])
      <3>1. MayExitWithZero(latest[j])
        BY <2>1, <2>3 DEF Inspect
      <3>2. latest[j] \in Run /\ pc[latest[j]] = "done"
        BY <2>3, <3>1 DEF LatestInv, Ended, MayExitWithZero
      <3>3. Trace(latest[j]) /\ SuccessOf(latest[j])
        BY <3>2 DEF EarnedInv, TraceInv
      <3>4. ~InProgress(latest[j])
        BY <3>1, <3>2, <3>3
           DEF MayExitWithZero, EarnedInv, TypeOK, Statuses, Trace, Written, InProgress
      <3> QED
        BY <3>1, <3>2, <3>3, <3>4 DEF MayExitWithZero, EndedWell, Trace, SuccessOf
    <2> QED
      BY <2>2, <2>3
  <1> QED
    BY <1>1, <1>2, <1>3, PTL DEF HealthSpec

=============================================================================
