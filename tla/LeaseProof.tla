----------------------------- MODULE LeaseProof -----------------------------
(***************************************************************************)
(* What holds of Lease.tla for every set of runs, every ttl and every age. *)
(* LeaseInv is inductive: each action keeps its four parts (the lemmas     *)
(* ...Keeps).  The safety properties follow from it, and so does the       *)
(* refinement of LeaseService.                                             *)
(***************************************************************************)
EXTENDS Lease, TLAPS

(* Absent, Torn and NoRun are not run ids. *)
LEMMA NotRuns == Absent \notin Run /\ Torn \notin Run /\ NoRun \notin Run /\ Absent # Torn
  BY RunAssumption DEF Absent, Torn

(* No file, no holder: the invariant holds at the start. *)
LEMMA InitKeeps == Init => LeaseInv
  <1> SUFFICES ASSUME Init PROVE LeaseInv
    OBVIOUS
  <1>1. TypeOK
    BY DEF Init, TypeOK, Ungranted
  <1>2. GuardInv
    BY DEF Init, GuardInv, Guarded
  <1>3. BodyInv
    BY DEF Init, BodyInv
  <1>4. NameInv
    BY NotRuns DEF Init, NameInv, Holding
  <1> QED
    BY <1>1, <1>2, <1>3, <1>4 DEF LeaseInv

(* A call begins by waiting for the guard: nothing is touched. *)
LEMMA CallKeeps ==
  ASSUME NEW r \in Run, LeaseInv, Call(r) PROVE LeaseInv'
  <1>1. TypeOK'
    BY DEF LeaseInv, TypeOK, Call, Goto, Granted, Ungranted, Holding
  <1>2. GuardInv'
    BY DEF LeaseInv, TypeOK, GuardInv, Call, Goto, Guarded
  <1>3. BodyInv'
    BY DEF LeaseInv, TypeOK, BodyInv, Call, Goto
  <1>4. NameInv'
    BY DEF LeaseInv, TypeOK, NameInv, Call, At, Goto, Granted, Holding
  <1> QED
    BY <1>1, <1>2, <1>3, <1>4 DEF LeaseInv

(* The guard is free, so no other process is in a body. *)
LEMMA EnterGuardKeeps ==
  ASSUME NEW r \in Run, LeaseInv, EnterGuard(r) PROVE LeaseInv'
  <1>1. TypeOK'
    BY DEF LeaseInv, TypeOK, EnterGuard, Goto, Granted, Ungranted, Holding
  <1>2. GuardInv'
    BY NotRuns DEF LeaseInv, TypeOK, GuardInv, EnterGuard, Goto
  <1>3. BodyInv'
    BY DEF LeaseInv, TypeOK, BodyInv, EnterGuard, Goto
  <1>4. NameInv'
    BY DEF LeaseInv, TypeOK, NameInv, EnterGuard, At, Goto, Granted, Holding
  <1> QED
    BY <1>1, <1>2, <1>3, <1>4 DEF LeaseInv

(* A call that gives up waiting leaves the files alone. *)
LEMMA GuardTimeoutKeeps ==
  ASSUME NEW r \in Run, LeaseInv, GuardTimeout(r) PROVE LeaseInv'
  <1>1. TypeOK'
    BY DEF LeaseInv, TypeOK, GuardTimeout, Goto, Granted, Ungranted, Holding
  <1>2. GuardInv'
    BY DEF LeaseInv, TypeOK, GuardInv, GuardTimeout, Goto, Guarded
  <1>3. BodyInv'
    BY DEF LeaseInv, TypeOK, BodyInv, GuardTimeout, Goto
  <1>4. NameInv'
    BY DEF LeaseInv, TypeOK, NameInv, GuardTimeout, At, Goto, Granted, Holding
  <1> QED
    BY <1>1, <1>2, <1>3, <1>4 DEF LeaseInv

(* Only the guard's holder creates run.lock. *)
LEMMA CreateKeeps ==
  ASSUME NEW r \in Run, LeaseInv, Create(r) PROVE LeaseInv'
  <1>1. TypeOK'
    BY DEF LeaseInv, TypeOK, Create, Goto, Ungranted
  <1>2. GuardInv'
    BY DEF LeaseInv, TypeOK, GuardInv, Create, At, Goto, Guarded
  <1>3. BodyInv'
    BY NotRuns DEF LeaseInv, TypeOK, BodyInv, Create, Goto
  <1>4. NameInv'
    BY NotRuns
       DEF LeaseInv, TypeOK, NameInv, Create, At, Goto, Granted, Holding
  <1> QED
    BY <1>1, <1>2, <1>3, <1>4 DEF LeaseInv

(* The file that becomes r's is the torn one r created. *)
LEMMA WriteOwnerKeeps ==
  ASSUME NEW r \in Run, LeaseInv, WriteOwner(r) PROVE LeaseInv'
  <1>1. TypeOK'
    BY DEF LeaseInv, TypeOK, WriteOwner, Goto, Leave, Granted, Holding
  <1>2. GuardInv'
    BY DEF LeaseInv, TypeOK, GuardInv, WriteOwner, At, Goto, Leave, Guarded
  <1>3. BodyInv'
    BY DEF LeaseInv, TypeOK, GuardInv, BodyInv, WriteOwner, At, Goto, Leave,
           Guarded
  <1>4. NameInv'
    BY NotRuns
       DEF LeaseInv, TypeOK, BodyInv, NameInv, WriteOwner, At, Goto, Leave,
           Granted, Holding
  <1> QED
    BY <1>1, <1>2, <1>3, <1>4 DEF LeaseInv

(* A failed write leaves a torn file, or one granted to r. *)
LEMMA WriteRaisesKeeps ==
  ASSUME NEW r \in Run, LeaseInv, WriteRaises(r) PROVE LeaseInv'
  <1>1. TypeOK'
    BY DEF LeaseInv, TypeOK, WriteRaises, Goto, Leave, Granted, Ungranted
  <1>2. GuardInv'
    BY DEF LeaseInv, TypeOK, GuardInv, WriteRaises, At, Goto, Leave, Guarded
  <1>3. BodyInv'
    BY DEF LeaseInv, TypeOK, GuardInv, BodyInv, WriteRaises, At, Goto, Leave,
           Guarded
  <1>4. NameInv'
    BY NotRuns
       DEF LeaseInv, TypeOK, BodyInv, NameInv, WriteRaises, At, Goto, Leave,
           Granted, Holding
  <1> QED
    BY <1>1, <1>2, <1>3, <1>4 DEF LeaseInv

(* r goes on to evict only an owner that is dead, denied or old. *)
LEMMA InspectKeeps ==
  ASSUME NEW r \in Run, LeaseInv, Inspect(r) PROVE LeaseInv'
  <1>1. TypeOK'
    BY DEF LeaseInv, TypeOK, Inspect, Goto, Leave, Ungranted
  <1>2. GuardInv'
    BY DEF LeaseInv, TypeOK, GuardInv, Inspect, At, Goto, Leave, Guarded
  <1>3. BodyInv'
    BY NotRuns
       DEF LeaseInv, TypeOK, GuardInv, BodyInv, Inspect, At, Goto, Leave,
           Guarded, Evictable, LooksDead
  <1>4. NameInv'
    BY DEF LeaseInv, TypeOK, NameInv, Inspect, At, Goto, Leave, Granted,
           Holding
  <1> QED
    BY <1>1, <1>2, <1>3, <1>4 DEF LeaseInv

(* The owner that loses its file is recorded if it lives. *)
LEMMA EvictKeeps ==
  ASSUME NEW r \in Run, LeaseInv, Evict(r) PROVE LeaseInv'
  <1>1. TypeOK'
    BY DEF LeaseInv, TypeOK, Evict, Goto, Ungranted
  <1>2. GuardInv'
    BY DEF LeaseInv, GuardInv, Evict, At, Goto, Guarded
  <1>3. BodyInv'
    BY DEF LeaseInv, TypeOK, GuardInv, BodyInv, Evict, At, Goto, Guarded
  <1>4. NameInv'
    BY NotRuns DEF LeaseInv, TypeOK, NameInv, Evict, At, Goto, Granted, Holding
  <1> QED
    BY <1>1, <1>2, <1>3, <1>4 DEF LeaseInv

(* An acquire that raises leaves the file as it is. *)
LEMMA AcquireRaisesKeeps ==
  ASSUME NEW r \in Run, LeaseInv, AcquireRaises(r) PROVE LeaseInv'
  <1>1. TypeOK'
    BY DEF LeaseInv, TypeOK, AcquireRaises, Goto, Leave, Ungranted
  <1>2. GuardInv'
    BY DEF LeaseInv, TypeOK, GuardInv, AcquireRaises, At, Goto, Leave, Guarded
  <1>3. BodyInv'
    BY DEF LeaseInv, BodyInv, AcquireRaises, Goto, Leave
  <1>4. NameInv'
    BY DEF LeaseInv, NameInv, AcquireRaises, At, Goto, Leave, Granted, Holding
  <1> QED
    BY <1>1, <1>2, <1>3, <1>4 DEF LeaseInv

(* Renewing changes the age alone, and in the guard. *)
LEMMA RenewKeeps ==
  ASSUME NEW r \in Run, LeaseInv, Renew(r) PROVE LeaseInv'
  <1>1. TypeOK'
    BY DEF LeaseInv, TypeOK, Renew, Goto, Leave, Granted, Holding
  <1>2. GuardInv'
    BY DEF LeaseInv, TypeOK, GuardInv, Renew, At, Goto, Leave, Guarded
  <1>3. BodyInv'
    BY DEF LeaseInv, GuardInv, BodyInv, Renew, At, Goto, Leave, Guarded
  <1>4. NameInv'
    BY DEF LeaseInv, NameInv, Renew, Goto, Leave, Granted, Holding
  <1> QED
    BY <1>1, <1>2, <1>3, <1>4 DEF LeaseInv

(* A failed refresh leaves the file alone. *)
LEMMA RenewFailsKeeps ==
  ASSUME NEW r \in Run, LeaseInv, RenewFails(r) PROVE LeaseInv'
  <1>1. TypeOK'
    BY DEF LeaseInv, TypeOK, RenewFails, Goto, Leave, Granted, Holding
  <1>2. GuardInv'
    BY DEF LeaseInv, TypeOK, GuardInv, RenewFails, At, Goto, Leave, Guarded
  <1>3. BodyInv'
    BY DEF LeaseInv, BodyInv, RenewFails, Goto, Leave
  <1>4. NameInv'
    BY DEF LeaseInv, NameInv, RenewFails, At, Goto, Leave, Granted, Holding
  <1> QED
    BY <1>1, <1>2, <1>3, <1>4 DEF LeaseInv

(* Only the run the file names unlinks it. *)
LEMMA UnlinkKeeps ==
  ASSUME NEW r \in Run, LeaseInv, Unlink(r) PROVE LeaseInv'
  <1>1. TypeOK'
    BY DEF LeaseInv, TypeOK, Unlink, Goto, Leave, Granted
  <1>2. GuardInv'
    BY DEF LeaseInv, TypeOK, GuardInv, Unlink, At, Goto, Leave, Guarded
  <1>3. BodyInv'
    BY DEF LeaseInv, GuardInv, BodyInv, Unlink, At, Goto, Leave, Guarded
  <1>4. NameInv'
    BY NotRuns DEF LeaseInv, TypeOK, NameInv, Unlink, Goto, Leave, Holding
  <1> QED
    BY <1>1, <1>2, <1>3, <1>4 DEF LeaseInv

(* A release that unlinks nothing leaves the file as it is. *)
LEMMA KeepFileKeeps ==
  ASSUME NEW r \in Run, LeaseInv, KeepFile(r) PROVE LeaseInv'
  <1>1. TypeOK'
    BY DEF LeaseInv, TypeOK, KeepFile, Goto, Leave, Granted
  <1>2. GuardInv'
    BY DEF LeaseInv, TypeOK, GuardInv, KeepFile, At, Goto, Leave, Guarded
  <1>3. BodyInv'
    BY DEF LeaseInv, TypeOK, BodyInv, KeepFile, At, Goto, Leave
  <1>4. NameInv'
    BY NotRuns
       DEF LeaseInv, TypeOK, NameInv, KeepFile, At, Goto, Leave, Granted,
           Ungranted, Holding
  <1> QED
    BY <1>1, <1>2, <1>3, <1>4 DEF LeaseInv

(* A death frees the guard if the process held it. *)
LEMMA DieKeeps ==
  ASSUME NEW r \in Run, LeaseInv, Die(r) PROVE LeaseInv'
  <1>1. TypeOK'
    BY DEF LeaseInv, TypeOK, Die
  <1>2. GuardInv'
    BY DEF LeaseInv, GuardInv, Die
  <1>3. BodyInv'
    BY DEF LeaseInv, BodyInv, Die
  <1>4. NameInv'
    BY DEF LeaseInv, NameInv, Die
  <1> QED
    BY <1>1, <1>2, <1>3, <1>4 DEF LeaseInv

(* The reuse of a pid is invisible to every other process. *)
LEMMA RecycleKeeps ==
  ASSUME NEW r \in Run, LeaseInv, Recycle(r) PROVE LeaseInv'
  <1>1. TypeOK'
    BY DEF LeaseInv, TypeOK, Recycle
  <1>2. GuardInv'
    BY DEF LeaseInv, GuardInv, Recycle
  <1>3. BodyInv'
    BY DEF LeaseInv, BodyInv, Recycle
  <1>4. NameInv'
    BY DEF LeaseInv, NameInv, Recycle
  <1> QED
    BY <1>1, <1>2, <1>3, <1>4 DEF LeaseInv

(* Time passes: the file only gets older. *)
LEMMA TickKeeps == LeaseInv /\ Tick => LeaseInv'
  <1> SUFFICES ASSUME LeaseInv, Tick PROVE LeaseInv'
    OBVIOUS
  <1>1. TypeOK'
    BY DEF LeaseInv, TypeOK, Tick
  <1>2. BodyInv'
    BY TTLAssumption DEF LeaseInv, TypeOK, BodyInv, Tick
  <1> QED
    BY <1>1, <1>2 DEF LeaseInv, GuardInv, NameInv, Tick

(* Every step of every process, and stuttering, keeps the invariant. *)
LEMMA NextKeeps == LeaseInv /\ [Next]_vars => LeaseInv'
  <1> SUFFICES ASSUME LeaseInv, [Next]_vars PROVE LeaseInv'
    OBVIOUS
  <1>1. ASSUME NEW r \in Run, Step(r) PROVE LeaseInv'
    BY <1>1, EnterGuardKeeps, GuardTimeoutKeeps, CreateKeeps, WriteOwnerKeeps,
       WriteRaisesKeeps, InspectKeeps, EvictKeeps, AcquireRaisesKeeps,
       RenewKeeps, RenewFailsKeeps, UnlinkKeeps, KeepFileKeeps
       DEF Step
  <1>2. ASSUME NEW r \in Run, Call(r) \/ Die(r) \/ Recycle(r) PROVE LeaseInv'
    BY <1>2, CallKeeps, DieKeeps, RecycleKeeps
  <1>3. CASE Tick
    BY <1>3, TickKeeps
  <1>4. CASE UNCHANGED vars
    BY <1>4 DEF LeaseInv, TypeOK, GuardInv, BodyInv, NameInv, vars
  <1> QED
    BY <1>1, <1>2, <1>3, <1>4 DEF Next

(* The inductive invariant: at every moment the guard excludes, and run.lock
   names the run that was last granted the lease (runtime.py: _mutation_guard,
   LocalBackend._acquire, LocalLock). *)
THEOREM LeaseInvariant == Spec => []LeaseInv
  BY InitKeeps, NextKeeps, PTL DEF Spec

(* Two live runs never both own the lease of one lock id. *)
THEOREM ExclusiveHoldingTheorem == Spec => []ExclusiveHolding
  <1>1. LeaseInv => ExclusiveHolding
    BY DEF LeaseInv, NameInv, ExclusiveHolding
  <1> QED
    BY <1>1, LeaseInvariant, PTL

(* Where the liveness probe does not mistake a live process for a dead one, a
   live owner loses the lease only to its own release or to the ttl. *)
THEOREM LeaseEndsLawfullyTheorem ==
  ASSUME ~Windows \/ Denied = {} PROVE Spec => LeaseEndsLawfully
  <1> DEFINE Lawful ==
        \A o \in alive :
          lockFile = o /\ lockFile' # o =>
            \/ pc[o] = "unlink"
            \/ \E r \in alive : pc[r] = "evict" /\ age >= TTL[r]
  <1>1. LeaseInv /\ [Next]_vars => Lawful
    <2> SUFFICES ASSUME LeaseInv, [Next]_vars, NEW o \in alive,
                        lockFile = o, lockFile' # o
                 PROVE  \/ pc[o] = "unlink"
                        \/ \E r \in alive : pc[r] = "evict" /\ age >= TTL[r]
      OBVIOUS
    <2>1. o \in Run
      BY DEF LeaseInv, TypeOK
    <2>2. PICK r \in Run : Step(r)
      BY DEF Next, vars, Call, Die, Recycle, Tick
    <2>3. Create(r) \/ WriteOwner(r) \/ WriteRaises(r) \/ Evict(r) \/ Unlink(r)
      BY <2>2
         DEF Step, EnterGuard, GuardTimeout, Inspect, AcquireRaises, Renew,
             RenewFails, KeepFile
    <2>4. ~(Create(r) \/ WriteOwner(r) \/ WriteRaises(r))
      BY <2>1, NotRuns
         DEF LeaseInv, BodyInv, Create, WriteOwner, WriteRaises, At
    <2>5. CASE Evict(r)
      BY <2>5 DEF Evict, At, LeaseInv, BodyInv
    <2>6. CASE Unlink(r)
      BY <2>6 DEF Unlink, At
    <2> QED
      BY <2>3, <2>4, <2>5, <2>6
  <1>2. Spec => [][Lawful]_vars
    BY <1>1, LeaseInvariant, PTL DEF Spec
  <1> QED
    BY <1>2 DEF LeaseEndsLawfully

(* A refresh that succeeds is the refresh of a run whose lease was never
   taken over. *)
THEOREM RenewalProvesOwnershipTheorem == Spec => RenewalProvesOwnership
  <1> DEFINE Proves == \A r \in Run : pc[r] = "renew" /\ pc'[r] = "held" => r \notin evicted
  <1>1. LeaseInv /\ [Next]_vars => Proves
    <2> SUFFICES ASSUME LeaseInv, [Next]_vars, NEW r \in Run,
                        pc[r] = "renew", pc'[r] = "held"
                 PROVE  r \notin evicted
      OBVIOUS
    <2>1. PICK s \in Run : Step(s) \/ Call(s)
      BY DEF Next, vars, Die, Recycle, Tick
    <2>2. s = r
      BY <2>1
         DEF LeaseInv, TypeOK, Step, Call, EnterGuard, GuardTimeout, Create,
             WriteOwner, WriteRaises, Inspect, Evict, AcquireRaises, Renew,
             RenewFails, Unlink, KeepFile, Leave, Goto
    <2>3. Renew(r)
      BY <2>1, <2>2
         DEF LeaseInv, TypeOK, Step, Call, EnterGuard, GuardTimeout, Create,
             WriteOwner, WriteRaises, Inspect, Evict, AcquireRaises,
             RenewFails, Unlink, KeepFile, At, Leave, Goto
    <2> QED
      BY <2>3 DEF Renew, LeaseInv, NameInv
  <1>2. Spec => [][Proves]_vars
    BY <1>1, LeaseInvariant, PTL DEF Spec
  <1> QED
    BY <1>2 DEF RenewalProvesOwnership

-----------------------------------------------------------------------------
(* Seen through LeaseView, a step that leaves run.lock alone and keeps every
   run on its side of the grant is a stutter. *)
LEMMA SameView ==
  ASSUME LeaseInv, lockFile' = lockFile,
         \A r \in Run : pc'[r] \in Granted <=> pc[r] \in Granted
  PROVE  UNCHANGED LeaseView
  BY DEF LeaseView

(* Every step of the files and the guard is a grant, a loss or a stutter. *)
LEMMA StepImplements ==
  ASSUME LeaseInv, [Next]_vars PROVE [LS!Next]_LeaseView
  <1>1. ASSUME NEW r \in Run, Step(r) PROVE [LS!Next]_LeaseView
    <2>1. CASE WriteOwner(r)
      <3>1. LS!Grant(r)
        BY <2>1, NotRuns
           DEF LeaseInv, TypeOK, BodyInv, WriteOwner, At, Goto, Leave, Granted,
               Holding, LeaseView, LS!Grant
      <3> QED
        BY <3>1 DEF LS!Next
    <2>2. CASE WriteRaises(r)
      <3>1. CASE lockFile' = r
        <4>1. LS!Grant(r)
          BY <2>2, <3>1, NotRuns
             DEF LeaseInv, TypeOK, BodyInv, WriteRaises, At, Goto, Leave,
                 Granted, Holding, LeaseView, LS!Grant
        <4> QED
          BY <4>1 DEF LS!Next
      <3>2. CASE lockFile' # r
        <4>1. lockFile' = lockFile
          BY <2>2, <3>2 DEF LeaseInv, BodyInv, WriteRaises, At
        <4>2. \A s \in Run : pc'[s] \in Granted <=> pc[s] \in Granted
          BY <2>2, <3>2
             DEF LeaseInv, TypeOK, WriteRaises, At, Goto, Leave, Granted,
                 Holding
        <4> QED
          BY <4>1, <4>2, SameView
      <3> QED
        BY <3>1, <3>2
    <2>3. CASE Evict(r)
      <3>1. lockFile \in Run /\ LS!Lose(lockFile)
        BY <2>3, NotRuns
           DEF LeaseInv, BodyInv, NameInv, Evict, At, Goto, Granted, Holding,
               LeaseView, LS!Lose
      <3> QED
        BY <3>1 DEF LS!Next
    <2>4. CASE Unlink(r)
      <3>1. LS!Lose(r)
        BY <2>4, NotRuns
           DEF LeaseInv, TypeOK, Unlink, Goto, Leave, Granted, LeaseView,
               LS!Lose
      <3> QED
        BY <3>1 DEF LS!Next
    <2>5. CASE Create(r)
      BY <2>5, NotRuns
         DEF LeaseInv, TypeOK, Create, At, Goto, Granted, Holding, LeaseView
    <2>6. CASE EnterGuard(r) \/ GuardTimeout(r) \/ Inspect(r) \/ AcquireRaises(r)
      <3>1. lockFile' = lockFile /\ \A s \in Run : pc'[s] \in Granted <=> pc[s] \in Granted
        BY <2>6
           DEF LeaseInv, TypeOK, EnterGuard, GuardTimeout, Inspect,
               AcquireRaises, At, Goto, Leave, Granted, Holding
      <3> QED
        BY <3>1, SameView
    <2>7. CASE Renew(r) \/ RenewFails(r) \/ KeepFile(r)
      <3>1. lockFile' = lockFile /\ \A s \in Run : pc'[s] \in Granted <=> pc[s] \in Granted
        BY <2>7
           DEF LeaseInv, TypeOK, Renew, RenewFails, KeepFile, At, Goto, Leave,
               Granted, Holding
      <3> QED
        BY <3>1, SameView
    <2> QED
      BY <1>1, <2>1, <2>2, <2>3, <2>4, <2>5, <2>6, <2>7 DEF Step
  <1>2. ASSUME NEW r \in Run, Call(r) PROVE [LS!Next]_LeaseView
    <2>1. lockFile' = lockFile /\ \A s \in Run : pc'[s] \in Granted <=> pc[s] \in Granted
      BY <1>2 DEF LeaseInv, TypeOK, Call, At, Goto, Granted, Holding
    <2> QED
      BY <2>1, SameView
  <1>3. ASSUME NEW r \in Run, Die(r) \/ Recycle(r) PROVE [LS!Next]_LeaseView
    BY <1>3 DEF Die, Recycle, LeaseView
  <1>4. CASE Tick \/ UNCHANGED vars
    BY <1>4 DEF Tick, vars, LeaseView
  <1> QED
    BY <1>1, <1>2, <1>3, <1>4 DEF Next

(* LocalBackend and LocalLock implement the lease service the runner is
   written against: one owner at a time, and no run twice. *)
THEOREM ServiceTheorem == Spec => ImplementsService
  <1>1. Init => LS!Init
    BY NotRuns DEF Init, LeaseView, Granted, Holding, LS!Init
  <1>2. LeaseInv /\ [Next]_vars => [LS!Next]_LeaseView
    BY StepImplements
  <1>3. Spec => LS!Spec
    BY <1>1, <1>2, LeaseInvariant, PTL DEF Spec, LS!Spec
  <1> QED
    BY <1>3 DEF ImplementsService

=============================================================================
