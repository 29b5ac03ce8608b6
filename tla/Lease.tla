------------------------------- MODULE Lease -------------------------------
(***************************************************************************)
(* The lease of one lock id: <root>/<lock id>/run.lock and the persistent  *)
(* .mutation.guard beside it (runtime.py: _mutation_guard, LocalBackend,   *)
(* LocalLock).  Each run is a process of its own.  It calls acquire, then  *)
(* refresh any number of times, then release; every call first takes an    *)
(* operating-system lock on the guard, which dies with its process.  A     *)
(* process may end between any two file operations.                        *)
(***************************************************************************)
EXTENDS Naturals

CONSTANTS
  Run,      \* run ids (uuid4), one per run_job call
  TTL,      \* TTL[r]: the ttl r passes to acquire, in clock ticks
  MaxAge,   \* bound of the age of the lease file; an older file stays at it
  Windows,  \* which liveness probe is built in: OpenProcess or os.kill(pid, 0)
  Denied,   \* processes the probe lacks the permission to open or signal
  ReadFaults \* whether reading run.lock may raise an OSError

Absent == "absent"   \* there is no run.lock
Torn   == "torn"     \* run.lock exists but its JSON was never written whole
NoRun  == "nobody"

ASSUME RunAssumption == {Absent, Torn, NoRun} \cap Run = {}
ASSUME TTLAssumption == TTL \in [Run -> Nat \ {0}]
ASSUME MaxAgeAssumption == MaxAge \in Nat
ASSUME ProbeAssumption == Windows \in BOOLEAN /\ Denied \subseteq Run
ASSUME ReadAssumption == ReadFaults \in BOOLEAN

VARIABLES
  lockFile,  \* Absent, Torn, or the run that run.lock names
  age,       \* ticks since the mtime of run.lock
  guard,     \* the process that holds the guard, or NoRun
  pc,        \* pc[r]: where r is in its calls
  alive,     \* the processes that still exist
  recycled,  \* ended processes whose pid answers a probe: reused, or a zombie
  evicted    \* history: runs whose lease was taken from them as they lived

vars == <<lockFile, age, guard, pc, alive, recycled, evicted>>

-----------------------------------------------------------------------------
Waiting == {"acquire", "refresh", "release"}           \* in the guard's loop
Guarded == {"create", "write", "inspect", "evict", "renew", "unlink"}
Holding == {"held", "refresh", "renew", "quitting", "release", "unlink"}
Granted == Holding \cup {"released", "leaked"}     \* its id reached run.lock
Ungranted == {"new", "acquire", "create", "write", "inspect", "evict",
              "refused", "failed"}

Init ==
  /\ lockFile = Absent /\ age = 0
  /\ guard = NoRun
  /\ pc = [r \in Run |-> "new"]
  /\ alive = Run /\ recycled = {}
  /\ evicted = {}

At(r, label) == r \in alive /\ pc[r] = label
Goto(r, label) == pc' = [pc EXCEPT ![r] = label]
Leave(r, label) == guard' = NoRun /\ Goto(r, label)

(* The runner starts a call; refresh and release are calls of a holder, and
   a holder whose refresh failed only releases. *)
Call(r) ==
  /\ \/ At(r, "new") /\ Goto(r, "acquire")
     \/ At(r, "held") /\ Goto(r, "refresh")
     \/ (At(r, "held") \/ At(r, "quitting")) /\ Goto(r, "release")
  /\ UNCHANGED <<lockFile, age, guard, alive, recycled, evicted>>

(* Mutant: the guard excludes nobody. *)
EnterGuardShared(r) ==
  /\ \/ At(r, "acquire") /\ Goto(r, "create")
     \/ At(r, "refresh") /\ Goto(r, "renew")
     \/ At(r, "release") /\ Goto(r, "unlink")
  /\ guard' = r
  /\ UNCHANGED <<lockFile, age, alive, recycled, evicted>>

(* The lock on the guard is granted: the body of the call begins. *)
EnterGuard(r) ==
  /\ guard = NoRun
  /\ \/ At(r, "acquire") /\ Goto(r, "create")
     \/ At(r, "refresh") /\ Goto(r, "renew")
     \/ At(r, "release") /\ Goto(r, "unlink")
  /\ guard' = r
  /\ UNCHANGED <<lockFile, age, alive, recycled, evicted>>

(* Mutant: the wait for the guard has no deadline. *)
GuardNeverTimesOut(r) == FALSE /\ UNCHANGED vars

(* Every try at the guard failed for 30 s, or it cannot be opened: the call
   raises TimeoutError or another OSError. *)
GuardTimeout(r) ==
  /\ \/ At(r, "acquire") /\ Goto(r, "failed")
     \/ At(r, "refresh") /\ Goto(r, "quitting")
     \/ At(r, "release") /\ Goto(r, "leaked")
  /\ UNCHANGED <<lockFile, age, guard, alive, recycled, evicted>>

-----------------------------------------------------------------------------
(* os.open(path, O_CREAT | O_EXCL): the new file is empty at first.  After an
   eviction the guard keeps the name free, so the second of the three tries
   succeeds and the loop's bound is never reached. *)
Create(r) ==
  /\ At(r, "create")
  /\ IF lockFile = Absent
       THEN lockFile' = Torn /\ age' = 0 /\ Goto(r, "write")
       ELSE Goto(r, "inspect") /\ UNCHANGED <<lockFile, age>>
  /\ UNCHANGED <<guard, alive, recycled, evicted>>

(* The owner record is dumped, flushed and fsynced; acquire returns. *)
WriteOwner(r) ==
  /\ At(r, "write")
  /\ lockFile' = r /\ age' = 0
  /\ Leave(r, "held")
  /\ UNCHANGED <<alive, recycled, evicted>>

(* The write raises: run.lock is left empty, cut short, or whole (a failed
   fsync).  The exception leaves acquire, and nobody removes the file. *)
WriteRaises(r) ==
  /\ At(r, "write")
  /\ \/ lockFile' = Torn /\ Leave(r, "failed")
     \/ lockFile' = r /\ Leave(r, "leaked")
  /\ UNCHANGED <<age, alive, recycled, evicted>>

(* Mutant: no probe, only the ttl ends the lease of a dead owner. *)
NeverLooksDead(o) == FALSE

(* What the probe says of the owner's pid.  On Windows a process that cannot
   be opened counts as dead; os.kill counts a permission error as alive. *)
LooksDead(o) ==
  \/ o \notin alive \cup recycled
  \/ Windows /\ o \in Denied

(* A record that cannot be parsed is neither stale nor dead. *)
Evictable(r) == lockFile \in Run /\ (age >= TTL[r] \/ LooksDead(lockFile))

Inspect(r) ==
  /\ At(r, "inspect")
  /\ \/ Evictable(r) /\ Goto(r, "evict") /\ UNCHANGED guard
     \/ (~Evictable(r) \/ ReadFaults) /\ Leave(r, "refused")
  /\ UNCHANGED <<lockFile, age, alive, recycled, evicted>>

(* os.replace to a quarantine name, unlinked next; then the loop retries. *)
Evict(r) ==
  /\ At(r, "evict")
  /\ evicted' = evicted \cup (alive \cap {lockFile})
  /\ lockFile' = Absent /\ age' = 0
  /\ Goto(r, "create")
  /\ UNCHANGED <<guard, alive, recycled>>

(* Creating or replacing run.lock raises an OSError the code lets through. *)
AcquireRaises(r) ==
  /\ At(r, "create") \/ At(r, "evict")
  /\ Leave(r, "failed")
  /\ UNCHANGED <<lockFile, age, alive, recycled, evicted>>

-----------------------------------------------------------------------------
(* Mutant: refresh renews whatever file is there. *)
RenewAny(r) ==
  /\ At(r, "renew") /\ lockFile # Absent
  /\ age' = 0
  /\ Leave(r, "held")
  /\ UNCHANGED <<lockFile, alive, recycled, evicted>>

(* refresh: _owned() holds, and os.utime renews the mtime. *)
Renew(r) ==
  /\ At(r, "renew") /\ lockFile = r
  /\ age' = 0
  /\ Leave(r, "held")
  /\ UNCHANGED <<lockFile, alive, recycled, evicted>>

(* refresh returns False or raises: the file names another run, is gone, or
   could not be read, or utime failed.  The runner gives the lease up. *)
RenewFails(r) ==
  /\ At(r, "renew")
  /\ Leave(r, "quitting")
  /\ UNCHANGED <<lockFile, age, alive, recycled, evicted>>

(* Mutant: release unlinks whatever file is there. *)
UnlinkAny(r) ==
  /\ At(r, "unlink") /\ lockFile # Absent
  /\ lockFile' = Absent /\ age' = 0
  /\ Leave(r, "released")
  /\ UNCHANGED <<alive, recycled, evicted>>

(* release: _owned() holds, and run.lock is unlinked. *)
Unlink(r) ==
  /\ At(r, "unlink") /\ lockFile = r
  /\ lockFile' = Absent /\ age' = 0
  /\ Leave(r, "released")
  /\ UNCHANGED <<alive, recycled, evicted>>

(* release finds a file that is not its own, or that it cannot read; or the
   unlink raises. *)
KeepFile(r) ==
  /\ At(r, "unlink")
  /\ \/ (lockFile # r \/ ReadFaults) /\ Leave(r, "released")
     \/ lockFile = r /\ Leave(r, "leaked")
  /\ UNCHANGED <<lockFile, age, alive, recycled, evicted>>

-----------------------------------------------------------------------------
(* The process ends, at any point; the system drops its lock on the guard. *)
Die(r) ==
  /\ r \in alive
  /\ alive' = alive \ {r}
  /\ guard' = IF guard = r THEN NoRun ELSE guard
  /\ UNCHANGED <<lockFile, age, pc, recycled, evicted>>

(* The pid of an ended process answers again. *)
Recycle(r) ==
  /\ r \notin alive \cup recycled
  /\ recycled' = recycled \cup {r}
  /\ UNCHANGED <<lockFile, age, guard, pc, alive, evicted>>

Tick ==
  /\ lockFile # Absent /\ age < MaxAge
  /\ age' = age + 1
  /\ UNCHANGED <<lockFile, guard, pc, alive, recycled, evicted>>

(* The steps a process takes by itself once it has made a call. *)
Step(r) ==
  \/ EnterGuard(r) \/ GuardTimeout(r)
  \/ Create(r) \/ WriteOwner(r) \/ WriteRaises(r)
  \/ Inspect(r) \/ Evict(r) \/ AcquireRaises(r)
  \/ Renew(r) \/ RenewFails(r) \/ Unlink(r) \/ KeepFile(r)

Next == (\E r \in Run : Call(r) \/ Step(r) \/ Die(r) \/ Recycle(r)) \/ Tick

Spec == Init /\ [][Next]_vars

(* A process that is inside a call keeps running until it ends. *)
FairSpec == Spec /\ \A r \in Run : WF_vars(Step(r))

-----------------------------------------------------------------------------
(* The values of the variables. *)
TypeOK ==
  /\ lockFile \in Run \cup {Absent, Torn}
  /\ age \in Nat
  /\ guard \in Run \cup {NoRun}
  /\ pc \in [Run -> Granted \cup Ungranted]
  /\ alive \subseteq Run /\ recycled \subseteq Run /\ evicted \subseteq Run

(* _mutation_guard excludes: only the process that has it is in a body. *)
GuardInv == \A r \in alive : pc[r] \in Guarded => guard = r

(* A process between the creation and the write of run.lock finds there the
   file it created; one about to evict finds there an owner that is dead (or
   looks it) or older than its ttl. *)
BodyInv ==
  \A r \in alive :
    /\ pc[r] = "write" => lockFile = Torn
    /\ pc[r] = "evict" =>
         /\ lockFile \in Run
         /\ \/ age >= TTL[r]
            \/ lockFile \notin alive
            \/ Windows /\ lockFile \in Denied

(* run.lock names only runs it was granted to, and never again a run it was
   taken from; a live holder is the run it names unless it was evicted. *)
NameInv ==
  /\ lockFile \in Run => pc[lockFile] \in Granted
  /\ \A r \in evicted : lockFile # r /\ pc[r] \in Granted
  /\ \A r \in alive : pc[r] \in Holding => lockFile = r \/ r \in evicted

(* The inductive invariant: what the guard makes true of every interleaving
   of acquire, refresh, release, takeover and process death. *)
LeaseInv == TypeOK /\ GuardInv /\ BodyInv /\ NameInv

(* Of two live runs whose acquire succeeded and whose release is not done,
   one has had its lease taken: two runs never own one lease. *)
ExclusiveHolding ==
  \A r, s \in alive :
    pc[r] \in Holding /\ pc[s] \in Holding /\ r # s
      => r \in evicted \/ s \in evicted

(* A lease that names a live run ends only by that run's own release or, for
   an acquirer, at the age of the ttl it was called with. *)
LeaseEndsLawfully ==
  [][\A o \in alive :
       lockFile = o /\ lockFile' # o =>
         \/ pc[o] = "unlink"
         \/ \E r \in alive : pc[r] = "evict" /\ age >= TTL[r]]_vars

(* refresh never tells a run that lost its lease that it still has it, even
   when the run that took it has ended or released it since. *)
RenewalProvesOwnership ==
  [][\A r \in Run : pc[r] = "renew" /\ pc'[r] = "held" => r \notin evicted]_vars

(* A lease as old as the caller's ttl is recovered, not refused. *)
StaleIsRecovered ==
  [][\A r \in Run :
       pc[r] = "inspect" /\ pc'[r] = "refused" => age < TTL[r]]_vars

(* No call waits for ever: the guard is never left locked by a dead process,
   and the wait for it is bounded. *)
InCall(r) == r \in alive /\ pc[r] \in Waiting \cup Guarded
CallsReturn == \A r \in Run : InCall(r) ~> ~InCall(r)

(* A dead owner is replaced by the next acquirer whose calls do not fail and
   that lives on, without waiting for the ttl. *)
Orphaned(o) == lockFile = o /\ o \notin alive \cup recycled
DeadOwnerIsReplaced ==
  \A o, r \in Run :
    Orphaned(o) /\ At(r, "acquire")
      ~> ~Orphaned(o) \/ r \notin alive \/ pc[r] = "failed"

(* The state of the lease a client of the backend sees. *)
LeaseView ==
  [r \in Run |-> IF lockFile = r THEN "owner"
                 ELSE IF pc[r] \in Granted THEN "gone" ELSE "new"]

LS == INSTANCE LeaseService
        WITH LockOf <- [r \in Run |-> "lock"], lease <- LeaseView

(* LocalBackend and LocalLock keep the promise of LeaseService. *)
ImplementsService == LS!Spec

=============================================================================
