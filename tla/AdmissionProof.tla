---------------------------- MODULE AdmissionProof ----------------------------
(***************************************************************************)
(* AdmissionInv of Admission.tla is invariant for every number of runs,    *)
(* jobs files and installations, and with it NeverTorn, SubmittedOnce and  *)
(* LaunchedIsAdmissible.                                                   *)
(***************************************************************************)
EXTENDS Admission, TLAPS

-----------------------------------------------------------------------------
(* The pure parts: validation, kill switch and provenance let nothing through. *)

(* The job of a jobs file that loads is valid. *)
LEMMA LoadedIsValid ==
  ASSUME NEW f, NEW i \in LoadJob(f, JobId) PROVE ValidJob(i)
  <1>1. ValidFile(f) /\ i \in Found(f, JobId)
    BY DEF LoadJob
  <1>2. \A k \in 1..Len(f.jobs) : ValidJob(f.jobs[k])
    BY <1>1 DEF ValidFile
  <1> QED
    BY <1>1, <1>2 DEF Found

(* A snapshot without a reason is recent and of the job's own source. *)
LEMMA SnapshotIsReported ==
  ASSUME NEW i, Numeric(i), NEW t \in Nat, NEW s \in i.risk_snapshot,
         SnapshotReasons(i, s, t) = {}
  PROVE  Reported(i, s, t)
  <1>1. FreshnessReasons(i, s, t) = {} /\ i.risk_source # {} /\ s.source = i.risk_source
    BY DEF SnapshotReasons
  <1>2. s.observed_at # {} /\ i.risk_max_age # {}
    BY <1>1 DEF FreshnessReasons
  <1>3. \A o \in s.observed_at, age \in i.risk_max_age : ~(t - o > age) /\ ~(t - o < 0)
    BY <1>1, <1>2 DEF FreshnessReasons
  <1>4. PICK o \in s.observed_at, age \in i.risk_max_age : TRUE
    BY <1>2
  <1>5. o \in Int /\ age \in Int
    BY DEF Numeric
  <1>6. o <= t /\ t <= o + age
    BY <1>3, <1>5
  <1> QED
    BY <1>1, <1>6 DEF Reported

(* Each of its figures was given and is inside its limit. *)
LEMMA MeasureIsInside ==
  ASSUME NEW i, Numeric(i), NEW t \in Nat, NEW s \in i.risk_snapshot, NEW m \in Measure,
         SnapshotReasons(i, s, t) = {}
  PROVE  Inside(i, s, m)
  <1>1. ~Incomplete(s) /\ Exceeded(i, s) = {} /\ i.kill_switch_limits[m] # {}
    BY DEF SnapshotReasons
  <1>2. PICK limit \in i.kill_switch_limits[m] : TRUE
    BY <1>1
  <1>3. limit \in Int /\ s.value[m] \in Int
    BY DEF Numeric
  <1>4. ~(Size(m, s.value[m]) >= limit)
    BY <1>1 DEF Exceeded
  <1>5. s.value[m] < limit /\ (m \in Signed => -limit < s.value[m])
    BY <1>3, <1>4 DEF Size
  <1> QED
    BY <1>1, <1>5 DEF Inside, Incomplete

(* The kill switch says nothing only of an admissible job. *)
LEMMA KillSwitchIsSound ==
  ASSUME NEW i, Numeric(i), NEW t \in Nat, KillSwitchReasons(i, t) = {}
  PROVE  Admissible(i, t)
  <1> SUFFICES ASSUME i.job_type = {"EXECUTION"} PROVE Admissible(i, t)
    BY DEF Admissible
  <1>1. i.risk_snapshot # {}
    BY DEF KillSwitchReasons
  <1>2. \A s \in i.risk_snapshot : SnapshotReasons(i, s, t) = {}
    BY <1>1 DEF KillSwitchReasons
  <1>3. PICK s \in i.risk_snapshot : SnapshotReasons(i, s, t) = {}
    BY <1>1, <1>2
  <1>4. i.economic_key # {} /\ ~Incomplete(s) /\ \A f \in Flag : s.healthy[f]
    BY <1>3 DEF SnapshotReasons
  <1>5. \A f \in Flag : f \in s.fields_set
    BY <1>4 DEF Incomplete
  <1> QED
    BY <1>3, <1>4, <1>5, SnapshotIsReported, MeasureIsInside DEF Admissible

(* Of two texts joined by a separator that neither first part has, the parts can
   be told. *)
LEMMA SeparatedIsInjective ==
  ASSUME NEW p \in Seq(Character), NEW q \in Seq(Character),
         NEW s \in Seq(Character), NEW t \in Seq(Character),
         \A c \in 1..Len(p) : p[c] # Separator,
         \A c \in 1..Len(s) : s[c] # Separator,
         p \o <<Separator>> \o q = s \o <<Separator>> \o t
  PROVE  p = s /\ q = t
  <1> DEFINE u == p \o <<Separator>> \o q
             v == s \o <<Separator>> \o t
  <1>1. <<Separator>> \in Seq(Character)
    BY SeparatorAssumption
  <1>2. /\ u \in Seq(Character) /\ Len(u) = Len(p) + 1 + Len(q)
        /\ v \in Seq(Character) /\ Len(v) = Len(s) + 1 + Len(t)
    BY <1>1
  <1>3. /\ \A c \in 1..Len(p) : u[c] = p[c]
        /\ u[Len(p) + 1] = Separator
        /\ \A c \in 1..Len(q) : u[Len(p) + 1 + c] = q[c]
    BY <1>1
  <1>4. /\ \A c \in 1..Len(s) : v[c] = s[c]
        /\ v[Len(s) + 1] = Separator
        /\ \A c \in 1..Len(t) : v[Len(s) + 1 + c] = t[c]
    BY <1>1
  <1>5. u = v
    OBVIOUS
  <1> HIDE DEF u, v
  <1>6. Len(p) \in Nat /\ Len(s) \in Nat /\ Len(q) \in Nat /\ Len(t) \in Nat
    OBVIOUS
  <1>7. Len(p) = Len(s)
    <2>1. ~(Len(p) < Len(s))
      <3> SUFFICES ASSUME Len(p) < Len(s) PROVE FALSE
        OBVIOUS
      <3>1. Len(p) + 1 \in 1..Len(s)
        BY <1>6
      <3> QED
        BY <1>3, <1>4, <1>5, <3>1
    <2>2. ~(Len(s) < Len(p))
      <3> SUFFICES ASSUME Len(s) < Len(p) PROVE FALSE
        OBVIOUS
      <3>1. Len(s) + 1 \in 1..Len(p)
        BY <1>6
      <3> QED
        BY <1>3, <1>4, <1>5, <3>1
    <2> QED
      BY <1>6, <2>1, <2>2
  <1>8. Len(q) = Len(t)
    BY <1>2, <1>5, <1>6, <1>7
  <1>9. p = s
    BY <1>3, <1>4, <1>5, <1>7
  <1>10. q = t
    <2>1. \A c \in 1..Len(q) : q[c] = t[c]
      BY <1>3, <1>4, <1>5, <1>7, <1>8
    <2> QED
      BY <1>8, <2>1
  <1> QED
    BY <1>9, <1>10

(* Keys have one lock id exactly if they name one operation. *)
LEMMA LockIdFacts ==
  ASSUME NEW i, NEW k, Typed(i), Typed(k), ValidJob(i), ValidJob(k),
         NEW x \in i.economic_key, NEW y \in k.economic_key
  PROVE  EconomicLockId(i) = EconomicLockId(k) <=> SameOperation(x, y)
  <1>1. /\ i.economic_key = {x} /\ Textual(x) /\ ValidKey(x)
        /\ k.economic_key = {y} /\ Textual(y) /\ ValidKey(y)
    BY DEF Typed, ValidJob
  <1>2. The(i.economic_key) = x /\ The(k.economic_key) = y
    BY <1>1 DEF The
  <1>3. /\ EconomicLockId(i) = Economic(Canonical(x))
        /\ EconomicLockId(k) = Economic(Canonical(y))
    BY <1>2 DEF EconomicLockId
  <1>4. EconomicLockId(i) = EconomicLockId(k) <=> Canonical(x) = Canonical(y)
    BY <1>3 DEF Economic
  <1>5. PICK a \in Int, b \in Int : x.zone = {a} /\ y.zone = {b}
    <2>1. \A key : Textual(key) /\ ValidKey(key) => \E z \in Int : key.zone = {z}
      BY DEF Textual, ValidKey, LogicalTimeIsAware
    <2> QED
      BY <1>1, <2>1
  <1>6. Instant(x) = x.time - a /\ Instant(y) = y.time - b
    BY <1>5 DEF Instant, The
  <1>7. SameOperation(x, y) <=> x.parts = y.parts /\ Instant(x) = Instant(y)
    <2>1. x.time \in Int /\ y.time \in Int
      BY <1>1 DEF Textual
    <2>2. (\A c \in x.zone, d \in y.zone : x.time - c = y.time - d)
            <=> x.time - a = y.time - b
      BY <1>5
    <2> QED
      BY <1>6, <2>2 DEF SameOperation
  <1>8. x.parts = y.parts
          <=> x.parts[1] \o <<Separator>> \o x.parts[2] = y.parts[1] \o <<Separator>> \o y.parts[2]
    <2>1. PICK p \in Seq(Character), q \in Seq(Character) : x.parts = <<p, q>>
      BY <1>1 DEF Textual
    <2>2. PICK s \in Seq(Character), t \in Seq(Character) : y.parts = <<s, t>>
      BY <1>1 DEF Textual
    <2>3. (\A c \in 1..Len(p) : p[c] # Separator) /\ (\A c \in 1..Len(s) : s[c] # Separator)
      BY <1>1, <2>1, <2>2 DEF ValidKey, IdentityHasNoSeparator
    <2>4. p \o <<Separator>> \o q = s \o <<Separator>> \o t => p = s /\ q = t
      BY <2>3, SeparatedIsInjective
    <2>5. x.parts[1] = p /\ x.parts[2] = q /\ y.parts[1] = s /\ y.parts[2] = t
      BY <2>1, <2>2
    <2>6. x.parts = y.parts <=> p = s /\ q = t
      BY <2>1, <2>2, <2>5
    <2> QED
      BY <2>4, <2>5, <2>6
  <1> QED
    BY <1>4, <1>7, <1>8 DEF Canonical

(* Strict mode accepts only a genuine installation. *)
LEMMA ProvenanceIsSound ==
  ASSUME NEW dist \in Installations, NEW strict, strict,
         CollectProvenance(strict, dist) \in {"VALIDATED", "UNVERIFIED"}
  PROVE  Genuine(dist)
  <1> DEFINE first == Head(dist.record)
  <1>1. VerifyWheel(dist) = "VALIDATED"
    BY DEF CollectProvenance, VerifyWheel, VerifyRecord
  <1>2. /\ dist.present /\ dist.direct \in {"absent", "plain"}
        /\ dist.record # <<>> /\ VerifyRecord(first) = "VALIDATED"
    BY <1>1 DEF VerifyWheel, Installations, DirectUrls
  <1>3. dist.record[1] = first
    BY <1>2 DEF Installations
  <1>4. Matches(first.rows) /\ first.whole /\ Hashed(first.rows) # {}
    BY <1>2, <1>3 DEF VerifyRecord, Installations, Records
  <1> QED
    BY <1>2, <1>3, <1>4 DEF Genuine, Matches, Hashed

-----------------------------------------------------------------------------
(* Between load and done a run has a job, which is valid. *)
LEMMA MyJobFacts ==
  ASSUME TypeOK, NEW r \in Run, job[r] # {}
  PROVE  /\ ValidJob(MyJob(r)) /\ Numeric(MyJob(r)) /\ LockId(r) \in Path
         /\ Execution(r) => MyJob(r).capital_permission
  <1>1. MyJob(r) \in job[r]
    BY DEF MyJob, The
  <1>2. ValidJob(MyJob(r)) /\ Numeric(MyJob(r)) /\ LockId(r) \in Path
    BY <1>1 DEF TypeOK, Typed, LockId
  <1> QED
    BY <1>2 DEF ValidJob, CapitalPermissionIsIsolated, Execution

(* A job that stays what it is keeps its lock id. *)
LEMMA SameJob ==
  ASSUME NEW r, job'[r] = job[r]
  PROVE  /\ MyJob(r)' = MyJob(r) /\ LockId(r)' = LockId(r)
         /\ IsKeyed(r)' = IsKeyed(r) /\ Execution(r)' = Execution(r)
  BY DEF MyJob, LockId, IsKeyed, Execution

(* The writers of atomic_json. *)
LEMMA WriteKeepsTypes ==
  ASSUME AtomicTypeOK, NEW r \in Run, AtomicStep(r) PROVE AtomicTypeOK'
  <1> USE DEF AtomicTypeOK, Calls, Idle, To, Stored, File
  <1>1. CASE WriteTemp(r) \/ SyncTemp(r) \/ WriteRaises(r) \/ Refused(r) \/ Unlink(r)
    BY <1>1 DEF WriteTemp, SyncTemp, WriteRaises, Refused, Unlink
  <1>2. CASE Replace(r)
    <2>1. PICK a \in arg[r] :
            file' = [file EXCEPT ![a.path] = [value |-> {a.value}, synced |-> temp[r] = "synced"]]
      BY <1>2 DEF Replace
    <2>2. a \in [path : Path, value : Value]
      OBVIOUS
    <2>3. [value |-> {a.value}, synced |-> temp[r] = "synced"] \in File
      BY <2>2
    <2>4. file' \in [Path -> File]
      BY <2>1, <2>2, <2>3
    <2> QED
      BY <1>2, <2>4 DEF Replace
  <1> QED
    BY <1>1, <1>2 DEF AtomicStep

LEMMA WriteKeepsSynced ==
  ASSUME AtomicTypeOK, SyncedInv, NEW r \in Run, AtomicStep(r) PROVE SyncedInv'
  <1> USE DEF AtomicTypeOK, SyncedInv, To, Stored
  <1>1. CASE WriteTemp(r) \/ SyncTemp(r) \/ WriteRaises(r) \/ Refused(r) \/ Unlink(r)
    BY <1>1 DEF WriteTemp, SyncTemp, WriteRaises, Refused, Unlink
  <1>2. CASE Replace(r)
    <2>1. PICK a \in arg[r] :
            file' = [file EXCEPT ![a.path] = [value |-> {a.value}, synced |-> temp[r] = "synced"]]
      BY <1>2 DEF Replace
    <2>2. \A p \in DOMAIN file' : file'[p].synced
      BY <1>2, <2>1 DEF Replace
    <2> QED
      BY <1>2, <2>2 DEF Replace
  <1> QED
    BY <1>1, <1>2 DEF AtomicStep

(* A record is never removed by a writer, and is there once it has been moved. *)
LEMMA WriteKeepsRecords ==
  ASSUME AtomicTypeOK, NEW r \in Run, AtomicStep(r)
  PROVE  /\ \A p \in Path : file[p] # Absent => file'[p] # Absent
         /\ \A s \in Run \ {r} : call'[s] = call[s] /\ arg'[s] = arg[s]
         /\ arg'[r] \subseteq arg[r] /\ call[r] # "idle" /\ call'[r] # "idle"
         /\ call'[r] \in {"unlink", "returned"} =>
              \/ call[r] \in {"unlink", "returned"}
              \/ \E a \in arg[r] : file'[a.path] # Absent
  <1> USE DEF AtomicTypeOK, To, Stored
  <1>1. CASE WriteTemp(r) \/ SyncTemp(r) \/ WriteRaises(r) \/ Refused(r) \/ Unlink(r)
    BY <1>1 DEF WriteTemp, SyncTemp, WriteRaises, Refused, Unlink
  <1>2. CASE Replace(r)
    <2>1. PICK a \in arg[r] :
            file' = [file EXCEPT ![a.path] = [value |-> {a.value}, synced |-> temp[r] = "synced"]]
      BY <1>2 DEF Replace
    <2>2. a.path \in Path /\ file'[a.path].value = {a.value}
      BY <2>1
    <2>3. file'[a.path] # Absent
      <3>1. Absent.value = {} /\ {a.value} # {}
        BY DEF Absent
      <3> QED
        BY <2>2, <3>1
    <2>4. \A p \in Path : file[p] # Absent => file'[p] # Absent
      BY <2>1, <2>3
    <2> QED
      BY <1>2, <2>2, <2>3, <2>4 DEF Replace
  <1> QED
    BY <1>1, <1>2 DEF AtomicStep

(* What a run launches. *)
LEMMA LaunchFacts ==
  ASSUME TypeOK, NEW r \in Run, Launch(r), launched' # launched
  PROVE  \E l :
           /\ launched' = [launched EXCEPT ![r] = {l}]
           /\ l.lock = LockId(r) /\ l.execution = Execution(r) /\ l.held = (r \notin evicted)
           /\ l.genuine /\ l.admissible = \E t \in since[r]..now : Admissible(MyJob(r), t)
           /\ LockId(r) \in Path => l \in Launches
  <1> DEFINE l(genuine) ==
        [lock |-> LockId(r), execution |-> MyJob(r).job_type = {"EXECUTION"},
         held |-> r \notin evicted, genuine |-> genuine,
         admissible |-> \E t \in since[r]..now : Admissible(MyJob(r), t)]
  <1>1. PICK genuine \in Identities(MyJob(r).strict) :
          launched' = [launched EXCEPT ![r] = {l(genuine)}]
    BY DEF Launch
  <1>2. PICK dist \in Installs :
          /\ CollectProvenance(MyJob(r).strict, dist) \in {"VALIDATED", "UNVERIFIED"}
          /\ genuine = (MyJob(r).strict => Genuine(dist))
    BY DEF Identities
  <1>3. genuine = TRUE
    BY <1>2, ProvenanceIsSound, InstallAssumption
  <1>4. /\ l(genuine).lock = LockId(r) /\ l(genuine).execution = Execution(r)
        /\ l(genuine).held = (r \notin evicted) /\ l(genuine).genuine
    BY <1>3 DEF Execution
  <1>5. l(genuine).admissible = \E t \in since[r]..now : Admissible(MyJob(r), t)
    OBVIOUS
  <1>6. LockId(r) \in Path => l(genuine) \in Launches
    BY <1>3 DEF Launches
  <1> QED
    BY <1>1, <1>4, <1>5, <1>6

(* A step of one run leaves the others alone, and the files but for its own call. *)
LEMMA StepKeepsOthers ==
  ASSUME TypeOK, NEW r \in Run, Step(r)
  PROVE  /\ \A s \in Run \ {r} : /\ pc'[s] = pc[s] /\ job'[s] = job[s]
                               /\ since'[s] = since[s] /\ launched'[s] = launched[s]
                               /\ call'[s] = call[s] /\ arg'[s] = arg[s]
         /\ now' = now /\ vanished' = vanished
         /\ evicted \subseteq evicted' /\ (~Acquire(r) => evicted' = evicted)
         /\ file' = file /\ disk' = disk /\ temp' = temp
  <1> USE DEF TypeOK, AtomicTypeOK, atomicVars, history
  <1>1. CASE Load(r)
    BY <1>1 DEF Load, Leave, Goto
  <1>2. CASE Acquire(r)
    BY <1>2 DEF Acquire, Leave, Goto
  <1>3. CASE Check(r)
    BY <1>3 DEF Check, Leave, Goto
  <1>4. CASE Gate(r)
    BY <1>4 DEF Gate, Leave, Goto
  <1>5. CASE Claim(r)
    BY <1>5 DEF Claim, Begin, To, Goto
  <1>6. CASE Claimed(r)
    BY <1>6 DEF Claimed, End, To, Leave, Goto
  <1>7. CASE Launch(r)
    BY <1>7 DEF Launch, Goto
  <1>8. CASE Settle(r)
    BY <1>8 DEF Settle, Begin, To, Leave, Goto
  <1>9. CASE Settled(r)
    BY <1>9 DEF Settled, End, To, Leave, Goto
  <1> QED
    BY <1>1, <1>2, <1>3, <1>4, <1>5, <1>6, <1>7, <1>8, <1>9 DEF Step

(* Paths, values and places stay in their sets. *)
LEMMA StepKeepsTypes ==
  ASSUME TypeOK, PlaceInv, NEW r \in Run, Step(r)
  PROVE  TypeOK'
  <1> USE DEF TypeOK, AtomicTypeOK, Places, Leased, Calls, Idle, atomicVars, history
  <1>1. CASE Load(r)
    BY <1>1 DEF Load, Leave, Goto
  <1>2. CASE Acquire(r)
    BY <1>2 DEF Acquire, Holders, Leave, Goto
  <1>3. CASE Check(r)
    BY <1>3 DEF Check, Leave, Goto
  <1>4. CASE Gate(r)
    BY <1>4 DEF Gate, Leave, Goto
  <1>5. CASE Claim(r)
    <2>1. IsKeyed(r) /\ job[r] # {}
      BY <1>5 DEF Claim, PlaceInv, Placed
    <2>2. LockId(r) \in Path
      BY <2>1, MyJobFacts
    <2> QED
      BY <1>5, <2>2, ValueAssumption DEF Claim, Begin, To, Goto
  <1>6. CASE Claimed(r)
    BY <1>6 DEF Claimed, End, To, Leave, Goto
  <1>7. CASE Launch(r)
    <2>1. LockId(r) \in Path
      BY <1>7, MyJobFacts DEF Launch, PlaceInv, Placed
    <2>2. CASE UNCHANGED launched
      BY <1>7, <2>2 DEF Launch, Goto
    <2>3. CASE ~UNCHANGED launched
      <3>1. PICK l : launched' = [launched EXCEPT ![r] = {l}] /\ l \in Launches
        BY <1>7, <2>1, <2>3, LaunchFacts
      <3>2. launched' \in [Run -> SUBSET Launches]
        BY <3>1
      <3> QED
        BY <1>7, <3>2 DEF Launch, Goto
    <2> QED
      BY <2>2, <2>3
  <1>8. CASE Settle(r)
    <2>1. LockId(r) \in Path
      BY <1>8, MyJobFacts DEF Settle, PlaceInv, Placed
    <2>2. /\ pc' \in [Run -> Places] /\ UNCHANGED <<now, history>>
          /\ job' = job \/ job' = [job EXCEPT ![r] = {}]
      BY <1>8 DEF Settle, Leave, Goto
    <2>3. UNCHANGED atomicVars \/ \E v \in Value : Begin(r, LockId(r), v)
      BY <1>8, ValueAssumption DEF Settle
    <2>4. AtomicTypeOK'
      BY <2>1, <2>3 DEF Begin, To
    <2> QED
      BY <2>2, <2>4
  <1>9. CASE Settled(r)
    BY <1>9 DEF Settled, End, To, Leave, Goto
  <1> QED
    BY <1>1, <1>2, <1>3, <1>4, <1>5, <1>6, <1>7, <1>8, <1>9 DEF Step

(* A run with a lease has the job it came with, and got the lease by Acquire. *)
LEMMA StepKeepsJob ==
  ASSUME TypeOK, NEW r \in Run, Step(r)
  PROVE  /\ job'[r] = job[r] \/ pc'[r] = "done"
         /\ pc'[r] \in Leased => job'[r] = job[r] /\ (pc[r] \in Leased \/ Acquire(r))
  <1> USE DEF TypeOK, Leased
  <1>1. CASE Load(r)
    BY <1>1 DEF Load, Leave, Goto
  <1>2. CASE Acquire(r)
    BY <1>2 DEF Acquire, Leave, Goto
  <1>3. CASE Check(r)
    BY <1>3 DEF Check, Leave, Goto
  <1>4. CASE Gate(r)
    BY <1>4 DEF Gate, Leave, Goto
  <1>5. CASE Claim(r)
    BY <1>5 DEF Claim, Begin, To, Goto
  <1>6. CASE Claimed(r)
    BY <1>6 DEF Claimed, End, To, Leave, Goto
  <1>7. CASE Launch(r)
    BY <1>7 DEF Launch, Goto
  <1>8. CASE Settle(r)
    BY <1>8 DEF Settle, Begin, To, Leave, Goto
  <1>9. CASE Settled(r)
    BY <1>9 DEF Settled, End, To, Leave, Goto
  <1> QED
    BY <1>1, <1>2, <1>3, <1>4, <1>5, <1>6, <1>7, <1>8, <1>9 DEF Step

(* A call of atomic_json is for its path. *)
LEMMA BeginFacts ==
  ASSUME TypeOK, NEW r \in Run, NEW p, NEW v, Begin(r, p, v)
  PROVE  \A a \in arg'[r] : a.path = p
  <1>1. arg'[r] = {[path |-> p, value |-> v]}
    BY DEF Begin, TypeOK, AtomicTypeOK
  <1> QED
    BY <1>1


(* A run writes only the record of the operation it holds. *)
LEMMA StepKeepsPlaces ==
  ASSUME TypeOK, PlaceInv, NEW r \in Run, Step(r)
  PROVE  PlaceInv'
  <1> USE DEF TypeOK, AtomicTypeOK, PlaceInv, Placed, Leased, atomicVars, history
  <1>0. ASSUME NEW s \in Run, s # r PROVE Placed(s)'
    <2>1. /\ pc'[s] = pc[s] /\ job'[s] = job[s] /\ since'[s] = since[s]
          /\ call'[s] = call[s] /\ arg'[s] = arg[s] /\ now' = now
      BY <1>0, StepKeepsOthers
    <2>2. LockId(s)' = LockId(s) /\ IsKeyed(s)' = IsKeyed(s)
      BY <2>1, SameJob
    <2> QED
      BY <2>1, <2>2
  <1>1. ASSUME Load(r) PROVE Placed(r)'
    BY <1>1, SameJob DEF Load, Leave, Goto
  <1>2. ASSUME Acquire(r) PROVE Placed(r)'
    <2>1. /\ pc'[r] \in {"check", "done"} /\ call'[r] = "idle" /\ now' = now
          /\ pc'[r] = "check" => job'[r] = job[r] /\ since'[r] = now
      BY <1>2 DEF Acquire, Leave, Goto
    <2>2. job[r] # {}
      BY <1>2 DEF Acquire
    <2> QED
      BY <2>1, <2>2
  <1>3. ASSUME Check(r) PROVE Placed(r)'
    BY <1>3, SameJob DEF Check, Leave, Goto
  <1>4. ASSUME Gate(r) PROVE Placed(r)'
    BY <1>4, SameJob DEF Gate, Leave, Goto
  <1>5. ASSUME Claim(r) PROVE Placed(r)'
    BY <1>5, SameJob DEF Claim, Begin, To, Goto
  <1>6. ASSUME Claimed(r) PROVE Placed(r)'
    <2>1. /\ pc'[r] \in {"launch", "done"} /\ call'[r] = "idle" /\ now' = now
          /\ pc'[r] = "launch" => job'[r] = job[r] /\ since'[r] = since[r]
      BY <1>6 DEF Claimed, End, To, Leave, Goto
    <2>2. job[r] # {} /\ since[r] <= now
      BY <1>6 DEF Claimed
    <2> QED
      BY <2>1, <2>2
  <1>7. ASSUME Launch(r) PROVE Placed(r)'
    <2>1. /\ pc'[r] = "settle" /\ call'[r] = "idle" /\ now' = now
          /\ job'[r] = job[r] /\ since'[r] = 0
      BY <1>7 DEF Launch, Goto
    <2>2. job[r] # {}
      BY <1>7 DEF Launch
    <2> QED
      BY <2>1, <2>2
  <1>8. ASSUME Settle(r) PROVE Placed(r)'
    <2>1. ASSUME IsKeyed(r) PROVE Placed(r)'
      <3>1. /\ pc'[r] = "settling" /\ job'[r] = job[r] /\ since'[r] = since[r] /\ now' = now
            /\ \A a \in arg'[r] : a.path = LockId(r)
        BY <1>8, <2>1, BeginFacts DEF Settle, Goto
      <3>2. job[r] # {} /\ since[r] <= now
        BY <1>8 DEF Settle
      <3> QED
        BY <2>1, <3>1, <3>2, SameJob
    <2>2. CASE ~IsKeyed(r)
      BY <1>8, <2>2 DEF Settle, Leave, Goto
    <2> QED
      BY <2>1, <2>2
  <1>9. ASSUME Settled(r) PROVE Placed(r)'
    BY <1>9, SameJob DEF Settled, End, To, Leave, Goto
  <1> QED
    BY <1>0, <1>1, <1>2, <1>3, <1>4, <1>5, <1>6, <1>7, <1>8, <1>9 DEF Step

(* Acquire is the only way to a lease, and evicts whoever holds it. *)
LEMMA StepKeepsLeases ==
  ASSUME TypeOK, LeaseInv, NEW r \in Run, Step(r)
  PROVE  LeaseInv'
  <1>0. evicted \subseteq evicted'
    BY StepKeepsOthers
  <1>1. ASSUME NEW s \in Run \ evicted', NEW o \in Run \ ({r, s} \cup evicted'),
               pc'[s] \in Leased, pc'[o] \in Leased
        PROVE  LockId(s)' # LockId(o)'
    <2>1. pc[o] \in Leased /\ LockId(o)' = LockId(o)
      BY <1>1, StepKeepsOthers, SameJob
    <2>2. CASE s # r
      <3>1. pc[s] \in Leased /\ LockId(s)' = LockId(s)
        BY <1>1, <2>2, StepKeepsOthers, SameJob
      <3> QED
        BY <1>0, <1>1, <2>1, <3>1 DEF LeaseInv
    <2>3. CASE s = r
      <3>1. LockId(r)' = LockId(r) /\ (pc[r] \in Leased \/ Acquire(r))
        BY <1>1, <2>3, StepKeepsJob, SameJob
      <3>2. CASE pc[r] \in Leased
        BY <1>0, <1>1, <2>1, <2>3, <3>1, <3>2 DEF LeaseInv
      <3>3. CASE Acquire(r)
        <4>1. pc'[r] # "done"
          BY <1>1, <2>3 DEF Leased
        <4>2. evicted' = evicted \cup Holders(r)
          BY <3>3, <4>1 DEF Acquire, Leave, Goto, TypeOK
        <4>3. o \notin Holders(r) /\ o \in Run \ ({r} \cup evicted)
          BY <1>0, <1>1, <2>3, <4>2
        <4> QED
          BY <2>1, <2>3, <3>1, <4>3 DEF Holders
      <3> QED
        BY <3>1, <3>2, <3>3
    <2> QED
      BY <2>2, <2>3
  <1>2. ASSUME NEW s \in Run \ evicted', NEW o \in Run \ evicted', s # o,
               pc'[s] \in Leased, pc'[o] \in Leased
        PROVE  LockId(s)' # LockId(o)'
    <2>1. CASE o # r
      BY <1>1, <1>2, <2>1
    <2>2. CASE o = r
      BY <1>1, <1>2, <2>2
    <2> QED
      BY <2>1, <2>2
  <1> QED
    BY <1>2 DEF LeaseInv

(* What the gate let through stays admissible at the time of the gate. *)
LEMMA StepKeepsGate ==
  ASSUME TypeOK, PlaceInv, GateInv, NEW r \in Run, Step(r)
  PROVE  GateInv'
  <1> DEFINE Past == {"claim", "claiming", "launch"}
  <1>1. ASSUME NEW s \in Run, s # r, pc'[s] \in Past
        PROVE  \E t \in since'[s]..now' : Admissible(MyJob(s)', t)
    <2>1. /\ pc[s] \in Past /\ MyJob(s)' = MyJob(s)
          /\ since'[s] = since[s] /\ now' = now
      BY <1>1, StepKeepsOthers, SameJob
    <2> QED
      BY <2>1 DEF GateInv
  <1>2. ASSUME pc'[r] \in Past
        PROVE  \E t \in since'[r]..now' : Admissible(MyJob(r)', t)
    <2>1. MyJob(r)' = MyJob(r) /\ now' = now
      BY <1>2, StepKeepsJob, StepKeepsOthers, SameJob DEF Leased
    <2>2. pc[r] \in Past \/ Gate(r)
      BY <1>2 DEF Step, TypeOK, Load, Acquire, Check, Gate, Claim, Claimed, Launch, Settle,
                  Settled, Leave, Goto
    <2>3. since'[r] = since[r]
      BY <1>2 DEF Step, TypeOK, Load, Acquire, Check, Gate, Claim, Claimed, Launch, Settle,
                  Settled, Leave, Goto, history
    <2>4. CASE pc[r] \in Past
      BY <2>1, <2>3, <2>4 DEF GateInv
    <2>5. CASE Gate(r)
      <3>1. KillSwitchReasons(MyJob(r), now) = {}
        BY <1>2, <2>5 DEF Gate, Leave, Goto, TypeOK
      <3>2. Numeric(MyJob(r)) /\ since[r] <= now
        BY <2>5, MyJobFacts DEF Gate, PlaceInv, Placed, Leased
      <3>3. Admissible(MyJob(r), now)
        BY <3>1, <3>2, KillSwitchIsSound DEF TypeOK
      <3>4. now \in since[r]..now
        BY <3>2 DEF TypeOK
      <3> QED
        BY <2>1, <2>3, <3>3, <3>4
    <2> QED
      BY <2>2, <2>4, <2>5
  <1>3. ASSUME NEW s \in Run, pc'[s] \in Past
        PROVE  \E t \in since'[s]..now' : Admissible(MyJob(s)', t)
    <2>1. CASE s = r
      BY <1>2, <1>3, <2>1
    <2>2. CASE s # r
      BY <1>1, <1>3, <2>2
    <2> QED
      BY <2>1, <2>2
  <1> QED
    BY <1>3 DEF GateInv

(* What is launched here, and by whom. *)
LEMMA StepKeepsLaunched ==
  ASSUME TypeOK, NEW r \in Run, Step(r), ~Launch(r)
  PROVE  launched' = launched
  BY DEF Step, TypeOK, Load, Acquire, Check, Gate, Claim, Claimed, Settle, Settled, history

LEMMA NewLaunchFacts ==
  ASSUME TypeOK, NEW r \in Run, Step(r), NEW s \in Run, NEW l \in launched'[s],
         l \notin launched[s]
  PROVE  /\ s = r /\ pc[r] = "launch"
         /\ l.lock = LockId(r) /\ l.execution = Execution(r)
         /\ l.held = (r \notin evicted) /\ evicted' = evicted
         /\ l.genuine /\ l.admissible = \E t \in since[r]..now : Admissible(MyJob(r), t)
  <1>1. s = r /\ launched' # launched
    BY StepKeepsOthers
  <1>2. Launch(r)
    BY <1>1, StepKeepsLaunched
  <1>3. PICK k :
           /\ launched' = [launched EXCEPT ![r] = {k}]
           /\ k.lock = LockId(r) /\ k.execution = Execution(r) /\ k.held = (r \notin evicted)
           /\ k.genuine /\ k.admissible = \E t \in since[r]..now : Admissible(MyJob(r), t)
    BY <1>1, <1>2, LaunchFacts
  <1>4. l = k
    BY <1>1, <1>3 DEF TypeOK
  <1>5. evicted' = evicted
    BY <1>2 DEF Launch
  <1> QED
    BY <1>1, <1>2, <1>3, <1>4, <1>5 DEF Launch

(* Only a claim that has returned leads to a launch. *)
LEMMA StepKeepsClaims ==
  ASSUME TypeOK, PlaceInv, GateInv, ClaimInv, NEW r \in Run, Step(r)
  PROVE  ClaimInv'
  <1>1. ASSUME NEW s \in Run, s # r, Claiming(s)' PROVE file'[LockId(s)'] # Absent
    <2>1. /\ pc'[s] = pc[s] /\ call'[s] = call[s] /\ file' = file
          /\ LockId(s)' = LockId(s) /\ IsKeyed(s)' = IsKeyed(s)
      BY <1>1, StepKeepsOthers, SameJob
    <2>2. Claiming(s)
      BY <1>1, <2>1 DEF Claiming
    <2> QED
      BY <2>1, <2>2 DEF ClaimInv
  <1>2. ASSUME Claiming(r)' PROVE file'[LockId(r)'] # Absent
    <2>1. pc'[r] \in {"claiming", "launch"}
      BY <1>2 DEF Claiming
    <2>2. job'[r] = job[r] /\ LockId(r)' = LockId(r) /\ IsKeyed(r)' = IsKeyed(r)
      BY <2>1, StepKeepsJob, SameJob DEF Leased
    <2>3. Claiming(r)
      BY <1>2, <2>1, <2>2
         DEF Step, TypeOK, AtomicTypeOK, Claiming, Load, Acquire, Check, Gate, Claim,
             Claimed, Launch, Settle, Settled, Begin, End, To, Leave, Goto, atomicVars
    <2> QED
      BY <2>2, <2>3, StepKeepsOthers DEF ClaimInv
  <1>3. ASSUME NEW s \in Run, NEW l \in launched'[s], l.execution
        PROVE  file'[l.lock] # Absent \/ l.lock \in vanished'
    <2>1. file' = file /\ vanished' = vanished
      BY StepKeepsOthers
    <2>2. CASE l \in launched[s]
      BY <1>3, <2>1, <2>2 DEF ClaimInv
    <2>3. CASE l \notin launched[s]
      <3>1. l.lock = LockId(r) /\ Execution(r) /\ pc[r] = "launch"
        BY <1>3, <2>3, NewLaunchFacts
      <3>2. IsKeyed(r)
        BY <3>1 DEF GateInv, Admissible, Execution, IsKeyed
      <3>3. file[LockId(r)] # Absent
        BY <3>1, <3>2 DEF ClaimInv, Claiming
      <3> QED
        BY <2>1, <3>1, <3>3
    <2> QED
      BY <2>2, <2>3
  <1>4. ASSUME NEW s \in Run, Claiming(s)' PROVE file'[LockId(s)'] # Absent
    BY <1>1, <1>2, <1>4
  <1> QED
    BY <1>3, <1>4 DEF ClaimInv

(* A predecessor's record would have stopped the run at the check; a successor has
   no lease unless it took this run's. *)
LEMMA StepKeepsFirst ==
  ASSUME TypeOK, PlaceInv, LeaseInv, ClaimInv, FirstInv, NEW r \in Run, Step(r)
  PROVE  FirstInv'
  <1> DEFINE Going == {"gate", "claim", "claiming", "launch"}
  <1>1. ASSUME NEW s \in Run \ evicted', NEW o \in Run \ {s}, pc'[s] \in Going,
               Execution(s)', NEW m \in launched'[o], m.execution, m.held,
               m.lock = LockId(s)'
        PROVE  m.lock \in vanished'
    <2>0. s \in Run \ evicted
      BY StepKeepsOthers
    <2>1. /\ job'[s] = job[s] /\ LockId(s)' = LockId(s) /\ Execution(s) /\ file' = file
          /\ vanished' = vanished
      BY <1>1, StepKeepsJob, StepKeepsOthers, SameJob DEF Leased
    <2>2. CASE m \notin launched[o]
      <3>1. o \in Run /\ m \in launched'[o]
        BY <1>1
      <3>2. o = r /\ m.lock = LockId(r) /\ pc[r] = "launch" /\ r \notin evicted
        <4>1. o = r /\ m.lock = LockId(r) /\ pc[r] = "launch" /\ m.held = (r \notin evicted)
          BY <2>2, <3>1, NewLaunchFacts
        <4> QED
          BY <1>1, <4>1
      <3>3. pc[s] \in Going
        BY <1>1, <3>2, StepKeepsOthers
      <3> QED
        BY <1>1, <2>0, <2>1, <3>2, <3>3 DEF LeaseInv, Leased
    <2>3. CASE m \in launched[o] /\ pc[s] \in Going
      BY <1>1, <2>0, <2>1, <2>3 DEF FirstInv
    <2>4. CASE m \in launched[o] /\ pc[s] \notin Going
      <3>1. s = r /\ Check(r)
        BY <1>1, <2>4, StepKeepsOthers
           DEF Step, TypeOK, Load, Acquire, Gate, Claim, Claimed, Launch, Settle, Settled,
               Leave, Goto
      <3>2. MyJob(r).capital_permission
        BY <2>1, <3>1, MyJobFacts DEF Check, PlaceInv, Placed
      <3>3. file[LockId(r)] = Absent
        BY <1>1, <3>1, <3>2 DEF Check, Leave, Goto, TypeOK
      <3> QED
        BY <1>1, <2>1, <2>4, <3>1, <3>3 DEF ClaimInv
    <2> QED
      BY <2>2, <2>3, <2>4
  <1> QED
    BY <1>1 DEF FirstInv

(* Whoever launches with its lease is the first to do so. *)
LEMMA StepKeepsSubmissions ==
  ASSUME TypeOK, FirstInv, SubmittedOnce, NEW r \in Run, Step(r)
  PROVE  SubmittedOnce'
  <1>1. ASSUME NEW s \in Run, NEW o \in Run \ {s},
               NEW l \in launched'[s], NEW m \in launched'[o], l \notin launched[s],
               l.execution, m.execution, l.held, m.held, l.lock = m.lock
        PROVE  l.lock \in vanished'
    <2>1. /\ s = r /\ l.lock = LockId(r) /\ Execution(r) /\ pc[r] = "launch"
          /\ r \in Run \ evicted
      BY <1>1, NewLaunchFacts
    <2>2. m \in launched[o] /\ vanished' = vanished
      BY <2>1, StepKeepsOthers
    <2> QED
      BY <1>1, <2>1, <2>2 DEF FirstInv
  <1>2. ASSUME NEW s \in Run, NEW o \in Run \ {s},
               NEW l \in launched'[s], NEW m \in launched'[o],
               l.execution, m.execution, l.held, m.held, l.lock = m.lock
        PROVE  l.lock \in vanished'
    <2>1. CASE l \notin launched[s]
      BY <1>1, <1>2, <2>1
    <2>2. CASE m \notin launched[o]
      BY <1>1, <1>2, <2>2
    <2>3. CASE l \in launched[s] /\ m \in launched[o]
      BY <1>2, <2>3, StepKeepsOthers DEF SubmittedOnce
    <2> QED
      BY <2>1, <2>2, <2>3
  <1> QED
    BY <1>2 DEF SubmittedOnce

(* Whoever launches has passed the gate. *)
LEMMA StepKeepsAdmissible ==
  ASSUME TypeOK, GateInv, LaunchedIsAdmissible, NEW r \in Run, Step(r)
  PROVE  LaunchedIsAdmissible'
  <1>1. ASSUME NEW s \in Run, NEW l \in launched'[s] PROVE l.admissible /\ l.genuine
    <2>1. CASE l \in launched[s]
      BY <2>1 DEF LaunchedIsAdmissible
    <2>2. CASE l \notin launched[s]
      <3>1. /\ l.genuine /\ pc[r] = "launch"
            /\ l.admissible = \E t \in since[r]..now : Admissible(MyJob(r), t)
        BY <1>1, <2>2, NewLaunchFacts
      <3> QED
        BY <3>1 DEF GateInv
    <2> QED
      BY <2>1, <2>2
  <1> QED
    BY <1>1 DEF LaunchedIsAdmissible


-----------------------------------------------------------------------------
(* A step of a run. *)
LEMMA StepKeeps ==
  ASSUME AdmissionInv, NEW r \in Run, Step(r) PROVE AdmissionInv'
  <1>1. SyncedInv'
    <2>1. file' = file /\ disk' = disk /\ temp' = temp
      BY StepKeepsOthers DEF AdmissionInv
    <2>2. \A s \in Run : call'[s] = "replace" => call[s] = "replace"
      BY DEF AdmissionInv, TypeOK, AtomicTypeOK, Step, Load, Acquire, Check, Gate, Claim,
             Claimed, Launch, Settle, Settled, Begin, End, To, atomicVars
    <2> QED
      BY <2>1, <2>2 DEF AdmissionInv, SyncedInv
  <1> QED
    BY <1>1, StepKeepsTypes, StepKeepsPlaces, StepKeepsLeases, StepKeepsGate,
       StepKeepsClaims, StepKeepsFirst, StepKeepsSubmissions, StepKeepsAdmissible
       DEF AdmissionInv

(* A writer's step. *)
LEMMA WriteKeeps ==
  ASSUME AdmissionInv, NEW r \in Run, Write(r) PROVE AdmissionInv'
  <1> USE DEF AdmissionInv
  <1>1. AtomicTypeOK /\ AtomicStep(r) /\ pc' = pc /\ job' = job /\ now' = now
        /\ since' = since /\ launched' = launched /\ vanished' = vanished
        /\ evicted' = evicted
    BY DEF Write, TypeOK, history
  <1>2. \A s \in Run : /\ MyJob(s)' = MyJob(s) /\ LockId(s)' = LockId(s)
                       /\ IsKeyed(s)' = IsKeyed(s) /\ Execution(s)' = Execution(s)
    BY <1>1, SameJob
  <1>3. TypeOK' /\ SyncedInv'
    BY <1>1, WriteKeepsTypes, WriteKeepsSynced DEF TypeOK
  <1>4. LeaseInv' /\ GateInv' /\ FirstInv' /\ SubmittedOnce' /\ LaunchedIsAdmissible'
    BY <1>1, <1>2 DEF LeaseInv, GateInv, FirstInv, SubmittedOnce, LaunchedIsAdmissible
  <1>5. PlaceInv'
    BY <1>1, <1>2, WriteKeepsRecords DEF PlaceInv, Placed
  <1>6. \A s \in Run : Claiming(s)' => file'[LockId(s)'] # Absent
    <2>1. ASSUME NEW s \in Run, Claiming(s)', s # r PROVE file'[LockId(s)'] # Absent
      <3>1. Claiming(s)
        BY <1>1, <1>2, <2>1, WriteKeepsRecords DEF Claiming
      <3>2. LockId(s) \in Path
        BY <3>1, MyJobFacts DEF Claiming, PlaceInv, Placed
      <3> QED
        BY <1>1, <1>2, <3>1, <3>2, WriteKeepsRecords DEF ClaimInv
    <2>2. ASSUME Claiming(r)' PROVE file'[LockId(r)'] # Absent
      <3>1. call[r] # "idle"
        BY <1>1, WriteKeepsRecords
      <3>2. pc[r] = "claiming" /\ call'[r] \in {"unlink", "returned"}
        BY <1>1, <2>2, <3>1 DEF Claiming, PlaceInv, Placed
      <3>3. LockId(r) \in Path
        BY <3>2, MyJobFacts DEF PlaceInv, Placed
      <3>4. CASE call[r] \in {"unlink", "returned"}
        BY <1>1, <1>2, <3>2, <3>3, <3>4, WriteKeepsRecords DEF ClaimInv, Claiming
      <3>5. CASE \E a \in arg[r] : file'[a.path] # Absent
        BY <1>2, <3>1, <3>5 DEF PlaceInv, Placed
      <3> QED
        BY <1>1, <3>2, <3>4, <3>5, WriteKeepsRecords
    <2> QED
      BY <2>1, <2>2
  <1>7. \A s \in Run : \A l \in launched'[s] :
          l.execution => file'[l.lock] # Absent \/ l.lock \in vanished'
    <2>1. \A s \in Run : \A l \in launched[s] : l.lock \in Path
      BY DEF TypeOK, Launches
    <2> QED
      BY <1>1, <2>1, WriteKeepsRecords DEF ClaimInv
  <1> QED
    BY <1>3, <1>4, <1>5, <1>6, <1>7 DEF ClaimInv

(* The end of one process. *)
LEMMA DieKeeps ==
  ASSUME AdmissionInv, NEW r \in Run, Die(r) PROVE AdmissionInv'
  <1> USE DEF AdmissionInv
  <1>1. /\ pc'[r] = "done" /\ job'[r] = {} /\ call'[r] = "idle"
        /\ \A s \in Run \ {r} : /\ pc'[s] = pc[s] /\ job'[s] = job[s]
                                /\ call'[s] = call[s] /\ arg'[s] = arg[s]
                                /\ temp'[s] = temp[s]
        /\ file' = file /\ disk' = disk /\ now' = now
        /\ since' = since /\ launched' = launched /\ vanished' = vanished
        /\ evicted' = evicted
    BY DEF Die, Forget, Leave, Goto, TypeOK, AtomicTypeOK, history
  <1>2. \A s \in Run \ {r} : /\ MyJob(s)' = MyJob(s) /\ LockId(s)' = LockId(s)
                             /\ IsKeyed(s)' = IsKeyed(s) /\ Execution(s)' = Execution(s)
    BY <1>1, SameJob
  <1>3. TypeOK'
    BY DEF Die, Forget, Leave, Goto, TypeOK, AtomicTypeOK, history, Places, Calls, Idle
  <1>4. SyncedInv'
    BY <1>1 DEF SyncedInv
  <1>5. PlaceInv'
    BY <1>1, <1>2 DEF PlaceInv, Placed, Leased
  <1>6. LeaseInv'
    BY <1>1, <1>2 DEF LeaseInv, Leased
  <1>7. GateInv'
    BY <1>1, <1>2 DEF GateInv
  <1>8. ClaimInv'
    BY <1>1, <1>2 DEF ClaimInv, Claiming
  <1>9. FirstInv'
    BY <1>1, <1>2 DEF FirstInv
  <1>10. SubmittedOnce' /\ LaunchedIsAdmissible'
    BY <1>1 DEF SubmittedOnce, LaunchedIsAdmissible
  <1> QED
    BY <1>3, <1>4, <1>5, <1>6, <1>7, <1>8, <1>9, <1>10

(* The end of all. *)
LEMMA RebootKeeps ==
  ASSUME AdmissionInv, Reboot PROVE AdmissionInv'
  <1> USE DEF AdmissionInv
  <1>1. /\ \A s \in Run : /\ pc'[s] \in {"load", "done"} /\ call'[s] = "idle"
                          /\ pc'[s] = "load" => job'[s] = job[s]
        /\ now' = now /\ since' = since /\ launched' = launched /\ evicted' = evicted
    BY DEF Reboot, PowerLoss, Forget, TypeOK
  <1>2. file' = disk /\ disk' = disk
    <2>1. {p \in DOMAIN disk : ~disk[p].synced} = {} /\ disk = [p \in DOMAIN disk |-> disk[p]]
      BY DEF SyncedInv, TypeOK, AtomicTypeOK
    <2> QED
      BY <2>1 DEF Reboot, PowerLoss
  <1>3. TypeOK'
    <2>1. AtomicTypeOK'
      BY <1>2 DEF Reboot, PowerLoss, Forget, TypeOK, AtomicTypeOK, Calls, Idle
    <2>2. pc' \in [Run -> Places] /\ job' = [s \in Run |-> job'[s]]
          /\ \A s \in Run : job'[s] \in {job[s], {}}
      BY DEF Reboot, TypeOK, Places
    <2>3. vanished' \subseteq Path
      BY DEF Reboot, TypeOK, AtomicTypeOK
    <2> QED
      BY <1>1, <2>1, <2>2, <2>3 DEF TypeOK
  <1>4. SyncedInv'
    BY <1>1, <1>2 DEF SyncedInv, TypeOK, AtomicTypeOK
  <1>5. PlaceInv' /\ LeaseInv' /\ GateInv' /\ FirstInv'
    BY <1>1 DEF PlaceInv, Placed, LeaseInv, GateInv, FirstInv, Leased
  <1>6. vanished \subseteq vanished'
        /\ \A p \in Path : file[p] # Absent /\ file'[p] = Absent => p \in vanished'
    BY DEF Reboot, TypeOK, AtomicTypeOK
  <1>7. ClaimInv'
    <2>1. \A s \in Run : \A l \in launched[s] : l.lock \in Path
      BY DEF TypeOK, Launches
    <2> QED
      BY <1>1, <1>6, <2>1 DEF ClaimInv, Claiming
  <1>8. SubmittedOnce' /\ LaunchedIsAdmissible'
    BY <1>1, <1>6 DEF SubmittedOnce, LaunchedIsAdmissible
  <1> QED
    BY <1>3, <1>4, <1>5, <1>7, <1>8

(* The clock and the disk. *)
LEMMA TickKeeps ==
  ASSUME AdmissionInv, Tick PROVE AdmissionInv'
  <1> USE DEF AdmissionInv
  <1>1. /\ now' = now + 1 /\ now \in Nat
        /\ pc' = pc /\ job' = job /\ since' = since /\ launched' = launched
        /\ vanished' = vanished /\ evicted' = evicted /\ file' = file /\ disk' = disk
        /\ call' = call /\ arg' = arg /\ temp' = temp
    BY DEF Tick, TypeOK, atomicVars, history
  <1>2. \A s \in Run : /\ MyJob(s)' = MyJob(s) /\ LockId(s)' = LockId(s)
                       /\ IsKeyed(s)' = IsKeyed(s) /\ Execution(s)' = Execution(s)
    BY <1>1, SameJob
  <1>3. TypeOK'
    BY <1>1 DEF TypeOK, AtomicTypeOK
  <1>4. PlaceInv'
    BY <1>1, <1>2 DEF PlaceInv, Placed, TypeOK
  <1>5. GateInv'
    <2>1. \A s \in Run : since[s]..now \subseteq since'[s]..now'
      BY <1>1 DEF TypeOK
    <2> QED
      BY <1>1, <1>2, <2>1 DEF GateInv
  <1>6. SyncedInv' /\ LeaseInv' /\ FirstInv'
    BY <1>1, <1>2 DEF SyncedInv, LeaseInv, FirstInv
  <1>7. ClaimInv' /\ SubmittedOnce' /\ LaunchedIsAdmissible'
    BY <1>1, <1>2 DEF ClaimInv, Claiming, SubmittedOnce, LaunchedIsAdmissible
  <1> QED
    BY <1>3, <1>4, <1>5, <1>6, <1>7

LEMMA DiskKeeps ==
  ASSUME AdmissionInv, Disk \/ UNCHANGED vars PROVE AdmissionInv'
  <1> USE DEF AdmissionInv
  <1>1. /\ now' = now
        /\ pc' = pc /\ job' = job /\ since' = since /\ launched' = launched
        /\ vanished' = vanished /\ evicted' = evicted /\ file' = file
        /\ call' = call /\ arg' = arg /\ temp' = temp
    BY DEF Disk, WriteBack, vars, atomicVars, history
  <1>2. \A s \in Run : /\ MyJob(s)' = MyJob(s) /\ LockId(s)' = LockId(s)
                       /\ IsKeyed(s)' = IsKeyed(s) /\ Execution(s)' = Execution(s)
    BY <1>1, SameJob
  <1>3. disk' \in [Path -> File] /\ \A p \in Path : disk'[p] \in {disk[p], file[p]}
    BY DEF Disk, WriteBack, vars, atomicVars, TypeOK, AtomicTypeOK
  <1>4. TypeOK' /\ SyncedInv'
    BY <1>1, <1>3 DEF TypeOK, AtomicTypeOK, SyncedInv
  <1>5. PlaceInv' /\ LeaseInv' /\ GateInv' /\ FirstInv'
    BY <1>1, <1>2 DEF PlaceInv, Placed, LeaseInv, GateInv, FirstInv
  <1>6. ClaimInv' /\ SubmittedOnce' /\ LaunchedIsAdmissible'
    BY <1>1, <1>2 DEF ClaimInv, Claiming, SubmittedOnce, LaunchedIsAdmissible
  <1> QED
    BY <1>4, <1>5, <1>6

LEMMA InitAdmission ==
  ASSUME Init PROVE AdmissionInv
  <1>1. TypeOK
    <2>1. AtomicTypeOK
      BY DEF Init, AtomicInit, AtomicTypeOK, Calls, Idle, Absent, File
    <2>2. job = [r \in Run |-> job[r]] /\ \A r \in Run : job[r] \in Loadable[r]
      BY DEF Init
    <2>3. ASSUME NEW r \in Run, NEW i \in job[r]
          PROVE  ValidJob(i) /\ Typed(i)
      <3>1. PICK f \in Offered[r] : job[r] = LoadJob(f, JobId)
        BY <2>2 DEF Loadable
      <3>2. ValidJob(i)
        BY <3>1, LoadedIsValid
      <3> QED
        BY <2>2, <3>2, JobAssumption
    <2> QED
      BY <2>1, <2>2, <2>3 DEF Init, TypeOK, Places
  <1>2. SyncedInv
    BY DEF Init, AtomicInit, SyncedInv, Absent
  <1>3. PlaceInv /\ LeaseInv /\ GateInv
    BY DEF Init, AtomicInit, PlaceInv, Placed, LeaseInv, GateInv, Leased
  <1>4. ClaimInv /\ FirstInv /\ SubmittedOnce /\ LaunchedIsAdmissible
    BY DEF Init, ClaimInv, Claiming, FirstInv, SubmittedOnce, LaunchedIsAdmissible
  <1> QED
    BY <1>1, <1>2, <1>3, <1>4 DEF AdmissionInv

-----------------------------------------------------------------------------
(* Jobs, leases, records, disk and launches agree through every exception, crash
   and power loss. *)
THEOREM AdmissionInvariant == Spec => []AdmissionInv
  <1>1. AdmissionInv /\ [Next]_vars => AdmissionInv'
    BY StepKeeps, WriteKeeps, DieKeeps, RebootKeeps, TickKeeps, DiskKeeps DEF Next
  <1> QED
    BY <1>1, InitAdmission, PTL DEF Spec

(* A reader of a record finds none or a whole one, also after a power loss. *)
THEOREM NeverTornTheorem == Spec => []NeverTorn
  <1>1. AdmissionInv => NeverTorn
    BY DEF AdmissionInv, SyncedInv, NeverTorn, Torn
  <1> QED
    BY <1>1, AdmissionInvariant, PTL

(* An execution job is submitted once by runs that hold its lease, unless a power
   loss took its claim back. *)
THEOREM SubmittedOnceTheorem == Spec => []SubmittedOnce
  <1>1. AdmissionInv => SubmittedOnce
    BY DEF AdmissionInv
  <1> QED
    BY <1>1, AdmissionInvariant, PTL

(* Whatever the jobs file and the installation, what is launched was admissible
   at some time since the run's acquire, and genuine in strict mode. *)
THEOREM LaunchedIsAdmissibleTheorem == Spec => []LaunchedIsAdmissible
  <1>1. AdmissionInv => LaunchedIsAdmissible
    BY DEF AdmissionInv
  <1> QED
    BY <1>1, AdmissionInvariant, PTL

(* Two valid jobs with keys share a lock id exactly if they serve one operation. *)
THEOREM OneLockTheorem == Spec => []OneLockPerOperation
  <1>1. AdmissionInv => OneLockPerOperation
    BY LockIdFacts DEF AdmissionInv, TypeOK, OneLockPerOperation
  <1> QED
    BY <1>1, AdmissionInvariant, PTL

-----------------------------------------------------------------------------
(* What DurableFile sees of atomic_json. *)
Asked == [r \in Run |-> IF call[r] \in Writing THEN arg[r] ELSE {}]
Told == [r \in Run |-> CASE call[r] = "unlink" -> "happened"
                         [] call[r] = "returned" -> "written"
                         [] call[r] \in {"giveup", "raised"} -> "failed"
                         [] OTHER -> "none"]
Content == [p \in Path |-> file[p].value]
OnDisk == [p \in Path |-> disk[p].value]

(* A call that is writing knows what. *)
ArgInv == \A r \in Run : call[r] \in Writing => arg[r] # {}

LEMMA SameFile ==
  ASSUME call' = call, arg' = arg, file' = file, disk' = disk
  PROVE  ArgInv => UNCHANGED Durable!vars /\ ArgInv'
  BY DEF Durable!vars, ArgInv

(* A write begins, or its caller hears of its end. *)
LEMMA BeginAsks ==
  ASSUME AtomicTypeOK, ArgInv, NEW r \in Run, NEW p \in Path, NEW v \in Value, Begin(r, p, v)
  PROVE  Durable!Next /\ ArgInv'
  <1>1. /\ call[r] = "idle" /\ call' = [call EXCEPT ![r] = "write"]
        /\ arg' = [arg EXCEPT ![r] = {[path |-> p, value |-> v]}]
        /\ file' = file /\ disk' = disk
    BY DEF Begin, To
  <1>2. Asked[r] = {} /\ Told[r] = "none"
    BY <1>1 DEF Asked, Told, Writing
  <1>3. Asked' = [Asked EXCEPT ![r] = {[path |-> p, value |-> v]}]
    BY <1>1 DEF Asked, Writing, AtomicTypeOK
  <1>4. Told' = Told
    BY <1>1 DEF Told, AtomicTypeOK
  <1>5. Content' = Content /\ OnDisk' = OnDisk
    BY <1>1 DEF Content, OnDisk
  <1>6. Durable!Ask(r, p, v)
    BY <1>2, <1>3, <1>4, <1>5 DEF Durable!Ask, Asked, Told, Content, OnDisk
  <1>7. ArgInv'
    BY <1>1 DEF ArgInv, Writing, AtomicTypeOK
  <1> QED
    BY <1>6, <1>7 DEF Durable!Next

LEMMA EndListens ==
  ASSUME AtomicTypeOK, ArgInv, NEW r \in Run, End(r)
  PROVE  Durable!Next /\ ArgInv'
  <1>1. /\ call[r] \in {"returned", "raised"} /\ call' = [call EXCEPT ![r] = "idle"]
        /\ arg' = arg /\ file' = file /\ disk' = disk
    BY DEF End, To
  <1>2. Told[r] \in {"written", "failed"}
    BY <1>1 DEF Told
  <1>3. Asked' = [Asked EXCEPT ![r] = {}]
    BY <1>1 DEF Asked, Writing, AtomicTypeOK
  <1>4. Told' = [Told EXCEPT ![r] = "none"]
    BY <1>1 DEF Told, AtomicTypeOK
  <1>5. Content' = Content /\ OnDisk' = OnDisk
    BY <1>1 DEF Content, OnDisk
  <1>6. Durable!Listen(r)
    BY <1>2, <1>3, <1>4, <1>5
       DEF Durable!Listen, Durable!Answer, Asked, Told, Content, OnDisk
  <1>7. ArgInv'
    BY <1>1 DEF ArgInv, Writing, AtomicTypeOK
  <1> QED
    BY <1>6, <1>7 DEF Durable!Next

(* The replace is the moment of the write; before it the write fails without a
   trace, after it only the temporary file is left to remove, well or not. *)
LEMMA WriteHappensOrFails ==
  ASSUME AtomicTypeOK, SyncedInv, ArgInv, NEW r \in Run, AtomicStep(r)
  PROVE  [Durable!Next]_(Durable!vars) /\ ArgInv'
  <1> USE DEF AtomicTypeOK, To, Stored, Writing
  <1>1. CASE WriteTemp(r) \/ SyncTemp(r) \/ (Unlink(r) /\ call[r] = "giveup")
    <2>1. Asked' = Asked
      BY <1>1 DEF WriteTemp, SyncTemp, Unlink, Asked
    <2>2. Told' = Told
      BY <1>1 DEF WriteTemp, SyncTemp, Unlink, Told
    <2>3. Content' = Content /\ OnDisk' = OnDisk
      BY <1>1 DEF WriteTemp, SyncTemp, Unlink, Content, OnDisk
    <2>4. ArgInv'
      BY <1>1 DEF WriteTemp, SyncTemp, Unlink, ArgInv
    <2> QED
      BY <2>1, <2>2, <2>3, <2>4 DEF Durable!vars, Asked, Told, Content, OnDisk
  <1>2. CASE WriteRaises(r) \/ Refused(r)
    <2>1. /\ call[r] \in Writing /\ call' = [call EXCEPT ![r] = "giveup"]
          /\ arg' = arg /\ file' = file /\ disk' = disk
      BY <1>2 DEF WriteRaises, Refused
    <2>2. Asked[r] # {}
      BY <2>1 DEF ArgInv, Asked
    <2>3. Asked' = [Asked EXCEPT ![r] = {}]
      BY <2>1 DEF Asked
    <2>4. Told' = [Told EXCEPT ![r] = "failed"]
      BY <2>1 DEF Told
    <2>5. Content' = Content /\ OnDisk' = OnDisk
      BY <2>1 DEF Content, OnDisk
    <2>6. Durable!Fail(r)
      BY <2>2, <2>3, <2>4, <2>5
         DEF Durable!Fail, Durable!Answer, Asked, Told, Content, OnDisk
    <2>7. ArgInv'
      BY <2>1 DEF ArgInv
    <2> QED
      BY <2>6, <2>7 DEF Durable!Next
  <1>3. CASE Replace(r)
    <2>1. /\ call[r] = "replace" /\ call' = [call EXCEPT ![r] = "unlink"]
          /\ arg' = arg /\ disk' = disk
      BY <1>3 DEF Replace
    <2>2. PICK a \in arg[r] :
            file' = [file EXCEPT ![a.path] = [value |-> {a.value}, synced |-> temp[r] = "synced"]]
      BY <1>3 DEF Replace
    <2>3. a \in [path : Path, value : Value]
      OBVIOUS
    <2>4. Content' = [Content EXCEPT ![a.path] = {a.value}]
      BY <2>2, <2>3 DEF Content
    <2>5. a \in Asked[r] /\ Asked' = [Asked EXCEPT ![r] = {}]
      BY <2>1, <2>2 DEF Asked
    <2>6. Told' = [Told EXCEPT ![r] = "happened"]
      BY <2>1 DEF Told
    <2>7. OnDisk' = OnDisk
      BY <2>1 DEF OnDisk
    <2>8. Durable!Happen(r)
      BY <2>4, <2>5, <2>6, <2>7
         DEF Durable!Happen, Durable!Answer, Asked, Told, Content, OnDisk
    <2>9. ArgInv'
      BY <2>1 DEF ArgInv
    <2> QED
      BY <2>8, <2>9 DEF Durable!Next
  <1>4. CASE Unlink(r) /\ call[r] = "unlink"
    <2>1. PICK end \in {"returned", "raised"} : call' = [call EXCEPT ![r] = end]
      BY <1>4 DEF Unlink
    <2>2. arg' = [arg EXCEPT ![r] = {}] /\ file' = file /\ disk' = disk
      BY <1>4 DEF Unlink
    <2>3. Told[r] = "happened" /\ Asked[r] = {}
      BY <1>4 DEF Told, Asked
    <2>4. Asked' = [Asked EXCEPT ![r] = {}]
      BY <2>1, <2>2, <2>3 DEF Asked
    <2>5. Told' = [Told EXCEPT ![r] = IF end = "returned" THEN "written" ELSE "failed"]
      BY <2>1 DEF Told
    <2>6. Content' = Content /\ OnDisk' = OnDisk
      BY <2>2 DEF Content, OnDisk
    <2>7. Durable!Tell(r)
      BY <2>3, <2>4, <2>5, <2>6
         DEF Durable!Tell, Durable!Answer, Asked, Told, Content, OnDisk
    <2>8. ArgInv'
      BY <2>1, <2>2 DEF ArgInv
    <2> QED
      BY <2>7, <2>8 DEF Durable!Next
  <1> QED
    BY <1>1, <1>2, <1>3, <1>4 DEF AtomicStep, Unlink

(* A process ends. *)
LEMMA DiePerishes ==
  ASSUME TypeOK, ArgInv, NEW r \in Run, Die(r)
  PROVE  Durable!Next /\ ArgInv'
  <1>1. /\ call' = [s \in Run |-> IF s = r THEN "idle" ELSE call[s]]
        /\ arg' = [s \in Run |-> IF s = r THEN {} ELSE arg[s]]
        /\ file' = file /\ disk' = disk
    BY DEF Die, Forget
  <1>2. Asked' = [Asked EXCEPT ![r] = {}]
    BY <1>1 DEF Asked, Writing
  <1>3. Told' = [Told EXCEPT ![r] = "none"]
    BY <1>1 DEF Told
  <1>4. Content' = Content /\ OnDisk' = OnDisk
    BY <1>1 DEF Content, OnDisk
  <1>5. Durable!Perish(r)
    BY <1>2, <1>3, <1>4 DEF Durable!Perish, Durable!Answer, Asked, Told, Content, OnDisk
  <1>6. ArgInv'
    BY <1>1 DEF ArgInv, Writing
  <1> QED
    BY <1>5, <1>6 DEF Durable!Next

(* The power fails: nothing on the disk is without its content. *)
LEMMA RebootRestores ==
  ASSUME TypeOK, SyncedInv, Reboot
  PROVE  Durable!Next /\ ArgInv'
  <1>1. /\ call' = [s \in Run |-> "idle"] /\ arg' = [s \in Run |-> {}]
    BY DEF Reboot, PowerLoss, Forget
  <1>2. file' = disk /\ disk' = disk
    <2>1. {p \in DOMAIN disk : ~disk[p].synced} = {} /\ disk = [p \in DOMAIN disk |-> disk[p]]
      BY DEF SyncedInv, TypeOK, AtomicTypeOK
    <2> QED
      BY <2>1 DEF Reboot, PowerLoss
  <1>3. Asked' = [r \in Run |-> {}]
    BY <1>1 DEF Asked, Writing
  <1>4. Told' = [r \in Run |-> "none"]
    BY <1>1 DEF Told
  <1>5. Content' = OnDisk /\ OnDisk' = OnDisk
    BY <1>2 DEF Content, OnDisk
  <1>6. Durable!PowerLoss
    BY <1>3, <1>4, <1>5 DEF Durable!PowerLoss, Asked, Told, Content, OnDisk
  <1>7. ArgInv'
    BY <1>1 DEF ArgInv, Writing
  <1> QED
    BY <1>6, <1>7 DEF Durable!Next

(* The directory is written back. *)
LEMMA DiskPersists ==
  ASSUME TypeOK, ArgInv, Disk
  PROVE  Durable!Next /\ ArgInv'
  <1>1. PICK p \in Path : WriteBack(p)
    BY DEF Disk, TypeOK, AtomicTypeOK
  <1>2. call' = call /\ arg' = arg /\ file' = file /\ disk' = [disk EXCEPT ![p] = file[p]]
    BY <1>1 DEF WriteBack
  <1>3. Asked' = Asked /\ Told' = Told /\ Content' = Content
    BY <1>2 DEF Asked, Told, Content
  <1>4. OnDisk' = [OnDisk EXCEPT ![p] = Content[p]]
    BY <1>2 DEF OnDisk, Content, TypeOK, AtomicTypeOK
  <1>5. Durable!Persist(p)
    BY <1>3, <1>4 DEF Durable!Persist, Asked, Told, Content, OnDisk
  <1>6. ArgInv'
    BY <1>2 DEF ArgInv
  <1> QED
    BY <1>5, <1>6 DEF Durable!Next

(* The calls of a run. *)
LEMMA StepAsksOrListens ==
  ASSUME AdmissionInv, ArgInv, NEW r \in Run, Step(r)
  PROVE  [Durable!Next]_(Durable!vars) /\ ArgInv'
  <1> USE DEF AdmissionInv, TypeOK
  <1>1. CASE Load(r) \/ Acquire(r) \/ Check(r) \/ Gate(r) \/ Launch(r)
    BY <1>1, SameFile DEF Load, Acquire, Check, Gate, Launch, atomicVars
  <1>2. CASE Claim(r)
    <2>1. LockId(r) \in Path
      BY <1>2, MyJobFacts DEF Claim, PlaceInv, Placed
    <2> QED
      BY <1>2, <2>1, ValueAssumption, BeginAsks DEF Claim
  <1>3. CASE Claimed(r) \/ Settled(r)
    BY <1>3, EndListens DEF Claimed, Settled
  <1>4. CASE Settle(r)
    <2>1. CASE IsKeyed(r)
      <3>1. LockId(r) \in Path
        BY <1>4, MyJobFacts DEF Settle, PlaceInv, Placed
      <3> QED
        BY <1>4, <2>1, <3>1, ValueAssumption, BeginAsks DEF Settle
    <2>2. CASE ~IsKeyed(r)
      BY <1>4, <2>2, SameFile DEF Settle, atomicVars
    <2> QED
      BY <2>1, <2>2
  <1> QED
    BY <1>1, <1>2, <1>3, <1>4 DEF Step

(* atomic_json under concurrent writers, exceptions, deaths and power losses is a
   file that is written as a whole or not at all, and says which. *)
THEOREM FileTheorem == Spec => ImplementsFile
  <1>1. Init => Durable!Init /\ ArgInv
    BY DEF Init, AtomicInit, Absent, Durable!Init, ArgInv, Writing
  <1>2. AdmissionInv /\ ArgInv /\ [Next]_vars
          => [Durable!Next]_(Durable!vars) /\ ArgInv'
    <2> SUFFICES ASSUME AdmissionInv, ArgInv, [Next]_vars
                 PROVE  [Durable!Next]_(Durable!vars) /\ ArgInv'
      OBVIOUS
    <2> USE DEF AdmissionInv
    <2>1. CASE \E r \in Run : Step(r)
      BY <2>1, StepAsksOrListens
    <2>2. CASE \E r \in Run : Write(r)
      BY <2>2, WriteHappensOrFails DEF Write, TypeOK
    <2>3. CASE \E r \in Run : Die(r)
      BY <2>3, DiePerishes
    <2>4. CASE Reboot
      BY <2>4, RebootRestores
    <2>5. CASE Disk
      BY <2>5, DiskPersists
    <2>6. CASE Tick \/ UNCHANGED vars
      BY <2>6, SameFile DEF Tick, vars, atomicVars
    <2> QED
      BY <2>1, <2>2, <2>3, <2>4, <2>5, <2>6 DEF Next
  <1>3. Spec => Durable!Init /\ [][Durable!Next]_(Durable!vars)
    BY <1>1, <1>2, AdmissionInvariant, PTL DEF Spec
  <1> QED
    BY <1>3 DEF ImplementsFile, Durable!Spec

=============================================================================
