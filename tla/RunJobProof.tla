---------------------------- MODULE RunJobProof ----------------------------
(***************************************************************************)
(* What holds of RunJob.tla for every set of runs, jobs and lock ids, every *)
(* kind of job and every fault of the module.  RunInv is inductive, and    *)
(* the properties of the operation follow from it, each where the runs it  *)
(* needs are no slower than their ttl at the places it needs (Prompt,      *)
(* Timely).                                                                *)
(***************************************************************************)
EXTENDS RunJob, TLAPS

USE DEF Looping   \* the places in the loop, which Launched includes

(* No run is there, no record is there. *)
LEMMA InitKeeps == Init => RunInv
  <1> SUFFICES ASSUME Init PROVE RunInv
    OBVIOUS
  <1> USE DEF Init, NoRecord
  <1>1. TypeOK
    <2>1. NoRecord \in [state : RecordStates, run : Run \cup {NoRun}]
      BY DEF RecordStates
    <2> QED
      BY <2>1 DEF TypeOK, LS!Init, LS!LeaseTypeOK, Statuses
  <1>2. LeaseInv /\ OwnerInv
    BY DEF LeaseInv, OwnerInv, LS!Init, Gates, Launched, Committing, Exclusive
  <1>3. ChildInv /\ KeyInv
    BY KindAssumption DEF ChildInv, KeyInv, Executing, Launched, Closing
  <1>4. ClaimInv /\ FreshInv /\ FirstInv
    BY KindAssumption
       DEF ClaimInv, FreshInv, FirstInv, Gates, Launched, Committing, Exclusive, Claiming
  <1>5. SuccessInv
    BY DEF SuccessInv
  <1> QED
    BY <1>1, <1>2, <1>3, <1>4, <1>5 DEF RunInv

(* LeaseService grants the lease only if no other run of the lock owns it. *)
LEMMA AcquireKeeps ==
  ASSUME NEW r \in Run, RunInv, Acquire(r) PROVE RunInv'
  <1>1. TypeOK'
    BY DEF RunInv, TypeOK, Acquire, LS!Grant, Goto, files, LS!LeaseTypeOK,
           Gates, Leased
  <1>2. LeaseInv'
    BY DEF RunInv, TypeOK, LeaseInv, Acquire, LS!Grant, Goto, LS!LeaseTypeOK,
           Committing, Exclusive, Gates, Launched
  <1>3. OwnerInv'
    BY DEF RunInv, OwnerInv, Acquire, LS!Grant, SameLock
  <1>4. ChildInv'
    BY DEF RunInv, ChildInv, Acquire, At, Goto
  <1>5. KeyInv'
    BY DEF RunInv, KeyInv, Acquire, Goto, Launched, Closing, Executing
  <1>6. ClaimInv'
    BY DEF RunInv, ClaimInv, Acquire, Goto, files, InProgress, Launched, Claiming,
           Committing, Exclusive, Gates
  <1>7. FreshInv'
    BY DEF RunInv, FreshInv, Acquire, Goto, files
  <1>8. FirstInv'
    BY DEF RunInv, FirstInv, Acquire, At, Goto, Committing, Gates
  <1> QED
    BY <1>1, <1>2, <1>3, <1>4, <1>5, <1>6, <1>7, <1>8
       DEF RunInv, SuccessInv, Acquire, files

(* A run that is refused never comes near the operation. *)
LEMMA RefusedKeeps ==
  ASSUME NEW r \in Run, RunInv, Refused(r) PROVE RunInv'
  <1>1. TypeOK'
    BY DEF RunInv, TypeOK, Refused, Goto, files, LS!LeaseTypeOK, Leased
  <1>2. LeaseInv'
    BY DEF RunInv, LeaseInv, Refused, Goto, Gates, Launched, Committing, Exclusive
  <1>3. ChildInv'
    BY DEF RunInv, ChildInv, Refused, At, Goto
  <1>4. KeyInv'
    BY DEF RunInv, KeyInv, Refused, Goto, Launched, Closing, Executing
  <1>5. ClaimInv'
    BY DEF RunInv, ClaimInv, Refused, Goto, files, InProgress, Launched, Claiming,
           Committing, Exclusive, Gates
  <1>6. FreshInv'
    BY DEF RunInv, FreshInv, Refused, Goto, files
  <1>7. FirstInv'
    BY DEF RunInv, FirstInv, Refused, At, Goto, Committing, Gates
  <1> QED
    BY <1>1, <1>2, <1>3, <1>4, <1>5, <1>6, <1>7
       DEF RunInv, OwnerInv, SuccessInv, Refused, files

(* Nor does one whose acquire raises. *)
LEMMA AcquireRaisesKeeps ==
  ASSUME NEW r \in Run, RunInv, AcquireRaises(r) PROVE RunInv'
  <1>1. TypeOK'
    BY DEF RunInv, TypeOK, AcquireRaises, Raise, Goto, files, LS!LeaseTypeOK
  <1>2. LeaseInv'
    BY DEF RunInv, LeaseInv, AcquireRaises, Goto, Gates, Launched, Committing, Exclusive
  <1>3. ChildInv'
    BY DEF RunInv, ChildInv, AcquireRaises, At, Goto
  <1>4. KeyInv'
    BY DEF RunInv, KeyInv, AcquireRaises, Goto, Launched, Closing, Executing
  <1>5. ClaimInv'
    BY DEF RunInv, ClaimInv, AcquireRaises, Goto, files, InProgress, Launched, Claiming,
           Committing, Exclusive, Gates
  <1>6. FreshInv'
    BY DEF RunInv, FreshInv, AcquireRaises, Goto, files
  <1>7. FirstInv'
    BY DEF RunInv, FirstInv, AcquireRaises, At, Goto, Committing, Gates
  <1> QED
    BY <1>1, <1>2, <1>3, <1>4, <1>5, <1>6, <1>7
       DEF RunInv, OwnerInv, SuccessInv, AcquireRaises, files

(* A capital run passes only if there is no record. *)
LEMMA CheckKeeps ==
  ASSUME NEW r \in Run, RunInv, Check(r) PROVE RunInv'
  <1>1. TypeOK'
    BY DEF RunInv, TypeOK, Check, Claimed, Goto, files, LS!LeaseTypeOK, Gates,
           Leased
  <1>2. LeaseInv'
    BY DEF RunInv, TypeOK, LeaseInv, Check, At, Goto, Gates, Committing, Exclusive,
           Launched
  <1>3. ChildInv'
    BY DEF RunInv, TypeOK, ChildInv, Check, At, Goto, Gates
  <1>4. KeyInv'
    BY KindAssumption
       DEF RunInv, TypeOK, KeyInv, Check, Goto, Launched, Closing, Executing
  <1>5. ClaimInv'
    BY DEF RunInv, TypeOK, ClaimInv, Check, Goto, files, InProgress, Launched, Claiming,
           Committing, Exclusive, Gates
  <1>6. FreshInv'
    BY DEF RunInv, TypeOK, FreshInv, Check, Claimed, Goto, files
  <1>7. FirstInv'
    <2> SUFFICES ASSUME NEW q \in Capital, NEW s \in Capital,
                        SameLock(q, s), q # s, Prompt(LockOf[q]),
                        q \in alive, pc'[q] \in Committing \ {"check"}
                 PROVE  child[s] = "none"
      BY DEF FirstInv, Check
    <2>1. q \in Run /\ s \in Run
      BY KindAssumption
    <2>2. CASE pc'[q] = pc[q]
      BY <2>2 DEF RunInv, FirstInv
    <2>3. CASE pc'[q] # pc[q]
      <3>1. q = r /\ record[LockOf[s]].state = "ABSENT"
        BY <2>1, <2>3 DEF RunInv, TypeOK, Check, Claimed, Goto, SameLock, Committing, Gates
      <3> QED
        BY <2>1, <3>1 DEF RunInv, ClaimInv, KeyInv
    <2> QED
      BY <2>2, <2>3
  <1> QED
    BY <1>1, <1>2, <1>3, <1>4, <1>5, <1>6, <1>7
       DEF RunInv, OwnerInv, SuccessInv, Check, files

(* A check that raises ends before the claim. *)
LEMMA CheckRaisesKeeps ==
  ASSUME NEW r \in Run, RunInv, CheckRaises(r) PROVE RunInv'
  <1>1. TypeOK'
    BY DEF RunInv, TypeOK, CheckRaises, Raise, Goto, files, LS!LeaseTypeOK, Leased
  <1>2. LeaseInv'
    BY DEF RunInv, LeaseInv, CheckRaises, Goto, Gates, Launched, Committing, Exclusive
  <1>3. ChildInv'
    BY DEF RunInv, ChildInv, CheckRaises, At, Goto, Gates, Closing
  <1>4. KeyInv'
    BY DEF RunInv, KeyInv, CheckRaises, Goto, Launched, Closing, Executing
  <1>5. ClaimInv'
    BY DEF RunInv, ClaimInv, CheckRaises, Goto, files, InProgress, Launched, Claiming,
           Committing, Exclusive, Gates
  <1>6. FreshInv'
    BY DEF RunInv, FreshInv, CheckRaises, Goto, files
  <1>7. FirstInv'
    BY DEF RunInv, FirstInv, CheckRaises, At, Goto, Committing, Gates
  <1> QED
    BY <1>1, <1>2, <1>3, <1>4, <1>5, <1>6, <1>7
       DEF RunInv, OwnerInv, SuccessInv, CheckRaises, files

(* A capital run passes only with an economic key. *)
LEMMA KillSwitchKeeps ==
  ASSUME NEW r \in Run, RunInv, KillSwitch(r) PROVE RunInv'
  <1>1. TypeOK'
    BY DEF RunInv, TypeOK, KillSwitch, Goto, files, LS!LeaseTypeOK, Gates,
           Leased
  <1>2. LeaseInv'
    BY DEF RunInv, TypeOK, LeaseInv, KillSwitch, At, Goto, Gates, Committing, Exclusive,
           Launched
  <1>3. ChildInv'
    BY DEF RunInv, TypeOK, ChildInv, KillSwitch, At, Goto, Gates
  <1>4. KeyInv'
    BY KindAssumption
       DEF RunInv, TypeOK, KeyInv, KillSwitch, Goto, Launched, Closing,
           Executing
  <1>5. ClaimInv'
    BY DEF RunInv, TypeOK, ClaimInv, KillSwitch, Goto, files, InProgress, Launched,
           Claiming, Committing, Exclusive, Gates
  <1>6. FreshInv'
    BY DEF RunInv, TypeOK, FreshInv, KillSwitch, At, Goto, files
  <1>7. FirstInv'
    BY DEF RunInv, TypeOK, FirstInv, KillSwitch, At, Goto, Committing, Gates
  <1> QED
    BY <1>1, <1>2, <1>3, <1>4, <1>5, <1>6, <1>7
       DEF RunInv, OwnerInv, SuccessInv, KillSwitch, files

(* A skipped run has launched nothing. *)
LEMMA SkipKeeps ==
  ASSUME NEW r \in Run, RunInv, Skip(r) PROVE RunInv'
  <1>1. TypeOK'
    BY DEF RunInv, TypeOK, Skip, AppendEvent, Raise, Goto, LS!LeaseTypeOK, Leased
  <1>2. LeaseInv'
    BY DEF RunInv, LeaseInv, Skip, Goto, Gates, Launched, Committing, Exclusive
  <1>3. ChildInv'
    BY DEF RunInv, ChildInv, Skip, Goto, Gates, Closing
  <1>4. KeyInv'
    BY DEF RunInv, KeyInv, Skip, Goto, Launched, Closing, Executing
  <1>5. ClaimInv'
    BY DEF RunInv, ClaimInv, Skip, Goto, InProgress, Launched, Claiming, Committing,
           Exclusive, Gates
  <1>6. FreshInv'
    BY DEF RunInv, FreshInv, Skip, Goto
  <1>7. FirstInv'
    BY DEF RunInv, FirstInv, Skip, At, Goto, Committing, Gates
  <1> QED
    BY <1>1, <1>2, <1>3, <1>4, <1>5, <1>6, <1>7
       DEF RunInv, OwnerInv, SuccessInv, Skip

(* What a write of r does to the records: one entry, that of r's lock. *)
LEMMA WriteEffect ==
  ASSUME TypeOK, NEW r \in Run, NEW state \in RecordStates, Write(r, state)
  PROVE  /\ record' \in [Lock -> [state : RecordStates, run : Run \cup {NoRun}]]
         /\ record'[LockOf[r]].state = state /\ record'[LockOf[r]].run = r
         /\ \A k \in Lock : k # LockOf[r] => record'[k] = record[k]
  <1> DEFINE new == [state |-> state, run |-> r]
  <1>1. new \in [state : RecordStates, run : Run \cup {NoRun}]
    OBVIOUS
  <1>2. new.state = state /\ new.run = r
    OBVIOUS
  <1>3. record' = [record EXCEPT ![LockOf[r]] = new]
    BY DEF Write
  <1>4. /\ LockOf[r] \in Lock
        /\ record \in [Lock -> [state : RecordStates, run : Run \cup {NoRun}]]
    BY JobAssumption DEF TypeOK
  <1> HIDE DEF new
  <1> QED
    BY <1>1, <1>2, <1>3, <1>4

(* Where runs are timely, two runs of one lock are past acquire and before the
   terminal record at once only if the lock serves capital alone, and then one
   of them has launched. *)
LEMMA Rivals ==
  ASSUME RunInv, NEW r \in Run, NEW s \in Run, r # s, SameLock(r, s), Timely(LockOf[r]),
         r \in alive, s \in alive, pc[r] \in Exclusive, pc[s] \in Exclusive
  PROVE  OnLock(LockOf[r]) \subseteq Capital /\ ~(pc[r] \in Committing /\ pc[s] \in Committing)
  <1>1. r \in OnLock(LockOf[r]) /\ s \in OnLock(LockOf[r])
    BY DEF OnLock, SameLock
  <1>2. ~(lease[r] = "owner" /\ lease[s] = "owner")
    BY DEF RunInv, OwnerInv
  <1>3. OnLock(LockOf[r]) \subseteq Capital
    <2> SUFFICES ASSUME Vital(LockOf[r]) = Exclusive PROVE FALSE
      BY DEF Vital
    <2> QED
      BY <1>1, <1>2 DEF RunInv, LeaseInv, Timely
  <1>4. Vital(LockOf[r]) = Committing
    BY <1>3 DEF Vital
  <1>5. ~(pc[r] \in Committing /\ pc[s] \in Committing)
    BY <1>1, <1>2, <1>4 DEF RunInv, LeaseInv, Timely
  <1> QED
    BY <1>3, <1>5

(* Two capital runs that are prompt are not between acquire and launch at once. *)
LEMMA PromptRivals ==
  ASSUME RunInv, NEW r \in Capital, NEW s \in Capital, r # s, SameLock(r, s),
         Prompt(LockOf[r]), r \in alive, s \in alive, pc[r] \in Committing
  PROVE  pc[s] \notin Committing
  <1>1. r \in Run /\ s \in Run
    BY KindAssumption
  <1>2. r \in OnLock(LockOf[r]) \cap Capital /\ s \in OnLock(LockOf[r]) \cap Capital
    BY <1>1 DEF OnLock, SameLock
  <1>3. ~(lease[r] = "owner" /\ lease[s] = "owner")
    BY <1>1 DEF RunInv, OwnerInv
  <1> QED
    BY <1>2, <1>3 DEF RunInv, LeaseInv, Prompt

(* The claim of a timely run takes over no attempt in progress: its rivals have
   let go of the lease, or their records have stopped it.  One that raises may
   have written the record all the same, but nothing is launched. *)
LEMMA ClaimKeeps ==
  ASSUME NEW r \in Run, RunInv, Claim(r) \/ ClaimRaises(r) PROVE RunInv'
  <1>1. /\ record' \in [Lock -> [state : RecordStates, run : Run \cup {NoRun}]]
        /\ \/ record' = record /\ (LockOf[r] \in Keyed => pc' = [pc EXCEPT ![r] = "release"])
           \/ record'[LockOf[r]].state = "IN_PROGRESS" /\ record'[LockOf[r]].run = r
        /\ \A k \in Lock : k # LockOf[r] => record'[k] = record[k]
    <2>1. CASE Write(r, "IN_PROGRESS")
      BY <2>1, WriteEffect DEF RunInv, RecordStates
    <2>2. CASE record' = record /\ (LockOf[r] \in Keyed => pc' = [pc EXCEPT ![r] = "release"])
      BY <2>2 DEF RunInv, TypeOK
    <2> QED
      BY <2>1, <2>2 DEF Claim, ClaimRaises, Goto
  <1>2. /\ UNCHANGED <<lease, alive, child, due, heartbeat, logged>>
        /\ pc' \in {[pc EXCEPT ![r] = "setup"], [pc EXCEPT ![r] = "release"]}
        /\ status' \in {status, [status EXCEPT ![r] = "FAILED"]}
        /\ raised' \in {raised, raised \cup {r}}
        /\ r \in alive /\ pc[r] = "claim"
    BY DEF Claim, ClaimRaises, At, Goto, Become, Raise
  <1>3. TypeOK'
    <2>1. record' \in [Lock -> [state : RecordStates, run : Run \cup {NoRun}]]
      BY <1>1
    <2> QED
      BY <1>2, <2>1 DEF RunInv, TypeOK, LS!LeaseTypeOK, Leased, Executing, Statuses
  <1>4. LeaseInv'
    BY <1>2 DEF RunInv, TypeOK, LeaseInv, Gates, Committing, Exclusive, Launched
  <1>5. ChildInv'
    BY <1>2 DEF RunInv, TypeOK, ChildInv, Gates, Closing
  <1>6. KeyInv'
    BY <1>2, KindAssumption
    DEF RunInv, TypeOK, KeyInv, Launched, Closing, Executing
  <1>7. pc[r] \in Committing /\ pc[r] \in Exclusive
    BY <1>2 DEF Committing, Exclusive, Gates
  <1>8. ClaimInv'
    <2> SUFFICES ASSUME NEW s \in Run, LockOf[s] \in Keyed
                 PROVE  /\ child[s] # "none" \/ pc'[s] \in Claiming
                             => record'[LockOf[s]].state # "ABSENT"
                        /\ Timely(LockOf[s]) /\ s \in alive /\ pc'[s] \in Claiming
                             => InProgress(s)'
      BY <1>2 DEF ClaimInv
    <2>1. CASE s = r
      <3>1. child[r] = "none" /\ (pc' = [pc EXCEPT ![r] = "release"] => pc'[r] \notin Claiming)
        BY <1>2 DEF RunInv, TypeOK, ChildInv, Gates, Claiming, Exclusive, Committing,
                    Launched
      <3> QED
        BY <2>1, <3>1, <1>1 DEF InProgress
    <2>2. CASE s # r /\ record'[LockOf[s]].state = "IN_PROGRESS" /\ LockOf[s] = LockOf[r]
      <3>1. pc'[s] = pc[s]
        BY <2>2, <1>2 DEF RunInv, TypeOK
      <3>2. ASSUME Timely(LockOf[s]), s \in alive, pc[s] \in Claiming PROVE FALSE
        <4>1. r \in Capital
          BY <3>2, <2>2, <1>2, <1>7, Rivals DEF SameLock, OnLock, Claiming
        <4>2. record[LockOf[r]].state = "ABSENT"
          BY <4>1, <3>2, <2>2, <1>2 DEF RunInv, FreshInv
        <4> QED
          BY <4>2, <3>2, <2>2 DEF RunInv, ClaimInv
      <3> QED
        BY <2>2, <3>1, <3>2
    <2>3. CASE s # r /\ record'[LockOf[s]] = record[LockOf[s]]
      <3>1. pc'[s] = pc[s]
        BY <2>3, <1>2 DEF RunInv, TypeOK
      <3> QED
        BY <2>3, <3>1 DEF RunInv, ClaimInv, InProgress
    <2> QED
      BY <2>1, <2>2, <2>3, <1>1, JobAssumption
  <1>9. FreshInv'
    <2> SUFFICES ASSUME NEW s \in alive, Timely(LockOf[s]), pc'[s] \in {"killswitch", "claim"}
                 PROVE  /\ s \in Capital => record'[LockOf[s]].state = "ABSENT"
                        /\ ~ReadFaults => record'[LockOf[s]].state # "SUCCEEDED"
      BY <1>2 DEF FreshInv
    <2>1. s \in Run /\ s # r /\ pc'[s] = pc[s] /\ pc[s] \in Committing /\ pc[s] \in Exclusive
      BY <1>2 DEF RunInv, TypeOK, Committing, Exclusive, Gates
    <2>2. LockOf[s] # LockOf[r]
      BY <2>1, <1>2, <1>7, Rivals DEF SameLock
    <2>3. record'[LockOf[s]] = record[LockOf[s]]
      BY <2>1, <2>2, <1>1, JobAssumption
    <2> QED
      BY <2>1, <2>3 DEF RunInv, FreshInv
  <1>10. FirstInv'
    BY <1>2 DEF RunInv, TypeOK, FirstInv, Committing, Gates
  <1>11. SuccessInv'
    BY <1>1, <1>2 DEF RunInv, SuccessInv
  <1> QED
    BY <1>2, <1>3, <1>4, <1>5, <1>6, <1>8, <1>9, <1>10, <1>11
       DEF RunInv, OwnerInv

(* The launch follows the claim, in the run that owns the lease. *)
LEMMA LaunchKeeps ==
  ASSUME NEW r \in Run, RunInv, Launch(r) PROVE RunInv'
  <1>1. TypeOK'
    BY DEF RunInv, TypeOK, Launch, Goto, files, LS!LeaseTypeOK, Launched,
           Executing, Leased
  <1>2. LeaseInv'
    BY DEF RunInv, LeaseInv, Launch, At, Goto, Committing, Exclusive, Gates, Launched
  <1>3. ChildInv'
    BY DEF RunInv, TypeOK, ChildInv, Launch, At, Goto, Gates, Closing
  <1>4. KeyInv'
    BY DEF RunInv, KeyInv, Launch, At, Goto, Executing
  <1>5. ClaimInv'
    BY DEF RunInv, ClaimInv, Launch, At, Goto, files, InProgress, Claiming, Committing,
           Exclusive, Gates, Launched
  <1>6. FreshInv'
    BY DEF RunInv, FreshInv, Launch, Goto, files
  <1>7. FirstInv'
    <2> SUFFICES ASSUME NEW q \in Capital, NEW s \in Capital,
                        SameLock(q, s), q # s, Prompt(LockOf[q]),
                        q \in alive, pc'[q] \in Committing \ {"check"}
                 PROVE  child'[s] = "none"
      BY DEF FirstInv, Launch
    <2>1. q # r /\ pc[q] = pc'[q] /\ child[s] = "none"
      BY KindAssumption DEF RunInv, TypeOK, FirstInv, Launch, Goto, Committing, Gates
    <2>2. s # r
      BY <2>1, PromptRivals DEF Launch, At, Committing
    <2> QED
      BY <2>1, <2>2, KindAssumption DEF RunInv, TypeOK, Launch
  <1>8. SuccessInv'
    BY DEF RunInv, ChildInv, SuccessInv, Launch, At, files
  <1> QED
    BY <1>1, <1>2, <1>3, <1>4, <1>5, <1>6, <1>7, <1>8
       DEF RunInv, OwnerInv, Launch

(* A failed launch leaves no child. *)
LEMMA LaunchFailsKeeps ==
  ASSUME NEW r \in Run, RunInv, LaunchFails(r) PROVE RunInv'
  <1>1. TypeOK'
    BY DEF RunInv, TypeOK, LaunchFails, Raise, Goto, files, LS!LeaseTypeOK, Launched,
           Executing, Leased
  <1>2. LeaseInv'
    BY DEF RunInv, LeaseInv, LaunchFails, At, Goto, Committing, Exclusive, Gates,
           Launched
  <1>3. ChildInv'
    BY DEF RunInv, ChildInv, LaunchFails, At, Goto
  <1>4. KeyInv'
    BY DEF RunInv, KeyInv, LaunchFails, At, Goto, Executing
  <1>5. ClaimInv'
    BY DEF RunInv, ClaimInv, LaunchFails, At, Goto, files, InProgress, Claiming,
           Committing, Exclusive, Gates, Launched
  <1>6. FreshInv'
    BY DEF RunInv, FreshInv, LaunchFails, Goto, files
  <1>7. FirstInv'
    BY DEF RunInv, FirstInv, LaunchFails, At, Goto, Committing, Gates
  <1> QED
    BY <1>1, <1>2, <1>3, <1>4, <1>5, <1>6, <1>7
       DEF RunInv, OwnerInv, SuccessInv, LaunchFails, files

(* The first heartbeat disturbs no record. *)
LEMMA AnnounceKeeps ==
  ASSUME NEW r \in Run, RunInv, Announce(r) PROVE RunInv'
  <1>1. TypeOK'
    BY DEF RunInv, TypeOK, Announce, Beat, Statuses, Goto, LS!LeaseTypeOK, Launched,
           Executing, Leased
  <1>2. LeaseInv'
    BY DEF RunInv, LeaseInv, Announce, At, Goto, Launched, Committing, Exclusive, Gates
  <1>3. ChildInv'
    BY DEF RunInv, ChildInv, Announce, At, Goto, Gates, Closing
  <1>4. KeyInv'
    BY DEF RunInv, ChildInv, KeyInv, Announce, At, Goto
  <1>5. ClaimInv'
    BY DEF RunInv, ClaimInv, Announce, At, Goto, InProgress, Launched, Claiming,
           Committing, Exclusive, Gates
  <1>6. FreshInv'
    BY DEF RunInv, FreshInv, Announce, Goto
  <1>7. FirstInv'
    BY DEF RunInv, FirstInv, Announce, At, Goto, Committing, Gates
  <1> QED
    BY <1>1, <1>2, <1>3, <1>4, <1>5, <1>6, <1>7
       DEF RunInv, OwnerInv, SuccessInv, Announce

(* Neither does a first heartbeat that fails. *)
LEMMA AnnounceFailsKeeps ==
  ASSUME NEW r \in Run, RunInv, AnnounceFails(r) PROVE RunInv'
  <1>1. TypeOK'
    BY DEF RunInv, TypeOK, AnnounceFails, Beat, Statuses, Goto, LS!LeaseTypeOK,
           Launched, Executing, Leased
  <1>2. LeaseInv'
    BY DEF RunInv, LeaseInv, AnnounceFails, At, Goto, Launched, Committing, Exclusive,
           Gates
  <1>3. ChildInv'
    BY DEF RunInv, ChildInv, AnnounceFails, Goto, Gates, Closing
  <1>4. KeyInv'
    BY DEF RunInv, ChildInv, KeyInv, AnnounceFails, At, Goto
  <1>5. ClaimInv'
    BY DEF RunInv, ClaimInv, AnnounceFails, At, Goto, InProgress, Launched,
           Claiming, Committing, Exclusive, Gates
  <1>6. FreshInv'
    BY DEF RunInv, FreshInv, AnnounceFails, Goto
  <1>7. FirstInv'
    BY DEF RunInv, FirstInv, AnnounceFails, At, Goto, Committing, Gates
  <1> QED
    BY <1>1, <1>2, <1>3, <1>4, <1>5, <1>6, <1>7
       DEF RunInv, OwnerInv, SuccessInv, AnnounceFails, InProgress, At,
           SameLock

(* A run whose reader cannot start leaves its claim as it is. *)
LEMMA ReaderFailsKeeps ==
  ASSUME NEW r \in Run, RunInv, ReaderFails(r) PROVE RunInv'
  <1>1. TypeOK'
    BY DEF RunInv, TypeOK, ReaderFails, Beat, Statuses, Raise, Kill, At, Goto,
           LS!LeaseTypeOK, Leased
  <1>2. LeaseInv'
    BY DEF RunInv, LeaseInv, ReaderFails, At, Goto, Launched, Committing, Exclusive,
           Gates
  <1>3. ChildInv'
    BY DEF RunInv, TypeOK, ChildInv, ReaderFails, Kill, Goto, Gates, Closing
  <1>4. KeyInv'
    BY KindAssumption
       DEF RunInv, TypeOK, KeyInv, ReaderFails, Kill, Goto, Launched, Closing,
           Executing
  <1>5. ClaimInv'
    BY DEF RunInv, TypeOK, ClaimInv, ReaderFails, Kill, Goto, InProgress, Launched,
           Claiming, Committing, Exclusive, Gates
  <1>6. FreshInv'
    BY DEF RunInv, FreshInv, ReaderFails, Goto
  <1>7. FirstInv'
    BY KindAssumption
       DEF RunInv, TypeOK, FirstInv, ReaderFails, Kill, At, Goto, Committing, Gates
  <1>8. SuccessInv'
    BY DEF RunInv, TypeOK, SuccessInv, ReaderFails, Kill
  <1> QED
    BY <1>1, <1>2, <1>3, <1>4, <1>5, <1>6, <1>7, <1>8
       DEF RunInv, OwnerInv, ReaderFails

(* A poll changes nothing but the place of the run. *)
LEMMA PollKeeps ==
  ASSUME NEW r \in Run, RunInv, Poll(r) PROVE RunInv'
  <1>1. TypeOK'
    BY DEF RunInv, TypeOK, Poll, Goto, files, LS!LeaseTypeOK, Launched,
           Executing, Leased
  <1>2. LeaseInv'
    BY DEF RunInv, LeaseInv, Poll, At, Goto, Launched, Committing, Exclusive, Gates
  <1>3. ChildInv'
    BY DEF RunInv, ChildInv, Poll, Goto, Gates, Closing
  <1>4. KeyInv'
    BY DEF RunInv, KeyInv, Poll, Goto
  <1>5. ClaimInv'
    BY DEF RunInv, ClaimInv, Poll, At, Goto, files, InProgress, Launched, Claiming,
           Committing, Exclusive, Gates
  <1>6. FreshInv'
    BY DEF RunInv, FreshInv, Poll, Goto, files
  <1>7. FirstInv'
    BY DEF RunInv, FirstInv, Poll, At, Goto, Committing, Gates
  <1> QED
    BY <1>1, <1>2, <1>3, <1>4, <1>5, <1>6, <1>7
       DEF RunInv, OwnerInv, SuccessInv, Poll, files

(* SUCCEEDED is given only to a child that exited so. *)
LEMMA ReapKeeps ==
  ASSUME NEW r \in Run, RunInv, Reap(r) PROVE RunInv'
  <1>1. TypeOK'
    BY MapAssumption DEF RunInv, TypeOK, Reap, Become, Goto, Statuses, files,
                         LS!LeaseTypeOK, Launched, Executing, Leased
  <1>2. LeaseInv'
    BY DEF RunInv, LeaseInv, Reap, At, Goto, Launched, Committing, Exclusive, Gates
  <1>3. ChildInv'
    BY DEF RunInv, ChildInv, Reap, Become, Goto, Gates
  <1>4. KeyInv'
    BY DEF RunInv, ChildInv, KeyInv, Reap, At, Goto
  <1>5. ClaimInv'
    BY DEF RunInv, ClaimInv, Reap, At, Goto, files, InProgress, Launched, Claiming,
           Committing, Exclusive, Gates
  <1>6. FreshInv'
    BY DEF RunInv, FreshInv, Reap, Goto, files
  <1>7. FirstInv'
    BY DEF RunInv, FirstInv, Reap, At, Goto, Committing, Gates
  <1> QED
    BY <1>1, <1>2, <1>3, <1>4, <1>5, <1>6, <1>7
       DEF RunInv, OwnerInv, SuccessInv, Reap, files

(* A stop kills the child, or leaves it when it cannot. *)
LEMMA StopKeeps ==
  ASSUME NEW r \in Run, RunInv, Stop(r) PROVE RunInv'
  <1>1. TypeOK'
    BY DEF RunInv, TypeOK, Stop, TerminateTree, Kill, Raise, Goto, files,
           LS!LeaseTypeOK, Gates, Launched, Executing, Leased
  <1>2. LeaseInv'
    BY DEF RunInv, LeaseInv, Stop, At, Goto, Launched, Committing, Exclusive, Gates
  <1>3. ChildInv'
    BY DEF RunInv, TypeOK, ChildInv, Stop, TerminateTree, Kill, Goto, Gates,
           Closing
  <1>4. KeyInv'
    BY KindAssumption
       DEF RunInv, TypeOK, ChildInv, KeyInv, Stop, TerminateTree, Kill, At,
           Goto
  <1>5. ClaimInv'
    BY DEF RunInv, TypeOK, ClaimInv, Stop, TerminateTree, Kill, At, Goto, files,
           InProgress, Launched, Claiming, Committing, Exclusive, Gates
  <1>6. FreshInv'
    BY DEF RunInv, FreshInv, Stop, Goto, files
  <1>7. FirstInv'
    BY KindAssumption
       DEF RunInv, TypeOK, FirstInv, Stop, TerminateTree, Kill, At, Goto, Committing,
           Gates
  <1>8. SuccessInv'
    BY DEF RunInv, TypeOK, SuccessInv, Stop, TerminateTree, Kill, files
  <1> QED
    BY <1>1, <1>2, <1>3, <1>4, <1>5, <1>6, <1>7, <1>8
       DEF RunInv, OwnerInv, Stop

(* Another round of the loop keeps the claim and the lease. *)
LEMMA ContinueKeeps ==
  ASSUME NEW r \in Run, RunInv, Continue(r) PROVE RunInv'
  <1>1. TypeOK'
    BY DEF RunInv, TypeOK, Continue, Goto, files, LS!LeaseTypeOK, Launched,
           Executing, Leased
  <1>2. LeaseInv'
    BY DEF RunInv, LeaseInv, Continue, At, Goto, Launched, Committing, Exclusive, Gates
  <1>3. ChildInv'
    BY DEF RunInv, ChildInv, Continue, At, Goto, Gates, Closing
  <1>4. KeyInv'
    BY DEF RunInv, ChildInv, KeyInv, Continue, At, Goto
  <1>5. ClaimInv'
    BY DEF RunInv, ClaimInv, Continue, At, Goto, files, InProgress, Launched, Claiming,
           Committing, Exclusive, Gates
  <1>6. FreshInv'
    BY DEF RunInv, FreshInv, Continue, Goto, files
  <1>7. FirstInv'
    BY DEF RunInv, FirstInv, Continue, At, Goto, Committing, Gates
  <1> QED
    BY <1>1, <1>2, <1>3, <1>4, <1>5, <1>6, <1>7
       DEF RunInv, OwnerInv, SuccessInv, Continue, files

(* A refresh that finds the lease changes nothing of the operation. *)
LEMMA RefreshKeeps ==
  ASSUME NEW r \in Run, RunInv, Refresh(r) PROVE RunInv'
  <1>1. TypeOK'
    BY DEF RunInv, TypeOK, Refresh, Goto, files, LS!LeaseTypeOK, Launched,
           Executing, Leased
  <1>2. LeaseInv'
    BY DEF RunInv, LeaseInv, Refresh, At, Goto, Launched, Committing, Exclusive, Gates
  <1>3. ChildInv'
    BY DEF RunInv, ChildInv, Refresh, At, Goto, Gates, Closing
  <1>4. KeyInv'
    BY DEF RunInv, ChildInv, KeyInv, Refresh, At, Goto
  <1>5. ClaimInv'
    BY DEF RunInv, ClaimInv, Refresh, At, Goto, files, InProgress, Launched, Claiming,
           Committing, Exclusive, Gates
  <1>6. FreshInv'
    BY DEF RunInv, FreshInv, Refresh, Goto, files
  <1>7. FirstInv'
    BY DEF RunInv, FirstInv, Refresh, At, Goto, Committing, Gates
  <1> QED
    BY <1>1, <1>2, <1>3, <1>4, <1>5, <1>6, <1>7
       DEF RunInv, OwnerInv, SuccessInv, Refresh, files

(* Nor does the heartbeat that follows it. *)
LEMMA RenewKeeps ==
  ASSUME NEW r \in Run, RunInv, Renew(r) PROVE RunInv'
  <1>1. TypeOK'
    BY DEF RunInv, TypeOK, Renew, Beat, Statuses, Goto, LS!LeaseTypeOK, Launched,
           Executing, Leased
  <1>2. LeaseInv'
    BY DEF RunInv, LeaseInv, Renew, At, Goto, Launched, Committing, Exclusive, Gates
  <1>3. ChildInv'
    BY DEF RunInv, ChildInv, Renew, At, Goto, Gates, Closing
  <1>4. KeyInv'
    BY DEF RunInv, ChildInv, KeyInv, Renew, At, Goto
  <1>5. ClaimInv'
    BY DEF RunInv, ClaimInv, Renew, At, Goto, InProgress, Launched, Claiming,
           Committing, Exclusive, Gates
  <1>6. FreshInv'
    BY DEF RunInv, FreshInv, Renew, Goto
  <1>7. FirstInv'
    BY DEF RunInv, FirstInv, Renew, At, Goto, Committing, Gates
  <1> QED
    BY <1>1, <1>2, <1>3, <1>4, <1>5, <1>6, <1>7
       DEF RunInv, OwnerInv, SuccessInv, Renew

(* So does the loss of the lease, which the kill follows. *)
LEMMA LeaseLostKeeps ==
  ASSUME NEW r \in Run, RunInv, LeaseLost(r) PROVE RunInv'
  <1>1. TypeOK'
    BY DEF RunInv, TypeOK, LeaseLost, TerminateTree, Kill, Raise, Goto, files,
           LS!LeaseTypeOK, Launched, Executing, Leased
  <1>2. LeaseInv'
    BY DEF RunInv, LeaseInv, LeaseLost, At, Goto, Launched, Committing, Exclusive, Gates
  <1>3. ChildInv'
    BY DEF RunInv, TypeOK, ChildInv, LeaseLost, TerminateTree, Kill, Goto,
           Gates, Closing
  <1>4. KeyInv'
    BY KindAssumption
       DEF RunInv, TypeOK, ChildInv, KeyInv, LeaseLost, TerminateTree, Kill,
           At, Goto
  <1>5. ClaimInv'
    BY DEF RunInv, TypeOK, ClaimInv, LeaseLost, TerminateTree, Kill, At, Goto, files,
           InProgress, Launched, Claiming, Committing, Exclusive, Gates
  <1>6. FreshInv'
    BY DEF RunInv, FreshInv, LeaseLost, Goto, files
  <1>7. FirstInv'
    BY KindAssumption
       DEF RunInv, TypeOK, FirstInv, LeaseLost, TerminateTree, Kill, At, Goto,
           Committing, Gates
  <1>8. SuccessInv'
    BY DEF RunInv, TypeOK, SuccessInv, LeaseLost, TerminateTree, Kill, files
  <1> QED
    BY <1>1, <1>2, <1>3, <1>4, <1>5, <1>6, <1>7, <1>8
       DEF RunInv, OwnerInv, LeaseLost

(* An error of the loop leaves the child to cleanup. *)
LEMMA ContinueRaisesKeeps ==
  ASSUME NEW r \in Run, RunInv, ContinueRaises(r) PROVE RunInv'
  <1>1. TypeOK'
    BY DEF RunInv, TypeOK, ContinueRaises, Beat, Statuses, Goto, LS!LeaseTypeOK, Launched,
           Executing, Leased
  <1>2. LeaseInv'
    BY DEF RunInv, LeaseInv, ContinueRaises, At, Goto, Launched, Committing, Exclusive,
           Gates
  <1>3. ChildInv'
    BY DEF RunInv, ChildInv, ContinueRaises, At, Goto, Gates, Closing
  <1>4. KeyInv'
    BY DEF RunInv, ChildInv, KeyInv, ContinueRaises, At, Goto
  <1>5. ClaimInv'
    BY DEF RunInv, ClaimInv, ContinueRaises, At, Goto, InProgress, Launched, Claiming,
           Committing, Exclusive, Gates
  <1>6. FreshInv'
    BY DEF RunInv, FreshInv, ContinueRaises, Goto
  <1>7. FirstInv'
    BY DEF RunInv, FirstInv, ContinueRaises, At, Goto, Committing, Gates
  <1> QED
    BY <1>1, <1>2, <1>3, <1>4, <1>5, <1>6, <1>7
       DEF RunInv, OwnerInv, SuccessInv, ContinueRaises

(* After cleanup the child does not run; the status can only get worse. *)
LEMMA CleanupKeeps ==
  ASSUME NEW r \in Run, RunInv, Cleanup(r) PROVE RunInv'
  <1>1. TypeOK'
    BY DEF RunInv, TypeOK, Cleanup, Kill, Become, Goto, Statuses, files, LS!LeaseTypeOK,
           Gates, Launched, Closing, Executing, Leased
  <1>2. LeaseInv'
    BY DEF RunInv, LeaseInv, Cleanup, At, Goto, Launched, Committing, Exclusive, Gates
  <1>3. ChildInv'
    BY DEF RunInv, TypeOK, ChildInv, Cleanup, Kill, Become, Goto, Gates
  <1>4. KeyInv'
    BY DEF RunInv, KeyInv, Cleanup, Kill, At, Goto, Launched, Executing
  <1>5. ClaimInv'
    BY DEF RunInv, ClaimInv, Cleanup, Kill, At, Goto, files, InProgress, Launched,
           Claiming, Committing, Exclusive, Gates
  <1>6. FreshInv'
    BY DEF RunInv, FreshInv, Cleanup, Goto, files
  <1>7. FirstInv'
    BY DEF RunInv, FirstInv, Cleanup, Kill, At, Goto, Committing, Gates
  <1>8. SuccessInv'
    BY DEF RunInv, SuccessInv, Cleanup, Kill, files
  <1> QED
    BY <1>1, <1>2, <1>3, <1>4, <1>5, <1>6, <1>7, <1>8
       DEF RunInv, OwnerInv, Cleanup

(* A cleanup that raises leaves the claim in progress. *)
LEMMA CleanupRaisesKeeps ==
  ASSUME NEW r \in Run, RunInv, CleanupRaises(r) PROVE RunInv'
  <1>1. TypeOK'
    BY DEF RunInv, TypeOK, CleanupRaises, Kill, Raise, Goto, files, LS!LeaseTypeOK,
           Leased
  <1>2. LeaseInv'
    BY DEF RunInv, LeaseInv, CleanupRaises, At, Goto, Launched, Committing, Exclusive,
           Gates
  <1>3. ChildInv'
    BY DEF RunInv, TypeOK, ChildInv, CleanupRaises, Kill, Goto, Gates, Closing
  <1>4. KeyInv'
    BY KindAssumption
       DEF RunInv, TypeOK, KeyInv, CleanupRaises, Kill, Goto, Launched, Closing,
           Executing
  <1>5. ClaimInv'
    BY DEF RunInv, TypeOK, ClaimInv, CleanupRaises, Kill, Goto, files, InProgress,
           Launched, Claiming, Committing, Exclusive, Gates
  <1>6. FreshInv'
    BY DEF RunInv, FreshInv, CleanupRaises, Goto, files
  <1>7. FirstInv'
    BY KindAssumption
       DEF RunInv, TypeOK, FirstInv, CleanupRaises, Kill, At, Goto, Committing, Gates
  <1>8. SuccessInv'
    BY DEF RunInv, TypeOK, SuccessInv, CleanupRaises, Kill, files
  <1> QED
    BY <1>1, <1>2, <1>3, <1>4, <1>5, <1>6, <1>7, <1>8
       DEF RunInv, OwnerInv, CleanupRaises

(* The terminal record is written by the owner of the lease, whose child has
   ended. *)
LEMMA SettleKeeps ==
  ASSUME NEW r \in Run, RunInv, Settle(r) PROVE RunInv'
  <1>1. /\ record' \in [Lock -> [state : RecordStates, run : Run \cup {NoRun}]]
        /\ \/ record' = record
           \/ /\ record'[LockOf[r]].state = status[r] /\ record'[LockOf[r]].run = r
              /\ LockOf[r] \in Keyed
        /\ \A k \in Lock : k # LockOf[r] => record'[k] = record[k]
    <2>1. CASE LockOf[r] \in Keyed /\ Write(r, status[r])
      <3>1. status[r] \in RecordStates
        BY DEF RunInv, TypeOK, RecordStates
      <3> QED
        BY <2>1, <3>1, WriteEffect DEF RunInv
    <2>2. CASE record' = record
      BY <2>2 DEF RunInv, TypeOK
    <2> QED
      BY <2>1, <2>2 DEF Settle
  <1>2. /\ UNCHANGED <<lease, alive, child, due, status, heartbeat, logged>>
        /\ pc' = [pc EXCEPT ![r] = "report"]
        /\ r \in alive /\ pc[r] = "settle"
        /\ raised' \in {raised, raised \cup {r}}
    BY DEF Settle, At, Goto, Raise
  <1>3. TypeOK'
    BY <1>1, <1>2
       DEF RunInv, TypeOK, LS!LeaseTypeOK, Leased, Closing, Executing
  <1>4. LeaseInv'
    BY <1>2 DEF RunInv, LeaseInv, Committing, Exclusive, Gates, Launched
  <1>5. ChildInv'
    BY <1>2 DEF RunInv, ChildInv, Gates, Closing
  <1>6. KeyInv'
    BY <1>2 DEF RunInv, KeyInv, Closing, Executing
  <1>7. pc[r] \in Exclusive /\ pc[r] \in Claiming
    BY <1>2 DEF Claiming, Exclusive, Gates
  <1>8. ClaimInv'
    <2> SUFFICES ASSUME NEW s \in Run, LockOf[s] \in Keyed
                 PROVE  /\ child[s] # "none" \/ pc'[s] \in Claiming
                             => record'[LockOf[s]].state # "ABSENT"
                        /\ Timely(LockOf[s]) /\ s \in alive /\ pc'[s] \in Claiming
                             => InProgress(s)'
      BY <1>2 DEF ClaimInv
    <2>1. LockOf[s] = LockOf[r] => record'[LockOf[r]].state # "ABSENT"
      BY <1>1, <1>7 DEF RunInv, TypeOK, ClaimInv, Statuses
    <2>2. CASE s = r
      BY <2>1, <2>2, <1>2 DEF RunInv, TypeOK, Claiming, Exclusive, Committing, Launched,
                              Gates
    <2>3. CASE s # r /\ LockOf[s] = LockOf[r]
      <3>1. pc'[s] = pc[s]
        BY <2>3, <1>2
      <3>2. ~(Timely(LockOf[s]) /\ s \in alive /\ pc[s] \in Claiming)
        BY <2>3, <1>2, <1>7 DEF RunInv, ClaimInv, InProgress
      <3> QED
        BY <3>1, <3>2, <2>1, <2>3
    <2>4. CASE LockOf[s] # LockOf[r]
      <3>1. pc'[s] = pc[s] /\ record'[LockOf[s]] = record[LockOf[s]]
        BY <2>4, <1>1, <1>2, JobAssumption
      <3> QED
        BY <3>1 DEF RunInv, ClaimInv, InProgress
    <2> QED
      BY <2>2, <2>3, <2>4
  <1>9. FreshInv'
    <2> SUFFICES ASSUME NEW s \in alive, Timely(LockOf[s]), pc'[s] \in {"killswitch", "claim"}
                 PROVE  record'[LockOf[s]] = record[LockOf[s]] /\ pc'[s] = pc[s]
      BY <1>2 DEF RunInv, FreshInv
    <2>1. s \in Run /\ s # r /\ pc[s] = pc'[s] /\ pc[s] \in Exclusive
      BY <1>2 DEF RunInv, TypeOK, Committing, Exclusive, Gates
    <2>2. CASE LockOf[s] = LockOf[r] /\ LockOf[r] \in Keyed
      <3>1. s \in Capital
        BY <2>1, <2>2, <1>2, <1>7, Rivals DEF SameLock, OnLock
      <3>2. record[LockOf[r]].state = "ABSENT"
        BY <3>1, <2>1, <2>2 DEF RunInv, FreshInv
      <3> QED
        BY <3>2, <2>2, <1>7 DEF RunInv, ClaimInv
    <2>3. CASE LockOf[s] # LockOf[r] \/ LockOf[r] \notin Keyed
      BY <2>1, <2>3, <1>1, JobAssumption
    <2> QED
      BY <2>1, <2>2, <2>3
  <1>10. FirstInv'
    BY <1>2 DEF RunInv, FirstInv, At, Committing, Gates
  <1>11. SuccessInv'
    BY <1>1, <1>2 DEF RunInv, ChildInv, SuccessInv
  <1> QED
    BY <1>2, <1>3, <1>4, <1>5, <1>6, <1>8, <1>9, <1>10, <1>11
       DEF RunInv, OwnerInv

(* The terminal heartbeat disturbs no record. *)
LEMMA ReportKeeps ==
  ASSUME NEW r \in Run, RunInv, Report(r) PROVE RunInv'
  <1>1. TypeOK'
    BY DEF RunInv, TypeOK, Report, Beat, Raise, Goto, LS!LeaseTypeOK, Closing,
           Executing, Leased
  <1>2. LeaseInv'
    BY DEF RunInv, LeaseInv, Report, At, Goto, Committing, Exclusive, Gates, Launched
  <1>3. ChildInv'
    BY DEF RunInv, ChildInv, Report, At, Goto, Gates, Closing
  <1>4. KeyInv'
    BY DEF RunInv, KeyInv, Report, At, Goto, Closing, Executing
  <1>5. ClaimInv'
    BY DEF RunInv, ClaimInv, Report, Goto, InProgress, Launched, Claiming, Committing,
           Exclusive, Gates
  <1>6. FreshInv'
    BY DEF RunInv, FreshInv, Report, Goto
  <1>7. FirstInv'
    BY DEF RunInv, FirstInv, Report, At, Goto, Committing, Gates
  <1> QED
    BY <1>1, <1>2, <1>3, <1>4, <1>5, <1>6, <1>7
       DEF RunInv, OwnerInv, SuccessInv, Report

(* Nor does the event. *)
LEMMA LogKeeps ==
  ASSUME NEW r \in Run, RunInv, Log(r) PROVE RunInv'
  <1>1. TypeOK'
    BY DEF RunInv, TypeOK, Log, AppendEvent, Raise, Goto, LS!LeaseTypeOK, Leased
  <1>2. LeaseInv'
    BY DEF RunInv, LeaseInv, Log, At, Goto, Committing, Exclusive, Gates, Launched
  <1>3. ChildInv'
    BY DEF RunInv, ChildInv, Log, Goto, Gates, Closing
  <1>4. KeyInv'
    BY DEF RunInv, KeyInv, Log, At, Goto, Closing, Executing
  <1>5. ClaimInv'
    BY DEF RunInv, ClaimInv, Log, Goto, InProgress, Launched, Claiming, Committing,
           Exclusive, Gates
  <1>6. FreshInv'
    BY DEF RunInv, FreshInv, Log, Goto
  <1>7. FirstInv'
    BY DEF RunInv, FirstInv, Log, At, Goto, Committing, Gates
  <1> QED
    BY <1>1, <1>2, <1>3, <1>4, <1>5, <1>6, <1>7
       DEF RunInv, OwnerInv, SuccessInv, Log

(* After its release a run owns nothing and launches nothing. *)
LEMMA ReleaseKeeps ==
  ASSUME NEW r \in Run, RunInv, Release(r) PROVE RunInv'
  <1>1. TypeOK'
    BY DEF RunInv, TypeOK, Release, LS!Lose, Raise, Goto, files, LS!LeaseTypeOK
  <1>2. LeaseInv'
    BY DEF RunInv, TypeOK, LeaseInv, Release, LS!Lose, Goto, LS!LeaseTypeOK, Gates,
           Launched, Committing, Exclusive
  <1>3. OwnerInv'
    BY DEF RunInv, TypeOK, OwnerInv, Release, LS!Lose, LS!LeaseTypeOK
  <1>4. ChildInv'
    BY DEF RunInv, ChildInv, Release, Goto, Gates, Closing
  <1>5. KeyInv'
    BY DEF RunInv, KeyInv, Release, Goto, Launched, Closing, Executing
  <1>6. ClaimInv'
    BY DEF RunInv, ClaimInv, Release, Goto, files, InProgress, Launched, Claiming,
           Committing, Exclusive, Gates
  <1>7. FreshInv'
    BY DEF RunInv, FreshInv, Release, Goto, files
  <1>8. FirstInv'
    BY DEF RunInv, FirstInv, Release, At, Goto, Committing, Gates
  <1> QED
    BY <1>1, <1>2, <1>3, <1>4, <1>5, <1>6, <1>7, <1>8
       DEF RunInv, SuccessInv, Release, files

(* A dead run makes no further step; its claim stays. *)
LEMMA DieKeeps ==
  ASSUME NEW r \in Run, RunInv, Die(r) PROVE RunInv'
  <1>1. TypeOK'
    BY DEF RunInv, TypeOK, Die, Kill, files, LS!LeaseTypeOK, Gates, Leased
  <1>2. LeaseInv'
    BY DEF RunInv, LeaseInv, Die, Committing, Exclusive, Gates, Launched
  <1>3. ChildInv'
    BY DEF RunInv, TypeOK, ChildInv, Die, Kill
  <1>4. KeyInv'
    BY KindAssumption DEF RunInv, TypeOK, KeyInv, Die, Kill
  <1>5. ClaimInv'
    BY DEF RunInv, TypeOK, ClaimInv, Die, Kill, files, InProgress, Claiming, Committing,
           Exclusive, Gates, Launched
  <1>6. FreshInv'
    BY DEF RunInv, FreshInv, Die, files
  <1>7. FirstInv'
    BY KindAssumption DEF RunInv, TypeOK, FirstInv, Die, Kill, At, Committing, Gates
  <1>8. SuccessInv'
    BY DEF RunInv, TypeOK, SuccessInv, Die, Kill, files
  <1> QED
    BY <1>1, <1>2, <1>3, <1>4, <1>5, <1>6, <1>7, <1>8 DEF RunInv, OwnerInv, Die

(* A live run that loses its lease is at a place where it may. *)
LEMMA EvictKeeps ==
  ASSUME NEW r \in Run, RunInv, Evict(r) PROVE RunInv'
  <1>1. TypeOK'
    BY DEF RunInv, TypeOK, Evict, LS!Lose, files, LS!LeaseTypeOK
  <1>2. LeaseInv'
    BY DEF RunInv, LeaseInv, Evict, LS!Lose, Gates, Launched, Committing, Exclusive
  <1>3. OwnerInv'
    BY DEF RunInv, OwnerInv, Evict, LS!Lose
  <1> QED
    BY <1>1, <1>2, <1>3
       DEF RunInv, ChildInv, KeyInv, ClaimInv, FreshInv, FirstInv, SuccessInv,
           Evict, InProgress, At, files

(* A child that exits changes no record. *)
LEMMA ChildExitsKeeps ==
  ASSUME NEW r \in Run, RunInv, ChildExits(r) PROVE RunInv'
  <1>1. TypeOK'
    BY DEF RunInv, TypeOK, ChildExits, files, LS!LeaseTypeOK
  <1>2. ChildInv'
    BY DEF RunInv, ChildInv, ChildExits
  <1>3. KeyInv'
    BY DEF RunInv, KeyInv, ChildExits
  <1>4. ClaimInv'
    BY DEF RunInv, ClaimInv, ChildExits, files, InProgress, Claiming, Committing,
           Exclusive, Gates, Launched
  <1>5. FirstInv'
    BY DEF RunInv, FirstInv, ChildExits, At, Committing, Gates
  <1>6. SuccessInv'
    BY DEF RunInv, SuccessInv, ChildExits, files
  <1> QED
    BY <1>1, <1>2, <1>3, <1>4, <1>5, <1>6
       DEF RunInv, LeaseInv, OwnerInv, FreshInv, ChildExits, files

(* A deadline that passes changes no record. *)
LEMMA DueKeeps ==
  ASSUME NEW r \in Run, RunInv, Due(r) PROVE RunInv'
  <1>1. TypeOK'
    BY DEF RunInv, TypeOK, Due, files, LS!LeaseTypeOK
  <1> QED
    BY <1>1
       DEF RunInv, LeaseInv, OwnerInv, ChildInv, KeyInv, ClaimInv, FreshInv,
           FirstInv, SuccessInv, Due, InProgress, At, files

(* Every step of every run, and stuttering, keeps the invariant. *)
LEMMA NextKeeps ==
  ASSUME RunInv, [Next]_vars PROVE RunInv'
  <1>1. ASSUME NEW r \in Run, Step(r) PROVE RunInv'
    BY <1>1, CheckKeeps, CheckRaisesKeeps, KillSwitchKeeps, SkipKeeps,
       ClaimKeeps, LaunchKeeps, LaunchFailsKeeps, AnnounceKeeps,
       AnnounceFailsKeeps, ReaderFailsKeeps, PollKeeps, ReapKeeps, StopKeeps,
       ContinueKeeps, RefreshKeeps, RenewKeeps, LeaseLostKeeps, ContinueRaisesKeeps, CleanupKeeps,
       CleanupRaisesKeeps, SettleKeeps, ReportKeeps, LogKeeps, ReleaseKeeps
       DEF Step
  <1>2. ASSUME NEW r \in Run, Acquire(r) \/ Refused(r) \/ AcquireRaises(r)
        PROVE  RunInv'
    BY <1>2, AcquireKeeps, RefusedKeeps, AcquireRaisesKeeps
  <1>3. ASSUME NEW r \in Run, Die(r) \/ Evict(r) \/ ChildExits(r) \/ Due(r)
        PROVE  RunInv'
    BY <1>3, DieKeeps, EvictKeeps, ChildExitsKeeps, DueKeeps
  <1>4. CASE UNCHANGED vars
    BY <1>4
       DEF RunInv, TypeOK, LeaseInv, OwnerInv, ChildInv, KeyInv, ClaimInv,
           FreshInv, FirstInv, SuccessInv, InProgress, At, LS!LeaseTypeOK, vars
  <1> QED
    BY <1>1, <1>2, <1>3, <1>4 DEF Next

(* The inductive invariant of run_job: lease, claim, child and terminal record
   never contradict each other, through every exception and every crash, and
   where a live run may lose its lease it says what is left of that. *)
THEOREM RunInvariant == Spec => []RunInv
  <1>1. RunInv /\ [Next]_vars => RunInv'
    BY NextKeeps
  <1> QED
    BY <1>1, InitKeeps, PTL DEF Spec

(* A launch is the launch of Launch(r). *)
LEMMA OnlyLaunchLaunches ==
  ASSUME RunInv, [Next]_vars, NEW s \in Run, child[s] = "none", child'[s] # "none"
  PROVE  Launch(s)
  <1>1. PICK r \in Run : Step(r) \/ Die(r) \/ ChildExits(r)
    BY DEF Next, vars, Acquire, Refused, AcquireRaises, Evict, Due
  <1>2. CASE Die(r) \/ ChildExits(r)
    BY <1>2 DEF RunInv, TypeOK, Die, ChildExits, Kill
  <1>3. CASE Step(r)
    <2>1. Launch(r) \/ ReaderFails(r) \/ Stop(r) \/ LeaseLost(r) \/ Cleanup(r)
            \/ CleanupRaises(r)
      BY <1>3
         DEF Step, Check, CheckRaises, KillSwitch, Skip, Claim, ClaimRaises,
             LaunchFails, Announce, AnnounceFails, Poll, Reap, Continue, Refresh,
             Renew, ContinueRaises, Settle, Report, Log, Release
    <2> QED
      BY <2>1
         DEF RunInv, TypeOK, Launch, ReaderFails, Stop, LeaseLost, Cleanup,
             CleanupRaises, TerminateTree, Kill
  <1> QED
    BY <1>1, <1>2, <1>3

(* A capital operation is submitted at most once, for every number of attempts
   and through every crash, timeout and failed write: it is enough that the
   capital runs themselves are not slower than their ttl before their launch. *)
THEOREM SingleSubmissionTheorem ==
  ASSUME \A k \in Lock : Prompt(k) PROVE Spec => []SingleSubmission
  <1>1. Init => SingleSubmission
    BY KindAssumption DEF Init, SingleSubmission
  <1>2. RunInv /\ SingleSubmission /\ [Next]_vars => SingleSubmission'
    <2> SUFFICES ASSUME RunInv, SingleSubmission, [Next]_vars,
                        NEW r \in Capital, NEW s \in Capital,
                        SameLock(r, s), r # s, child'[r] # "none", child'[s] # "none"
                 PROVE  FALSE
      BY DEF SingleSubmission
    <2>1. r \in Run /\ s \in Run /\ Prompt(LockOf[r]) /\ Prompt(LockOf[s])
      BY KindAssumption, JobAssumption
    <2>2. CASE child[r] = "none"
      <3>1. Launch(r)
        BY <2>1, <2>2, OnlyLaunchLaunches
      <3>2. child[s] = "none"
        BY <2>1, <3>1 DEF RunInv, FirstInv, Launch, At, Committing
      <3> QED
        BY <3>1, <3>2 DEF Launch
    <2>3. CASE child[s] = "none"
      <3>1. Launch(s)
        BY <2>1, <2>3, OnlyLaunchLaunches
      <3>2. child[r] = "none"
        BY <2>1, <3>1 DEF RunInv, FirstInv, Launch, SameLock, At, Committing
      <3> QED
        BY <3>1, <3>2 DEF Launch
    <2> QED
      BY <2>2, <2>3 DEF SingleSubmission
  <1> QED
    BY <1>1, <1>2, RunInvariant, PTL DEF Spec

(* A record changes only by the claim or the terminal write of a run, also where
   they raise. *)
LEMMA OnlyOwnersWrite ==
  ASSUME [Next]_vars, NEW k \in Lock, record'[k] # record[k]
  PROVE  \E r \in Run : Claim(r) \/ ClaimRaises(r) \/ Settle(r)
  BY DEF Next, Step, vars, files, Acquire, Refused, AcquireRaises, Check, CheckRaises,
         KillSwitch, Skip, Launch, LaunchFails, Announce, AnnounceFails, ReaderFails,
         Poll, Reap, Stop, Continue, Refresh, Renew, LeaseLost, ContinueRaises,
         Cleanup, CleanupRaises, Report, Log, Release, Die, Evict, ChildExits, Due

(* Where records can be read and runs are timely, a record that says SUCCEEDED
   is final. *)
THEOREM SucceededIsFinalTheorem ==
  ASSUME \A k \in Lock : Timely(k), ~ReadFaults PROVE Spec => SucceededIsFinal
  <1> DEFINE Final == \A k \in Lock : record[k].state = "SUCCEEDED" => record'[k] = record[k]
  <1>1. RunInv /\ [Next]_vars => Final
    <2> SUFFICES ASSUME RunInv, [Next]_vars, NEW k \in Lock,
                        record[k].state = "SUCCEEDED", record'[k] # record[k]
                 PROVE  FALSE
      OBVIOUS
    <2>1. PICK r \in Run : Claim(r) \/ ClaimRaises(r) \/ Settle(r)
      BY OnlyOwnersWrite
    <2>2. LockOf[r] = k
      BY <2>1 DEF RunInv, TypeOK, Claim, ClaimRaises, Settle, Write
    <2>3. ~Claim(r) /\ ~ClaimRaises(r)
      BY <2>2 DEF RunInv, FreshInv, Claim, ClaimRaises, At
    <2>4. Settle(r) /\ LockOf[r] \in Keyed
      BY <2>1, <2>2, <2>3 DEF Settle
    <2> QED
      BY <2>2, <2>4 DEF RunInv, ClaimInv, InProgress, Settle, At, Claiming, Exclusive, Gates
  <1>2. Spec => [][Final]_vars
    BY <1>1, RunInvariant, PTL DEF Spec
  <1> QED
    BY <1>2 DEF SucceededIsFinal

(* Where a lock id serves capital alone, it is enough to be prompt. *)
LEMMA PromptIsTimely ==
  ASSUME NEW k \in Lock, OnLock(k) \subseteq Capital, Prompt(k)
  PROVE  Timely(k)
  BY DEF Prompt, Timely, Vital

(* An ambiguous capital attempt is held: no later attempt replaces its record,
   whatever is read and whatever fails. *)
THEOREM AttemptIsHeldTheorem ==
  ASSUME \A k \in Lock : Prompt(k) PROVE Spec => AttemptIsHeld
  <1> DEFINE Held == \A k \in Lock :
        OnLock(k) \subseteq Capital /\ record[k].state # "ABSENT"
          => record'[k].run = record[k].run
  <1>1. RunInv /\ [Next]_vars => Held
    <2> SUFFICES ASSUME RunInv, [Next]_vars, NEW k \in Lock,
                        OnLock(k) \subseteq Capital, record[k].state # "ABSENT",
                        record'[k] # record[k]
                 PROVE  record'[k].run = record[k].run
      OBVIOUS
    <2>1. PICK r \in Run : Claim(r) \/ ClaimRaises(r) \/ Settle(r)
      BY OnlyOwnersWrite
    <2>2. LockOf[r] = k
      BY <2>1 DEF RunInv, TypeOK, Claim, ClaimRaises, Settle, Write
    <2>3. r \in Capital /\ Timely(LockOf[r])
      BY <2>2, PromptIsTimely DEF OnLock
    <2>4. ~Claim(r) /\ ~ClaimRaises(r)
      BY <2>2, <2>3 DEF RunInv, FreshInv, Claim, ClaimRaises, At
    <2>5. Settle(r) /\ LockOf[r] \in Keyed
      BY <2>1, <2>2, <2>4 DEF Settle
    <2>6. record[k].run = r
      BY <2>2, <2>3, <2>5
         DEF RunInv, ClaimInv, InProgress, Settle, At, Claiming, Exclusive, Gates
    <2> QED
      BY <2>5, <2>6 DEF RunInv, TypeOK, Settle, Write
  <1>2. Spec => [][Held]_vars
    BY <1>1, RunInvariant, PTL DEF Spec
  <1> QED
    BY <1>2 DEF AttemptIsHeld

-----------------------------------------------------------------------------
(* A child that was launched stays launched. *)
LEMMA NothingUnlaunches ==
  ASSUME RunInv, [Next]_vars, NEW s \in Run, child[s] # "none"
  PROVE  child'[s] # "none"
  <1>1. CASE child' = child
    BY <1>1
  <1>2. CASE child' # child
    <2>1. PICK r \in Run : Launch(r) \/ ReaderFails(r) \/ Stop(r) \/ LeaseLost(r)
                              \/ Cleanup(r) \/ CleanupRaises(r) \/ Die(r)
                              \/ ChildExits(r)
      BY <1>2
         DEF Next, Step, vars, Acquire, Refused, AcquireRaises, Check, CheckRaises,
             KillSwitch, Skip, Claim, ClaimRaises, LaunchFails, Announce,
             AnnounceFails, Poll, Reap, Continue, Refresh, Renew, ContinueRaises,
             Settle, Report, Log, Release, Evict, Due
    <2> QED
      BY <2>1 DEF RunInv, TypeOK, Launch, ReaderFails, Stop, LeaseLost, Cleanup,
                  CleanupRaises, Die, ChildExits, TerminateTree, Kill
  <1> QED
    BY <1>1, <1>2

(* How a run sees its operation, and what it has submitted. *)
Outcome == [k \in Keyed |-> record[k]]
Submitted == {r \in Run : LockOf[r] \in Keyed /\ child[r] # "none"}

(* A claim begins an attempt that the earlier outcome permits, even if it raises. *)
LEMMA ClaimBegins ==
  ASSUME NEW r \in Run, RunInv, Claim(r) \/ ClaimRaises(r), record' # record,
         ReadFaults => Run \subseteq Capital, Timely(LockOf[r])
  PROVE  Operations!Begin(r)
  <1> DEFINE new == [state |-> "IN_PROGRESS", run |-> r]
  <1>1. /\ LockOf[r] \in Keyed /\ UNCHANGED child
        /\ record' = [record EXCEPT ![LockOf[r]] = new]
    BY DEF Claim, ClaimRaises, Write
  <1>2. child[r] = "none" /\ record[LockOf[r]].state # "SUCCEEDED"
        /\ (r \in Capital => record[LockOf[r]].state = "ABSENT")
    BY DEF RunInv, ChildInv, FreshInv, Claim, ClaimRaises, At, Gates
  <1>3. DOMAIN record = Lock /\ Keyed \subseteq Lock
    BY KindAssumption DEF RunInv, TypeOK
  <1>4. Outcome' = [Outcome EXCEPT ![LockOf[r]] = new]
    BY <1>1, <1>3 DEF Outcome
  <1>5. Submitted' = Submitted
    BY <1>1 DEF Submitted
  <1> QED
    BY <1>1, <1>2, <1>4, <1>5
       DEF Operations!Begin, Operations!Pending, Outcome, Submitted

(* The terminal record concludes the attempt in progress. *)
LEMMA SettleConcludes ==
  ASSUME NEW r \in Run, RunInv, Settle(r), record' # record, Timely(LockOf[r])
  PROVE  Operations!Conclude(r)
  <1>1. LockOf[r] \in Keyed /\ At(r, "settle") /\ UNCHANGED child
        /\ record' = [record EXCEPT ![LockOf[r]] = [state |-> status[r], run |-> r]]
    BY DEF Settle, Write
  <1>2. record[LockOf[r]] = [state |-> "IN_PROGRESS", run |-> r]
    <2>1. InProgress(r)
      BY <1>1 DEF RunInv, ClaimInv, At, Claiming, Exclusive, Gates
    <2>2. record[LockOf[r]] \in [state : RecordStates, run : Run \cup {NoRun}]
      BY JobAssumption DEF RunInv, TypeOK
    <2> QED
      BY <2>1, <2>2 DEF InProgress
  <1>3. status[r] \in Operations!Outcomes /\ (status[r] = "SUCCEEDED" => child[r] # "none")
    BY <1>1 DEF RunInv, TypeOK, ChildInv, Statuses, Operations!Outcomes
  <1>4. DOMAIN record = Lock /\ Keyed \subseteq Lock
    BY KindAssumption DEF RunInv, TypeOK
  <1>5. Outcome' = [Outcome EXCEPT ![LockOf[r]] = [state |-> status[r], run |-> r]]
    BY <1>1, <1>4 DEF Outcome
  <1>6. Submitted' = Submitted
    BY <1>1 DEF Submitted
  <1> QED
    BY <1>1, <1>2, <1>3, <1>5, <1>6
       DEF Operations!Conclude, Operations!Pending, Outcome, Submitted

(* A launch submits the attempt in progress. *)
LEMMA LaunchSubmits ==
  ASSUME NEW r \in Run, RunInv, Launch(r), LockOf[r] \in Keyed, Timely(LockOf[r])
  PROVE  Operations!Submit(r)
  <1>1. record[LockOf[r]] = [state |-> "IN_PROGRESS", run |-> r]
    <2>1. InProgress(r)
      BY DEF RunInv, ClaimInv, Launch, At, Claiming, Exclusive, Committing, Gates
    <2>2. record[LockOf[r]] \in [state : RecordStates, run : Run \cup {NoRun}]
      BY JobAssumption DEF RunInv, TypeOK
    <2> QED
      BY <2>1, <2>2 DEF InProgress
  <1>2. child[r] = "none" /\ child' = [child EXCEPT ![r] = "running"] /\ record' = record
    BY DEF RunInv, ChildInv, Launch, At, files
  <1>3. Submitted' = Submitted \cup {r}
    BY <1>2 DEF RunInv, TypeOK, Submitted
  <1> QED
    BY <1>1, <1>2, <1>3
       DEF Operations!Submit, Operations!Pending, Outcome, Submitted

(* The timely runs of a program that can read its records, or serves only
   capital, implement economic operations: each is attempted in turn, submitted
   only by the attempt in progress, and closed by what that came to. *)
THEOREM OperationTheorem ==
  ASSUME \A k \in Lock : Timely(k), ReadFaults => Run \subseteq Capital
  PROVE  Spec => ImplementsOperation
  <1>1. Init => Operations!Init
    BY KindAssumption DEF Init, Operations!Init, Operations!Untried, NoRecord
  <1>2. RunInv /\ [Next]_vars => [Operations!Next]_(Operations!vars)
    <2> SUFFICES ASSUME RunInv, [Next]_vars
                 PROVE  Operations!Next \/ UNCHANGED Operations!vars
      OBVIOUS
    <2>0. \A r \in Run : Timely(LockOf[r])
      BY JobAssumption
    <2>1. CASE \E r \in Run : Launch(r) /\ LockOf[r] \in Keyed
      BY <2>0, <2>1, LaunchSubmits DEF Operations!Next
    <2>2. CASE \E r \in Run : (Claim(r) \/ ClaimRaises(r)) /\ record' # record
      BY <2>0, <2>2, ClaimBegins DEF Operations!Next
    <2>3. CASE \E r \in Run : Settle(r) /\ record' # record
      BY <2>0, <2>3, SettleConcludes DEF Operations!Next
    <2>4. CASE /\ \A r \in Run : Launch(r) => LockOf[r] \notin Keyed
               /\ \A r \in Run : Claim(r) \/ ClaimRaises(r) \/ Settle(r) => record' = record
      <3>1. \A k \in Keyed : record'[k] = record[k]
        BY <2>4, OnlyOwnersWrite, KindAssumption
      <3>2. \A s \in Run : child[s] # "none" => child'[s] # "none"
        BY NothingUnlaunches
      <3>3. \A s \in Run : LockOf[s] \in Keyed => (child[s] = "none" <=> child'[s] = "none")
        BY <2>4, <3>2, OnlyLaunchLaunches
      <3>4. Outcome' = Outcome
        BY <3>1 DEF Outcome
      <3>5. Submitted' = Submitted
        BY <3>3 DEF Submitted
      <3> QED
        BY <3>4, <3>5 DEF Operations!vars, Outcome, Submitted
    <2> QED
      BY <2>1, <2>2, <2>3, <2>4
  <1>3. Spec => Operations!Init /\ [][Operations!Next]_(Operations!vars)
    BY <1>1, <1>2, RunInvariant, PTL DEF Spec
  <1> QED
    BY <1>3 DEF ImplementsOperation, Operations!Spec

-----------------------------------------------------------------------------
(* A child that runs on when its run has left the loop and the cleanup is one
   that could not be killed, and run_job has raised. *)
OrphanInv ==
  \A r \in alive : child[r] = "running" /\ pc[r] \notin Launched => r \in Unkillable \cap raised

(* Every way out of the loop and of the cleanup goes by a kill. *)
LEMMA OrphanKeeps ==
  ASSUME RunInv, OrphanInv, [Next]_vars PROVE OrphanInv'
  <1> USE DEF OrphanInv, Launched
  <1>1. ASSUME NEW r \in Run, Step(r) PROVE OrphanInv'
    <2>1. CASE Launch(r) \/ LaunchFails(r) \/ Announce(r) \/ AnnounceFails(r) \/ Poll(r)
                 \/ Reap(r) \/ Continue(r) \/ Refresh(r) \/ Renew(r) \/ ContinueRaises(r)
      BY <2>1
         DEF RunInv, TypeOK, Launch, LaunchFails, Announce, AnnounceFails, Poll, Reap,
             Continue, Refresh, Renew, ContinueRaises, Raise, At, Goto
    <2>2. CASE ReaderFails(r) \/ Cleanup(r) \/ CleanupRaises(r)
      BY <2>2
         DEF RunInv, TypeOK, ReaderFails, Cleanup, CleanupRaises, Killable, Kill, Raise,
             At, Goto
    <2>3. CASE Stop(r) \/ LeaseLost(r)
      BY <2>3 DEF RunInv, TypeOK, Stop, LeaseLost, TerminateTree, Kill, Raise, Goto
    <2>4. CASE Check(r) \/ CheckRaises(r) \/ KillSwitch(r) \/ Skip(r) \/ Claim(r)
                 \/ ClaimRaises(r) \/ Settle(r) \/ Report(r) \/ Log(r) \/ Release(r)
      BY <2>4
         DEF RunInv, TypeOK, Check, CheckRaises, KillSwitch, Skip, Claim, ClaimRaises,
             Settle, Report, Log, Release, AppendEvent, Raise, At, Goto
    <2> QED
      BY <1>1, <2>1, <2>2, <2>3, <2>4 DEF Step
  <1>2. ASSUME NEW r \in Run, Acquire(r) \/ Refused(r) \/ AcquireRaises(r) PROVE OrphanInv'
    BY <1>2 DEF RunInv, TypeOK, Acquire, Refused, AcquireRaises, Raise, At, Goto
  <1>3. ASSUME NEW r \in Run, Die(r) \/ Evict(r) \/ ChildExits(r) \/ Due(r) PROVE OrphanInv'
    BY <1>3 DEF RunInv, TypeOK, Die, Evict, ChildExits, Due, Kill
  <1>4. CASE UNCHANGED vars
    BY <1>4 DEF vars
  <1> QED
    BY <1>1, <1>2, <1>3, <1>4 DEF Next

(* Two commands of one lock id run together only if one of them outlived its
   runner or the runner's attempts to kill it: capital has launched once, and
   other timely runs have their lease. *)
THEOREM OneSupervisedChildTheorem ==
  ASSUME \A k \in Lock : Timely(k) PROVE Spec => []OneSupervisedChild
  <1>1. Init => OrphanInv
    BY DEF Init, OrphanInv
  <1>2. RunInv /\ OrphanInv /\ [Next]_vars => OrphanInv'
    BY OrphanKeeps
  <1>3. RunInv /\ OrphanInv => OneSupervisedChild
    <2> SUFFICES ASSUME RunInv, OrphanInv, NEW r \in Run, NEW s \in Run,
                        SameLock(r, s), r # s, child[r] = "running", child[s] = "running",
                        ~Escaped(r), ~Escaped(s)
                 PROVE  FALSE
      BY DEF OneSupervisedChild
    <2>1. r \in alive /\ s \in alive /\ pc[r] \in Launched /\ pc[s] \in Launched
      BY DEF OrphanInv, Escaped
    <2>2. Timely(LockOf[r]) /\ pc[r] \in Claiming /\ pc[s] \in Claiming
      BY <2>1, JobAssumption DEF Claiming, Exclusive, Gates, Launched
    <2>3. OnLock(LockOf[r]) \subseteq Capital
      BY <2>1, <2>2, Rivals DEF Claiming
    <2>4. LockOf[r] \in Keyed /\ LockOf[s] = LockOf[r]
      BY <2>3 DEF RunInv, KeyInv, OnLock, SameLock
    <2> QED
      BY <2>1, <2>2, <2>4 DEF RunInv, ClaimInv, InProgress
  <1> QED
    BY <1>1, <1>2, <1>3, RunInvariant, PTL DEF Spec

-----------------------------------------------------------------------------
(* The types hold even when live runs lose their leases. *)
LEMMA TypeKeeps == ASSUME TypeOK, [Next]_vars PROVE TypeOK'
  <1> USE DEF TypeOK, LS!LeaseTypeOK, Leased, Gates, Executing, Launched, Closing
  <1>1. ASSUME NEW r \in Run, Step(r) PROVE TypeOK'
    <2>1. CASE Claim(r) \/ ClaimRaises(r) \/ Settle(r)
      <3>1. record' \in [Lock -> [state : RecordStates, run : Run \cup {NoRun}]]
        BY <2>1, WriteEffect DEF Claim, ClaimRaises, Settle, RecordStates, Statuses
      <3> QED
        BY <2>1, <3>1 DEF Claim, ClaimRaises, Settle, Become, Raise, Goto, Statuses
    <2>2. CASE Announce(r) \/ AnnounceFails(r) \/ Renew(r) \/ ContinueRaises(r) \/ Report(r)
                 \/ ReaderFails(r)
      <3>1. heartbeat' \in [Job -> [state : Statuses \cup {"ABSENT"}, run : Run \cup {NoRun}]]
        BY <2>2 DEF Announce, AnnounceFails, Renew, ContinueRaises, Report, ReaderFails, Beat,
                    Statuses
      <3> QED
        BY <2>2, <3>1 DEF Announce, AnnounceFails, Renew, ContinueRaises, Report, ReaderFails,
                          Kill, Raise, Goto
    <2>3. CASE Reap(r) \/ Cleanup(r) \/ CleanupRaises(r) \/ Stop(r) \/ LeaseLost(r)
      <3>1. CASE Reap(r)
        BY <3>1, MapAssumption DEF Reap, Become, Goto, files
      <3>2. CASE Cleanup(r) \/ CleanupRaises(r)
        BY <3>2 DEF Cleanup, CleanupRaises, Become, Kill, Raise, Goto, files, Statuses
      <3>3. CASE Stop(r) \/ LeaseLost(r)
        BY <3>3 DEF Stop, LeaseLost, TerminateTree, Kill, Raise, Goto, files
      <3> QED
        BY <2>3, <3>1, <3>2, <3>3
    <2>4. CASE Check(r) \/ CheckRaises(r) \/ KillSwitch(r) \/ Skip(r) \/ Launch(r)
                 \/ LaunchFails(r) \/ Poll(r) \/ Continue(r) \/ Refresh(r) \/ Log(r)
      BY <2>4 DEF Check, CheckRaises, KillSwitch, Skip, Launch, LaunchFails, Poll, Continue,
                  Refresh, Log, AppendEvent, Raise, Goto, files
    <2>5. CASE Release(r)
      BY <2>5 DEF Release, LS!Lose, Raise, Goto, files
    <2> QED
      BY <1>1, <2>1, <2>2, <2>3, <2>4, <2>5 DEF Step
  <1>2. ASSUME NEW r \in Run, Acquire(r) \/ Refused(r) \/ AcquireRaises(r) PROVE TypeOK'
    BY <1>2 DEF Acquire, Refused, AcquireRaises, LS!Grant, Raise, Goto, files
  <1>3. ASSUME NEW r \in Run, Die(r) \/ Evict(r) \/ ChildExits(r) \/ Due(r) PROVE TypeOK'
    BY <1>3 DEF Die, Evict, ChildExits, Due, LS!Lose, Kill, files
  <1>4. CASE UNCHANGED vars
    BY <1>4 DEF vars
  <1> QED
    BY <1>1, <1>2, <1>3, <1>4 DEF Next

(* What the files say of a run, by where it is: nothing before it has written,
   and its status once the terminal artifact is written, if nothing has raised. *)
Written(entry, r) == entry.run = r => entry.state = status[r]
Trace(r) ==
  /\ LockOf[r] \notin Keyed => record[LockOf[r]].run # r
  /\ pc[r] \in {"new", "skip"} \cup Gates => record[LockOf[r]].run # r
  /\ pc[r] \in {"new", "skip", "setup"} \cup Gates =>
       heartbeat[JobOf[r]].run # r /\ child[r] # "running"
  /\ pc[r] \in Closing => child[r] # "running"
  /\ r \notin raised =>
       /\ pc[r] \in {"report", "log", "release", "done"} => Written(record[LockOf[r]], r)
       /\ pc[r] \in {"log", "release", "done"} => Written(heartbeat[JobOf[r]], r)
       /\ pc[r] \in {"release", "done"} => child[r] # "running" /\ r \in logged
TraceInv == \A r \in Run : Trace(r)

(* What s finds of its own in the files, if another run writes them. *)
Kept(s) ==
  /\ heartbeat'[JobOf[s]].run = s => heartbeat'[JobOf[s]] = heartbeat[JobOf[s]]
  /\ record'[LockOf[s]].run = s => record'[LockOf[s]] = record[LockOf[s]]

(* A heartbeat of r is no other run's; a record of r neither. *)
LEMMA BeatIsOwn ==
  ASSUME TypeOK, NEW r \in Run, NEW state, Beat(r, state), record' = record
  PROVE  /\ heartbeat'[JobOf[r]].state = state /\ heartbeat'[JobOf[r]].run = r
         /\ \A s \in Run \ {r} : Kept(s)
  <1>1. JobOf[r] \in Job /\ DOMAIN heartbeat = Job
    BY JobAssumption DEF TypeOK
  <1>2. heartbeat'[JobOf[r]] = [state |-> state, run |-> r]
    BY <1>1 DEF Beat
  <1>3. heartbeat'[JobOf[r]].state = state /\ heartbeat'[JobOf[r]].run = r
    BY <1>2
  <1>4. ASSUME NEW s \in Run \ {r}, heartbeat'[JobOf[s]].run = s
        PROVE  heartbeat'[JobOf[s]] = heartbeat[JobOf[s]]
    <2>1. JobOf[s] # JobOf[r]
      BY <1>3, <1>4
    <2> QED
      BY <2>1, <1>1, JobAssumption DEF Beat
  <1> QED
    BY <1>3, <1>4 DEF Kept

LEMMA WriteIsOwn ==
  ASSUME TypeOK, NEW r \in Run, NEW state \in RecordStates, Write(r, state),
         heartbeat' = heartbeat
  PROVE  /\ record'[LockOf[r]].state = state /\ record'[LockOf[r]].run = r
         /\ \A s \in Run \ {r} : Kept(s)
  BY WriteEffect, JobAssumption DEF Kept

(* What a run's step writes for itself, and never for another. *)
LEMMA StepOpens ==
  ASSUME TypeOK, NEW r \in Run, Step(r)
  PROVE  /\ \A s \in Run \ {r} : Kept(s)
         /\ \/ heartbeat' = heartbeat
            \/ pc[r] \in {"announce", "renew"}
            \/ Report(r) /\ heartbeat'[JobOf[r]].state = status[r]
         /\ \/ record' = record
            \/ pc[r] = "claim" /\ LockOf[r] \in Keyed
            \/ Settle(r) /\ LockOf[r] \in Keyed /\ record'[LockOf[r]].state = status[r]
         /\ Report(r) /\ r \notin raised' => heartbeat'[JobOf[r]].state = status[r]
         /\ Settle(r) /\ LockOf[r] \in Keyed /\ r \notin raised'
              => record'[LockOf[r]].state = status[r]
  <1>1. CASE Claim(r) \/ ClaimRaises(r) \/ Settle(r)
    <2>1. \/ Write(r, "IN_PROGRESS") /\ LockOf[r] \in Keyed /\ pc[r] = "claim"
          \/ Write(r, status[r]) /\ LockOf[r] \in Keyed /\ Settle(r)
          \/ UNCHANGED record /\ (Settle(r) => LockOf[r] \notin Keyed \/ r \in raised')
      BY <1>1 DEF Claim, ClaimRaises, Settle, Raise, At
    <2>2. UNCHANGED heartbeat /\ ~Report(r) /\ (Settle(r) => pc[r] # "claim")
      BY <1>1 DEF Claim, ClaimRaises, Settle, Report, At
    <2>3. "IN_PROGRESS" \in RecordStates /\ status[r] \in RecordStates
      BY DEF TypeOK, RecordStates
    <2>4. UNCHANGED record => \A s \in Run \ {r} : Kept(s)
      BY <2>2 DEF Kept
    <2> QED
      BY <2>1, <2>2, <2>3, <2>4, WriteIsOwn
  <1>2. CASE Announce(r) \/ AnnounceFails(r) \/ Renew(r) \/ ContinueRaises(r)
               \/ ReaderFails(r) \/ Report(r)
    <2>1. \/ Beat(r, "WAITING") /\ pc[r] \in {"announce", "renew"}
          \/ Beat(r, status[r]) /\ Report(r)
          \/ UNCHANGED heartbeat /\ (Report(r) => r \in raised')
      BY <1>2 DEF Announce, AnnounceFails, Renew, ContinueRaises, ReaderFails, Report,
                  Raise, At
    <2>2. UNCHANGED record /\ ~Settle(r) /\ (Report(r) => pc[r] = "report")
      BY <1>2 DEF Announce, AnnounceFails, Renew, ContinueRaises, ReaderFails, Report,
                  Settle, At
    <2>3. UNCHANGED heartbeat => \A s \in Run \ {r} : Kept(s)
      BY <2>2 DEF Kept
    <2> QED
      BY <2>1, <2>2, <2>3, BeatIsOwn
  <1>3. CASE UNCHANGED <<record, heartbeat>> /\ ~Report(r) /\ ~Settle(r)
    BY <1>3 DEF Kept
  <1> QED
    BY <1>1, <1>2, <1>3
       DEF Step, files, Check, CheckRaises, KillSwitch, Skip, Launch, LaunchFails, Poll,
           Reap, Stop, Continue, Refresh, LeaseLost, Cleanup, CleanupRaises, Log, Release,
           Report, Settle, At

(* The rest of a step is the run's own affair. *)
LEMMA StepIsOwn ==
  ASSUME TypeOK, NEW r \in Run, Step(r), NEW s \in Run \ {r}
  PROVE  /\ pc'[s] = pc[s] /\ child'[s] = child[s] /\ status'[s] = status[s]
         /\ s \in raised' <=> s \in raised
         /\ s \in logged => s \in logged'
  <1> USE DEF TypeOK, AppendEvent, Goto, Raise, Kill, Become, files
  <1>1. CASE Check(r) \/ CheckRaises(r) \/ KillSwitch(r) \/ Skip(r) \/ Claim(r)
               \/ ClaimRaises(r) \/ Log(r) \/ Release(r) \/ Settle(r) \/ Report(r)
    BY <1>1 DEF Check, CheckRaises, KillSwitch, Skip, Claim, ClaimRaises, Log, Release,
                Settle, Report
  <1>2. CASE Launch(r) \/ LaunchFails(r) \/ Announce(r) \/ AnnounceFails(r) \/ Poll(r)
               \/ Reap(r) \/ Continue(r) \/ Refresh(r) \/ Renew(r) \/ ContinueRaises(r)
    BY <1>2 DEF Launch, LaunchFails, Announce, AnnounceFails, Poll, Reap, Continue, Refresh,
                Renew, ContinueRaises
  <1>3. CASE ReaderFails(r) \/ Stop(r) \/ LeaseLost(r) \/ Cleanup(r) \/ CleanupRaises(r)
    BY <1>3 DEF ReaderFails, Stop, LeaseLost, Cleanup, CleanupRaises, TerminateTree
  <1> QED
    BY <1>1, <1>2, <1>3 DEF Step

(* What a run opens it closes in the same order, or it raises. *)
LEMMA TraceKeeps ==
  ASSUME TypeOK, TraceInv, [Next]_vars PROVE TraceInv'
  <1>1. ASSUME NEW r \in Run, Step(r) PROVE TraceInv'
    <2>1. \A s \in Run \ {r} : Trace(s)'
      BY <1>1, StepOpens, StepIsOwn DEF TraceInv, Trace, Written, Kept
    <2>2. Trace(r)'
      <3> USE <1>1, StepOpens DEF TypeOK, TraceInv, Trace, Written, Gates, Closing, At,
                                  Goto, Raise
      <3>1. CASE Check(r) \/ CheckRaises(r) \/ KillSwitch(r) \/ Skip(r)
        BY <3>1 DEF Check, CheckRaises, KillSwitch, Skip, AppendEvent, files
      <3>2. CASE Claim(r) \/ ClaimRaises(r)
        BY <3>2 DEF Claim, ClaimRaises
      <3>3. CASE Launch(r) \/ LaunchFails(r) \/ AnnounceFails(r) \/ Poll(r) \/ Reap(r)
                   \/ ContinueRaises(r) \/ Announce(r) \/ Continue(r) \/ Refresh(r)
                   \/ Renew(r)
        BY <3>3 DEF Launch, LaunchFails, AnnounceFails, Poll, Reap, ContinueRaises,
                    Announce, Continue, Refresh, Renew, files
      <3>4. CASE ReaderFails(r) \/ Cleanup(r) \/ CleanupRaises(r)
        BY <3>4 DEF ReaderFails, Cleanup, CleanupRaises, Kill, files
      <3>5. CASE Stop(r) \/ LeaseLost(r)
        BY <3>5 DEF Stop, LeaseLost, files
      <3>6. CASE Settle(r) \/ Report(r)
        BY <3>6 DEF Settle, Report
      <3>7. CASE Log(r) \/ Release(r)
        BY <3>7 DEF Log, Release, AppendEvent, files
      <3> QED
        BY <3>1, <3>2, <3>3, <3>4, <3>5, <3>6, <3>7 DEF Step
    <2> QED
      BY <2>1, <2>2 DEF TraceInv
  <1> USE DEF TypeOK, TraceInv, Trace, Written, Gates, Closing, files
  <1>2. ASSUME NEW r \in Run, Acquire(r) \/ Refused(r) \/ AcquireRaises(r) PROVE TraceInv'
    <2>1. record' = record /\ heartbeat' = heartbeat /\ status' = status
      BY <1>2 DEF Acquire, Refused, AcquireRaises
    <2> QED
      BY <1>2, <2>1 DEF Acquire, Refused, AcquireRaises, Raise, At, Goto
  <1>3. ASSUME NEW r \in Run, Die(r) \/ Evict(r) \/ ChildExits(r) \/ Due(r) PROVE TraceInv'
    <2>1. record' = record /\ heartbeat' = heartbeat /\ status' = status
      BY <1>3 DEF Die, Evict, ChildExits, Due
    <2> QED
      BY <1>3, <2>1 DEF Die, Evict, ChildExits, Due, Kill
  <1>4. CASE UNCHANGED vars
    BY <1>4 DEF vars
  <1> QED
    BY <1>1, <1>2, <1>3, <1>4 DEF Next

(* A run that has not begun has written nothing. *)
LEMMA InitTraces == Init => TraceInv
  <1> SUFFICES ASSUME Init, NEW r \in Run PROVE Trace(r)
    BY DEF TraceInv
  <1>1. LockOf[r] \in Lock /\ JobOf[r] \in Job
    BY JobAssumption
  <1>2. pc[r] = "new" /\ child[r] = "none"
    BY DEF Init
  <1>3. record[LockOf[r]].run # r /\ heartbeat[JobOf[r]].run # r
    BY <1>1, RunAssumption DEF Init, NoRecord
  <1> QED
    BY <1>2, <1>3 DEF Trace, Gates, Closing

(* A run_job that returns has an event, nothing that runs, and in what it was the
   last to write the status it returned, whatever status exit_statuses gave it
   and whoever else has the lease or writes the same files meanwhile. *)
THEOREM ReturnedIsRecordedTheorem == Spec => []ReturnedIsRecorded
  <1>1. Init => TypeOK /\ TraceInv
    BY InitTraces, InitKeeps DEF RunInv
  <1>2. TypeOK /\ TraceInv /\ [Next]_vars => TypeOK' /\ TraceInv'
    BY TypeKeeps, TraceKeeps
  <1>3. TypeOK /\ TraceInv => ReturnedIsRecorded
    BY DEF TypeOK, TraceInv, Trace, Written, ReturnedIsRecorded
  <1> QED
    BY <1>1, <1>2, <1>3, PTL DEF Spec

-----------------------------------------------------------------------------
(* What a step of r may do to what Supervision sees of r. *)
Stays(r) == pc'[r] \in Past <=> pc[r] \in Past
RaisesOrNot(r) == raised' \in {raised, raised \cup {r}}
Moves(r) ==
  \/ Stays(r) /\ child'[r] = child[r] /\ RaisesOrNot(r)
  \/ Stays(r) /\ child[r] = "running" /\ child'[r] = "killed" /\ raised' = raised
  \/ /\ Stays(r) /\ pc[r] \notin Past
     /\ child[r] = "none" /\ child'[r] = "running" /\ raised' = raised
  \/ /\ pc[r] \notin Past /\ pc'[r] \in Past /\ RaisesOrNot(r)
     /\ child'[r] \in {child[r], IF child[r] = "running" THEN "killed" ELSE child[r]}
     /\ child'[r] = "running" => r \in raised'

LEMMA StepMoves ==
  ASSUME RunInv, NEW r \in Run,
         Step(r) \/ Acquire(r) \/ Refused(r) \/ AcquireRaises(r)
  PROVE  Moves(r) /\ r \in alive /\ alive' = alive
  <1> USE DEF RunInv, TypeOK, Moves, Stays, RaisesOrNot, Past, Closing, files, At, Goto,
              Raise
  <1>1. CASE Acquire(r) \/ Refused(r) \/ AcquireRaises(r)
    BY <1>1 DEF Acquire, Refused, AcquireRaises, ChildInv
  <1>2. CASE Check(r) \/ CheckRaises(r) \/ KillSwitch(r) \/ Skip(r) \/ Claim(r)
               \/ ClaimRaises(r)
    BY <1>2 DEF Check, CheckRaises, KillSwitch, Skip, AppendEvent, Claim, ClaimRaises,
                ChildInv, Gates
  <1>3. CASE Launch(r) \/ LaunchFails(r) \/ Announce(r) \/ AnnounceFails(r)
    BY <1>3 DEF Launch, LaunchFails, Announce, AnnounceFails, ChildInv
  <1>4. CASE Poll(r) \/ Reap(r) \/ Continue(r) \/ Refresh(r) \/ Renew(r)
               \/ ContinueRaises(r)
    BY <1>4 DEF Poll, Reap, Continue, Refresh, Renew, ContinueRaises
  <1>5. CASE Stop(r) \/ LeaseLost(r)
    BY <1>5 DEF Stop, LeaseLost, TerminateTree, Kill
  <1>6. CASE ReaderFails(r) \/ Cleanup(r) \/ CleanupRaises(r)
    BY <1>6 DEF ReaderFails, Cleanup, CleanupRaises, Kill
  <1>7. CASE Settle(r) \/ Report(r) \/ Log(r) \/ Release(r)
    BY <1>7 DEF Settle, Report, Log, AppendEvent, Release
  <1> QED
    BY <1>1, <1>2, <1>3, <1>4, <1>5, <1>6, <1>7 DEF Step

(* Such a step is one of Supervision. *)
LEMMA MovesAreSupervised ==
  ASSUME TypeOK, TypeOK', NEW r \in alive, alive' = alive, Moves(r),
         \A s \in Run \ {r} : pc'[s] = pc[s] /\ child'[s] = child[s]
  PROVE  [Supervised!Next]_(Supervised!vars)
  <1> DEFINE over == IF pc'[r] \in Past THEN "over" ELSE "working"
             state == IF child'[r] \in {"none", "running"} THEN child'[r] ELSE "ended"
  <1>1. r \in Run /\ RunnerOf[r] = (IF pc[r] \in Past THEN "over" ELSE "working")
    BY DEF TypeOK, RunnerOf
  <1>2. CommandOf[r] = IF child[r] \in {"none", "running"} THEN child[r] ELSE "ended"
    BY <1>1 DEF CommandOf
  <1>3. RunnerOf' = [RunnerOf EXCEPT ![r] = over]
    BY <1>1 DEF RunnerOf
  <1>4. CommandOf' = [CommandOf EXCEPT ![r] = state]
    BY <1>1 DEF CommandOf
  <1>5. CASE Stays(r) /\ child'[r] = child[r] /\ RaisesOrNot(r)
    <2>1. RunnerOf' = RunnerOf /\ CommandOf' = CommandOf /\ RunnerOf[r] # "dead"
      BY <1>1, <1>2, <1>3, <1>4, <1>5 DEF Stays, RunnerOf, CommandOf
    <2>2. raised' = raised \/ Supervised!Raise(r)
      BY <1>5, <2>1 DEF RaisesOrNot, Supervised!Raise, RunnerOf, CommandOf
    <2> QED
      BY <1>1, <2>1, <2>2 DEF Supervised!vars, Supervised!Next, RunnerOf, CommandOf
  <1>6. CASE Stays(r) /\ child[r] = "running" /\ child'[r] = "killed" /\ raised' = raised
    <2>1. RunnerOf' = RunnerOf /\ CommandOf[r] = "running"
          /\ CommandOf' = [CommandOf EXCEPT ![r] = "ended"]
      BY <1>1, <1>2, <1>3, <1>4, <1>6 DEF Stays, RunnerOf, CommandOf
    <2>2. Supervised!End(r)
      BY <1>6, <2>1 DEF Supervised!End, Supervised!Ended, RunnerOf, CommandOf
    <2> QED
      BY <1>1, <2>2 DEF Supervised!Next
  <1>7. CASE /\ Stays(r) /\ pc[r] \notin Past
             /\ child[r] = "none" /\ child'[r] = "running" /\ raised' = raised
    <2>1. /\ RunnerOf' = RunnerOf /\ RunnerOf[r] = "working" /\ CommandOf[r] = "none"
          /\ CommandOf' = [CommandOf EXCEPT ![r] = "running"]
      BY <1>1, <1>2, <1>3, <1>4, <1>7 DEF Stays, RunnerOf, CommandOf
    <2>2. Supervised!Start(r)
      BY <1>7, <2>1 DEF Supervised!Start, RunnerOf, CommandOf
    <2> QED
      BY <1>1, <2>2 DEF Supervised!Next
  <1>8. CASE /\ pc[r] \notin Past /\ pc'[r] \in Past /\ RaisesOrNot(r)
             /\ child'[r] \in {child[r], IF child[r] = "running" THEN "killed" ELSE child[r]}
             /\ child'[r] = "running" => r \in raised'
    <2>1. RunnerOf[r] = "working" /\ RunnerOf' = [RunnerOf EXCEPT ![r] = "over"]
      BY <1>1, <1>3, <1>8
    <2>2. CommandOf' \in
            {CommandOf, [CommandOf EXCEPT ![r] = IF @ = "running" THEN "ended" ELSE @]}
      BY <1>1, <1>2, <1>4, <1>8 DEF CommandOf
    <2>3. CommandOf'[r] = "running" => r \in raised'
      BY <1>1, <1>8 DEF CommandOf
    <2>4. Supervised!Finish(r)
      BY <1>8, <2>1, <2>2, <2>3
         DEF Supervised!Finish, Supervised!Become, Supervised!Ended, RaisesOrNot, RunnerOf,
             CommandOf
    <2> QED
      BY <1>1, <2>4 DEF Supervised!Next
  <1> QED
    BY <1>5, <1>6, <1>7, <1>8 DEF Moves

(* The rest is death, which takes a contained child along, and the child's exit. *)
LEMMA DeathIsSupervised ==
  ASSUME TypeOK, NEW r \in Run, Die(r) PROVE Supervised!Next
  <1>1. r \in alive /\ alive' = alive \ {r} /\ pc' = pc /\ raised' = raised
    BY DEF Die, files
  <1>2. \A s \in Run : /\ s # r \/ ~Contained => child'[s] = child[s]
                       /\ child'[s] = "none" <=> child[s] = "none"
    BY DEF Die, Kill, TypeOK
  <1>3. RunnerOf[r] # "dead" /\ RunnerOf' = [RunnerOf EXCEPT ![r] = "dead"]
    BY <1>1 DEF RunnerOf
  <1>4. ~Contained => CommandOf' = CommandOf
    BY <1>1, <1>2 DEF CommandOf
  <1>5. Contained => CommandOf' = [CommandOf EXCEPT ![r] = IF @ = "running" THEN "ended" ELSE @]
    BY <1>1, <1>2 DEF CommandOf
  <1>6. Supervised!Die(r)
    BY <1>1, <1>3, <1>4, <1>5
       DEF Supervised!Die, Supervised!Become, Supervised!Ended, RunnerOf, CommandOf
  <1> QED
    BY <1>6 DEF Supervised!Next

LEMMA ExitIsSupervised ==
  ASSUME TypeOK, NEW r \in Run, ChildExits(r)
  PROVE  [Supervised!Next]_(Supervised!vars)
  <1>1. /\ child[r] = "running" /\ alive' = alive /\ pc' = pc /\ raised' = raised
        /\ child'[r] \in {"ok", "bad"} /\ \A s \in Run \ {r} : child'[s] = child[s]
    BY DEF ChildExits, TypeOK
  <1>2. RunnerOf' = RunnerOf
    BY <1>1 DEF RunnerOf
  <1>3. CommandOf' = [CommandOf EXCEPT ![r] = "ended"]
    BY <1>1 DEF CommandOf
  <1>4. CASE CommandOf[r] = "running"
    <2>1. Supervised!End(r)
      BY <1>1, <1>2, <1>3, <1>4 DEF Supervised!End, Supervised!Ended, RunnerOf, CommandOf
    <2> QED
      BY <2>1 DEF Supervised!Next
  <1>5. CASE CommandOf[r] # "running"
    <2>1. CommandOf' = CommandOf
      BY <1>1, <1>3, <1>5 DEF CommandOf
    <2> QED
      BY <1>1, <1>2, <2>1 DEF Supervised!vars, RunnerOf, CommandOf
  <1> QED
    BY <1>4, <1>5

(* Whatever raises, dies or loses its lease, a run supervises its command as
   Supervision says: the command runs once, and runs on past the cleanup only if
   the run has raised. *)
THEOREM SupervisionTheorem == Spec => ImplementsSupervision
  <1>1. Init => Supervised!Init
    BY FaultAssumption DEF Init, Supervised!Init, RunnerOf, CommandOf, Past, Closing
  <1>2. RunInv /\ RunInv' /\ [Next]_vars => [Supervised!Next]_(Supervised!vars)
    <2> SUFFICES ASSUME RunInv, RunInv', [Next]_vars
                 PROVE  [Supervised!Next]_(Supervised!vars)
      OBVIOUS
    <2>1. TypeOK /\ TypeOK'
      BY DEF RunInv
    <2>2. ASSUME NEW r \in Run, Step(r) PROVE [Supervised!Next]_(Supervised!vars)
      BY <2>1, <2>2, StepMoves, StepIsOwn, MovesAreSupervised
    <2>3. ASSUME NEW r \in Run, Acquire(r) \/ Refused(r) \/ AcquireRaises(r)
          PROVE  [Supervised!Next]_(Supervised!vars)
      <3>1. \A s \in Run \ {r} : pc'[s] = pc[s] /\ child'[s] = child[s]
        BY <2>1, <2>3 DEF Acquire, Refused, AcquireRaises, Goto, TypeOK
      <3> QED
        BY <2>1, <2>3, <3>1, StepMoves, MovesAreSupervised
    <2>4. ASSUME NEW r \in Run, Die(r) \/ ChildExits(r)
          PROVE  [Supervised!Next]_(Supervised!vars)
      BY <2>1, <2>4, DeathIsSupervised, ExitIsSupervised
    <2>5. ASSUME (\E r \in Run : Evict(r) \/ Due(r)) \/ UNCHANGED vars
          PROVE  UNCHANGED Supervised!vars
      BY <2>5 DEF Evict, Due, files, vars, Supervised!vars, RunnerOf, CommandOf
    <2> QED
      BY <2>2, <2>3, <2>4, <2>5 DEF Next
  <1>3. Spec => Supervised!Init /\ [][Supervised!Next]_(Supervised!vars)
    BY <1>1, <1>2, RunInvariant, PTL DEF Spec
  <1> QED
    BY <1>3 DEF ImplementsSupervision, Supervised!Spec

=============================================================================
