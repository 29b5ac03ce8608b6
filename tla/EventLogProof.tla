--------------------------- MODULE EventLogProof ---------------------------
(***************************************************************************)
(* What holds of EventLog.tla for every number of writers: its types, the  *)
(* exclusion of appends while no lock file grows old, and one line for     *)
(* every append that returned.                                             *)
(***************************************************************************)
EXTENDS EventLog, SequenceTheorems, TLAPS

(* The invariant of a world in which no lock file grows old. *)
Quiet == TypeOK /\ SectionInv

(* The log is empty, and nobody has the lock. *)
LEMMA InitKeeps == Init => Quiet
  <1> SUFFICES ASSUME Init PROVE Quiet
    OBVIOUS
  <1>1. log \in Seq([by : Writer, whole : BOOLEAN])
    BY DEF Init
  <1>2. TypeOK
    BY <1>1, WorldAssumption DEF Init, TypeOK, Labels
  <1>3. SectionInv
    BY WriterAssumption DEF Init, SectionInv, Section
  <1> QED
    BY <1>2, <1>3 DEF Quiet

(* A lock file that can be created is created by nobody else. *)
LEMMA TakeKeeps ==
  ASSUME NEW w \in Writer, Quiet, Take(w) PROVE Quiet'
  <1>1. TypeOK'
    BY DEF Quiet, TypeOK, Take, Goto, Labels, Section
  <1>2. SectionInv'
    BY WriterAssumption DEF Quiet, TypeOK, SectionInv, Take, Goto, Section
  <1> QED
    BY <1>1, <1>2 DEF Quiet

(* A call that waits or gives up is outside. *)
LEMMA BusyKeeps ==
  ASSUME NEW w \in Writer, Quiet, Busy(w) PROVE Quiet'
  <1>1. TypeOK'
    BY DEF Quiet, TypeOK, Busy, At, Goto, Raise, Labels
  <1>2. SectionInv'
    BY DEF Quiet, TypeOK, SectionInv, Busy, At, Goto, Section
  <1> QED
    BY <1>1, <1>2 DEF Quiet

(* The lock is never old, so nobody goes on to remove it. *)
LEMMA StatKeeps ==
  ASSUME NEW w \in Writer, Quiet, Stat(w) PROVE Quiet'
  <1>1. TypeOK'
    BY DEF Quiet, TypeOK, Stat, Goto, Labels
  <1>2. SectionInv'
    BY DEF Quiet, SectionInv, Stat, At, Goto, Section
  <1> QED
    BY <1>1, <1>2 DEF Quiet

(* Nobody is there. *)
LEMMA StealKeeps ==
  ASSUME NEW w \in Writer, Quiet, Steal(w) PROVE Quiet'
  <1>1. TypeOK'
    BY DEF Quiet, TypeOK, Steal, Goto, Labels
  <1>2. SectionInv'
    BY DEF Quiet, SectionInv, Steal, At
  <1> QED
    BY <1>1, <1>2 DEF Quiet

(* The creator of the lock file opens the log. *)
LEMMA OpenKeeps ==
  ASSUME NEW w \in Writer, Quiet, Open(w) PROVE Quiet'
  <1>1. TypeOK'
    BY DEF Quiet, TypeOK, Open, Goto, Raise, Labels, Section
  <1>2. SectionInv'
    BY DEF Quiet, TypeOK, SectionInv, Open, At, Goto, Section
  <1> QED
    BY <1>1, <1>2 DEF Quiet

(* No other process moves the end of the log afterwards. *)
LEMMA SeekKeeps ==
  ASSUME NEW w \in Writer, Quiet, Seek(w) PROVE Quiet'
  <1>1. TypeOK'
    BY DEF Quiet, TypeOK, Seek, Goto, Labels, Section
  <1>2. SectionInv'
    BY DEF Quiet, TypeOK, SectionInv, Seek, At, Goto, Section
  <1> QED
    BY <1>1, <1>2 DEF Quiet

(* The chunks of the log are those of writers. *)
LEMMA ChunksOfLog ==
  ASSUME TypeOK
  PROVE  \A i \in 1..Len(log) : log[i] \in [by : Writer, whole : BOOLEAN]
  BY ElementOfSeq DEF TypeOK

(* A write that goes to the end of the log adds one chunk, or nothing; a writer
   that has torn its record, or put none, raises. *)
LEMMA WriteEffect ==
  ASSUME NEW w \in Writer, TypeOK, Write(w), Offset(w) = Len(log)
  PROVE  \/ \E whole \in BOOLEAN :
              /\ log' = Append(log, [by |-> w, whole |-> whole])
              /\ whole \/ w \in erring'
              /\ pc'[w] = "sync" \/ w \notin erring' => whole
         \/ log' = log /\ pc'[w] = "unlock" /\ w \in erring'
  <1>1. ASSUME NEW chunk, Put(w, chunk) PROVE log' = Append(log, chunk)
    BY <1>1 DEF Put
  <1> QED
    BY <1>1 DEF Write, TypeOK, Goto, Raise

(* Then the log stays a sequence of chunks. *)
LEMMA WriteTypes ==
  ASSUME NEW w \in Writer, TypeOK, Write(w), Offset(w) = Len(log)
  PROVE  TypeOK'
  <1> DEFINE Chunk == [by : Writer, whole : BOOLEAN]
  <1>1. log' \in Seq(Chunk)
    <2>1. log \in Seq(Chunk)
      BY DEF TypeOK
    <2>2. ASSUME NEW whole \in BOOLEAN, log' = Append(log, [by |-> w, whole |-> whole])
          PROVE  log' \in Seq(Chunk)
      <3>1. [by |-> w, whole |-> whole] \in Chunk
        OBVIOUS
      <3> HIDE DEF Chunk
      <3> QED
        BY <2>1, <2>2, <3>1
    <2> QED
      BY <2>1, <2>2, WriteEffect
  <1> QED
    BY <1>1 DEF TypeOK, Write, Goto, Raise, Labels, Section

(* The record is put at the end: what Seek found still holds. *)
LEMMA WriteKeeps ==
  ASSUME NEW w \in Writer, Quiet, Write(w) PROVE Quiet'
  <1>1. Offset(w) = Len(log)
    BY DEF Quiet, SectionInv, Write, At, Offset
  <1>2. TypeOK'
    BY <1>1, WriteTypes DEF Quiet
  <1>3. SectionInv'
    BY DEF Quiet, TypeOK, SectionInv, Write, At, Goto, Section
  <1> QED
    BY <1>2, <1>3 DEF Quiet

(* fsync changes no record. *)
LEMMA SyncKeeps ==
  ASSUME NEW w \in Writer, Quiet, Sync(w) PROVE Quiet'
  <1>1. TypeOK'
    BY DEF Quiet, TypeOK, Sync, Goto, Raise, Labels, Section
  <1>2. SectionInv'
    BY DEF Quiet, SectionInv, Sync, At, Goto, Section
  <1> QED
    BY <1>1, <1>2 DEF Quiet

(* The lock file that goes is the writer's own. *)
LEMMA UnlockKeeps ==
  ASSUME NEW w \in Writer, Quiet, Unlock(w) PROVE Quiet'
  <1>1. TypeOK'
    BY DEF Quiet, TypeOK, Unlock, Goto, Labels
  <1>2. SectionInv'
    BY WriterAssumption
       DEF Quiet, TypeOK, SectionInv, Unlock, At, Goto, Section
  <1> QED
    BY <1>1, <1>2 DEF Quiet

(* A call that fails outside has no lock file to leave. *)
LEMMA WaitFailsKeeps ==
  ASSUME NEW w \in Writer, Quiet, WaitFails(w) PROVE Quiet'
  <1>1. TypeOK'
    BY DEF Quiet, TypeOK, WaitFails, Goto, Raise, Labels
  <1>2. SectionInv'
    BY DEF Quiet, SectionInv, WaitFails, At, Goto, Section
  <1> QED
    BY <1>1, <1>2 DEF Quiet

(* The deadline of a waiting call is its own affair. *)
LEMMA LateKeeps ==
  ASSUME NEW w \in Writer, Quiet, Late(w) PROVE Quiet'
  <1>1. TypeOK'
    BY DEF Quiet, TypeOK, Late
  <1>2. SectionInv'
    BY DEF Quiet, SectionInv, Late
  <1> QED
    BY <1>1, <1>2 DEF Quiet

(* The lock of a live, quick writer does not grow old. *)
LEMMA GrowOldKeeps ==
  ASSUME ~world.stale, Quiet, GrowOld PROVE Quiet'
  BY DEF Quiet, TypeOK, SectionInv, GrowOld, Section

(* The world stays as it is. *)
LEMMA WorldStays == ASSUME [Next]_vars PROVE world' = world
  BY DEF Next, Step, Take, Busy, Stat, Steal, Open, Seek, Write, Sync, Unlock,
         UnlockFails, WaitFails, Die, Late, GrowOld, vars

(* Every step of every writer keeps the invariant. *)
LEMMA NextKeeps ==
  ASSUME ~world.stale, Quiet, [Next]_vars PROVE Quiet'
  <1>1. ASSUME NEW w \in Writer, Step(w) \/ Die(w) \/ Late(w) PROVE Quiet'
    BY <1>1, TakeKeeps, BusyKeeps, StatKeeps, StealKeeps, OpenKeeps, SeekKeeps,
       WriteKeeps, SyncKeeps, UnlockKeeps, WaitFailsKeeps, LateKeeps
       DEF Step, UnlockFails, Die
  <1>2. CASE GrowOld
    BY <1>2, GrowOldKeeps
  <1>3. CASE UNCHANGED vars
    BY <1>3 DEF Quiet, TypeOK, SectionInv, vars
  <1> QED
    BY <1>1, <1>2, <1>3 DEF Next

(* A write puts a chunk at the end of the log, or over one that is there. *)
LEMMA PutTypes ==
  ASSUME NEW w \in Writer, TypeOK, NEW whole \in BOOLEAN, Put(w, [by |-> w, whole |-> whole])
  PROVE  log' \in Seq([by : Writer, whole : BOOLEAN])
  <1> DEFINE Chunk == [by : Writer, whole : BOOLEAN]
             chunk == [by |-> w, whole |-> whole]
  <1>1. log \in Seq(Chunk) /\ chunk \in Chunk /\ Offset(w) \in Nat
    BY DEF TypeOK, Offset
  <1>2. log' = IF Offset(w) < Len(log) THEN [log EXCEPT ![Offset(w) + 1] = chunk]
                                       ELSE Append(log, chunk)
    BY DEF Put
  <1> HIDE DEF Chunk, chunk
  <1>3. Append(log, chunk) \in Seq(Chunk)
    BY <1>1
  <1>4. CASE Offset(w) < Len(log)
    <2>1. Offset(w) + 1 \in 1..Len(log)
      BY <1>1, <1>4
    <2>2. [log EXCEPT ![Offset(w) + 1] = chunk] \in Seq(Chunk)
      BY <1>1, <2>1, ExceptSeq
    <2> QED
      BY <1>2, <1>4, <2>2 DEF Chunk
  <1> QED
    BY <1>2, <1>3, <1>4 DEF Chunk

(* Every step keeps the types. *)
LEMMA TypeKeeps == ASSUME TypeOK, [Next]_vars PROVE TypeOK'
  <1>1. ASSUME NEW w \in Writer, Write(w) PROVE TypeOK'
    <2>1. log' \in Seq([by : Writer, whole : BOOLEAN])
      BY <1>1, PutTypes DEF Write, TypeOK
    <2> QED
      BY <1>1, <2>1 DEF TypeOK, Write, Goto, Raise, Labels, Section
  <1>2. ASSUME NEW w \in Writer, ~Write(w), Step(w) \/ Die(w) \/ Late(w) PROVE TypeOK'
    <2>1. pc' \in [Writer -> Labels]
      BY <1>2
         DEF TypeOK, Step, Take, Busy, Stat, Steal, Open, Seek, Sync, Unlock,
             UnlockFails, WaitFails, Die, Late, Goto, Labels, Section
    <2>2. end' \in [Writer -> Nat]
      BY <1>2
         DEF TypeOK, Step, Take, Busy, Stat, Steal, Open, Seek, Sync, Unlock,
             UnlockFails, WaitFails, Die, Late
    <2> QED
      BY <1>2, <2>1, <2>2
         DEF TypeOK, Step, Take, Busy, Stat, Steal, Open, Seek, Sync, Unlock,
             UnlockFails, WaitFails, Die, Late, Raise
  <1>3. CASE GrowOld \/ UNCHANGED vars
    BY <1>3 DEF TypeOK, GrowOld, vars
  <1> QED
    BY <1>1, <1>2, <1>3 DEF Next

(* The inductive invariant of append_jsonl. *)
THEOREM SerialInvariant == Spec => []SerialInv
  <1>1. Init => SerialInv
    BY InitKeeps DEF SerialInv, Quiet
  <1>2. SerialInv /\ [Next]_vars => SerialInv'
    BY NextKeeps, TypeKeeps, WorldStays DEF SerialInv, Quiet
  <1> QED
    BY <1>1, <1>2, PTL DEF Spec

(* While no lock grows old, two processes are never in the section together. *)
THEOREM SerializedTheorem == Spec => []Serialized
  <1>1. SerialInv => Serialized
    BY DEF SerialInv, SectionInv, Serialized
  <1> QED
    BY <1>1, SerialInvariant, PTL

-----------------------------------------------------------------------------
(* What an append leaves behind: one whole chunk for each writer that is past
   its write without an exception, none for one that is before it, and of the
   others at most one, torn only if the writer raises. *)
LineInv ==
  /\ \A i \in 1..Len(log) :
       /\ pc[log[i].by] \in {"sync", "unlock", "done"}
       /\ log[i].whole \/ log[i].by \in erring
  /\ \A i, j \in 1..Len(log) : log[i].by = log[j].by => i = j
  /\ \A w \in Writer :
       pc[w] = "sync" \/ (pc[w] \in {"unlock", "done"} /\ w \notin erring)
         => \E i \in 1..Len(log) : log[i].by = w /\ log[i].whole

(* A write to the end of the log adds the one chunk of its writer. *)
LEMMA WriteKeepsLines ==
  ASSUME NEW w \in Writer, TypeOK, LineInv, Write(w), Offset(w) = Len(log)
  PROVE  LineInv'
  <1>1. \A i \in 1..Len(log) : log[i].by # w /\ log[i].by \in Writer
    BY ChunksOfLog DEF LineInv, Write, At
  <1>2. pc'[w] \in {"sync", "unlock"} /\ \A v \in Writer \ {w} : pc'[v] = pc[v]
    BY DEF Write, TypeOK, Goto
  <1>3. erring \subseteq erring' /\ \A v \in Writer \ {w} : v \in erring' <=> v \in erring
    BY DEF Write, Raise
  <1>4. ASSUME NEW whole \in BOOLEAN, log' = Append(log, [by |-> w, whole |-> whole]),
               whole \/ w \in erring', pc'[w] = "sync" \/ w \notin erring' => whole
        PROVE  LineInv'
    <2>1. Len(log') = Len(log) + 1 /\ log'[Len(log) + 1] = [by |-> w, whole |-> whole]
      BY <1>4 DEF TypeOK
    <2>2. \A i \in 1..Len(log) : log'[i] = log[i]
      BY <1>4 DEF TypeOK
    <2>3. \A i \in 1..Len(log') :
            /\ pc'[log'[i].by] \in {"sync", "unlock", "done"}
            /\ log'[i].whole \/ log'[i].by \in erring'
      BY <1>1, <1>2, <1>3, <1>4, <2>1, <2>2 DEF LineInv
    <2>4. \A i, j \in 1..Len(log') : log'[i].by = log'[j].by => i = j
      BY <1>1, <2>1, <2>2 DEF LineInv
    <2>5. ASSUME NEW v \in Writer,
                 pc'[v] = "sync" \/ (pc'[v] \in {"unlock", "done"} /\ v \notin erring')
          PROVE  \E i \in 1..Len(log') : log'[i].by = v /\ log'[i].whole
      <3>1. CASE v = w
        BY <1>4, <2>1, <2>5, <3>1
      <3>2. CASE v # w
        <4>1. PICK i \in 1..Len(log) : log[i].by = v /\ log[i].whole
          BY <1>2, <1>3, <2>5, <3>2 DEF LineInv
        <4> QED
          BY <4>1, <2>1, <2>2
      <3> QED
        BY <3>1, <3>2
    <2> QED
      BY <2>3, <2>4, <2>5 DEF LineInv
  <1>5. ASSUME log' = log, pc'[w] = "unlock", w \in erring' PROVE LineInv'
    BY <1>1, <1>2, <1>3, <1>5 DEF LineInv, Write, At
  <1> QED
    BY <1>4, <1>5, WriteEffect

(* Every other step leaves the log, and a writer that has written goes on. *)
LEMMA OthersKeepLines ==
  ASSUME TypeOK, LineInv, [Next]_vars, \A w \in Writer : ~Write(w)
  PROVE  TypeOK' /\ LineInv'
  <1>1. ASSUME NEW w \in Writer, Step(w) \/ Die(w) \/ Late(w)
        PROVE  TypeOK' /\ LineInv'
    <2>1. TypeOK'
      BY <1>1, TypeKeeps DEF Next
    <2>2. log' = log /\ erring \subseteq erring'
      BY <1>1
         DEF Step, Take, Busy, Stat, Steal, Open, Seek, Sync, Unlock,
             UnlockFails, WaitFails, Die, Late, Raise
    <2>3. \A v \in Writer : pc'[v] \in {"sync", "unlock", "done"} =>
            pc'[v] = pc[v] \/ pc[v] \in {"sync", "unlock"} \/ v \in erring'
      BY <1>1
         DEF TypeOK, Step, Take, Busy, Stat, Steal, Open, Seek, Sync, Unlock,
             UnlockFails, WaitFails, Die, Late, At, Goto, Raise
    <2>4. \A v \in Writer : pc[v] \in {"sync", "unlock", "done"} =>
            pc'[v] \in {"sync", "unlock", "done"}
      BY <1>1
         DEF TypeOK, Step, Take, Busy, Stat, Steal, Open, Seek, Sync, Unlock,
             UnlockFails, WaitFails, Die, Late, At, Goto
    <2>5. \A v \in Writer : pc'[v] = "sync" => pc[v] = "sync"
      BY <1>1
         DEF TypeOK, Step, Take, Busy, Stat, Steal, Open, Seek, Sync, Unlock,
             UnlockFails, WaitFails, Die, Late, Goto
    <2>6. \A i \in 1..Len(log) : log[i].by \in Writer
      BY ChunksOfLog
    <2>7. \A i \in 1..Len(log') :
            /\ pc'[log'[i].by] \in {"sync", "unlock", "done"}
            /\ log'[i].whole \/ log'[i].by \in erring'
      BY <2>2, <2>4, <2>6 DEF LineInv
    <2>8. \A i, j \in 1..Len(log') : log'[i].by = log'[j].by => i = j
      BY <2>2 DEF LineInv
    <2>9. \A v \in Writer :
            pc'[v] = "sync" \/ (pc'[v] \in {"unlock", "done"} /\ v \notin erring')
              => \E i \in 1..Len(log') : log'[i].by = v /\ log'[i].whole
      <3> SUFFICES ASSUME NEW v \in Writer,
                          pc'[v] = "sync" \/ (pc'[v] \in {"unlock", "done"} /\ v \notin erring')
                   PROVE  \E i \in 1..Len(log') : log'[i].by = v /\ log'[i].whole
        OBVIOUS
      <3>1. pc[v] = "sync" \/ (pc[v] \in {"unlock", "done"} /\ v \notin erring)
        BY <2>2, <2>3, <2>5
      <3>2. \E i \in 1..Len(log) : log[i].by = v /\ log[i].whole
        BY <3>1 DEF LineInv
      <3> QED
        BY <3>2, <2>2
    <2>10. LineInv'
      BY <2>7, <2>8, <2>9, Zenon DEF LineInv
    <2> QED
      BY <2>1, <2>10
  <1>2. CASE GrowOld \/ UNCHANGED vars
    <2>1. TypeOK'
      BY TypeKeeps
    <2>2. log' = log /\ pc' = pc /\ erring' = erring
      BY <1>2 DEF GrowOld, vars
    <2>3. LineInv'
      BY <2>2 DEF LineInv
    <2> QED
      BY <2>1, <2>3
  <1> QED
    BY <1>1, <1>2 DEF Next

(* One whole record for each append that returned, spoilt only by one that
   raised: with POSIX O_APPEND through every crash, stall, short write and stolen
   lock, and with a seek before the write as long as no lock is stale. *)
THEOREM AcknowledgedTheorem == Spec => []AcknowledgedIsOneLine
  <1> DEFINE Sound == world.oappend \/ ~world.stale
             Inv == SerialInv /\ (Sound => LineInv)
  <1>1. Init => Inv
    <2>1. Init => LineInv
      BY DEF Init, LineInv
    <2> QED
      BY <2>1, InitKeeps DEF Quiet, SerialInv
  <1>2. Inv /\ [Next]_vars => Inv'
    <2> SUFFICES ASSUME Inv, [Next]_vars PROVE Inv'
      OBVIOUS
    <2>1. SerialInv' /\ world' = world
      BY NextKeeps, TypeKeeps, WorldStays DEF SerialInv, Quiet
    <2> SUFFICES ASSUME Sound PROVE LineInv'
      BY <2>1
    <2>2. CASE \E w \in Writer : Write(w)
      <3>1. PICK w \in Writer : Write(w)
        BY <2>2
      <3>2. Offset(w) = Len(log)
        BY <3>1 DEF SerialInv, SectionInv, Write, At, Offset
      <3> QED
        BY <3>1, <3>2, WriteKeepsLines DEF SerialInv
    <2>3. CASE \A w \in Writer : ~Write(w)
      BY <2>3, OthersKeepLines DEF SerialInv
    <2> QED
      BY <2>2, <2>3
  <1>3. Inv => AcknowledgedIsOneLine
    <2> SUFFICES ASSUME Inv, Sound, NEW w \in Writer, Returned(w)
                 PROVE  \E i \in LinesOf(w) :
                          /\ LinesOf(w) = {i}
                          /\ i = 1 \/ log[i - 1].whole \/ log[i - 1].by \in erring
      BY DEF AcknowledgedIsOneLine
    <2>1. PICK i \in 1..Len(log) : log[i].by = w /\ log[i].whole
      BY DEF LineInv, Returned, At
    <2>2. \A j \in 1..Len(log) : log[j].by = w => j = i
      BY <2>1 DEF LineInv
    <2>3. log[i] = [by |-> w, whole |-> TRUE]
      BY <2>1, ChunksOfLog DEF SerialInv
    <2>4. LinesOf(w) = {i}
      BY <2>2, <2>3 DEF LinesOf
    <2>5. i = 1 \/ i - 1 \in 1..Len(log)
      BY DEF SerialInv, TypeOK
    <2> QED
      BY <2>4, <2>5 DEF LineInv
  <1> QED
    BY <1>1, <1>2, <1>3, PTL DEF Spec

=============================================================================
