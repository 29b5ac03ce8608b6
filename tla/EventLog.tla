------------------------------ MODULE EventLog ------------------------------
(***************************************************************************)
(* append_jsonl (runtime.py): many processes append one record each to     *)
(* events.jsonl, under a lock file that any of them may remove once it is  *)
(* 300 s old.  Unlike the lease, this lock has no owner, no liveness probe *)
(* and no guard.                                                           *)
(***************************************************************************)
EXTENDS Naturals, Sequences

CONSTANTS
  Writer,      \* calls of append_jsonl, each in a process of its own
  Worlds       \* the platforms and faults there are: see World

Nobody == "nobody"

(* stale: a lock may grow old, because a live process keeps it for 300 s or a
   call leaves it behind (its process ends, or the unlink raises);
   short: os.write may write less than it was given;
   oappend: O_APPEND moves to the end and writes in one step. *)
World == [stale : BOOLEAN, short : BOOLEAN, oappend : BOOLEAN]

ASSUME WriterAssumption == Nobody \notin Writer
ASSUME WorldAssumption == Worlds \subseteq World

VARIABLES
  world,     \* where the processes run
  lock,      \* who created the lock file that is there, or Nobody
  old,       \* whether that file is older than 300 s
  pc,        \* pc[w]: where w is in append_jsonl
  late,      \* writers whose 30 s are over
  erring,    \* writers with an exception on its way out
  end,       \* end[w]: the offset w moved to, in records
  log,       \* events.jsonl: [by: writer, whole: with its newline], in order
  alive

vars == <<world, lock, old, pc, late, erring, end, log, alive>>

-----------------------------------------------------------------------------
Section == {"open", "seek", "write", "sync", "unlock"}
Labels == {"try", "stat", "steal", "done"} \cup Section

Init ==
  /\ world \in Worlds
  /\ lock = Nobody /\ old = FALSE
  /\ pc = [w \in Writer |-> "try"]
  /\ late = {} /\ erring = {}
  /\ end = [w \in Writer |-> 0]
  /\ log = <<>>
  /\ alive = Writer

At(w, label) == w \in alive /\ pc[w] = label
Goto(w, label) == pc' = [pc EXCEPT ![w] = label]
Raise(w) == erring' = erring \cup {w}

(* Mutant: the lock file is opened without O_EXCL. *)
TakeShared(w) ==
  /\ At(w, "try")
  /\ lock' = w /\ old' = FALSE
  /\ Goto(w, "open")
  /\ UNCHANGED <<world, late, erring, end, log, alive>>

(* os.open(lock, O_CREAT | O_EXCL) succeeds. *)
Take(w) ==
  /\ At(w, "try") /\ lock = Nobody
  /\ lock' = w /\ old' = FALSE
  /\ Goto(w, "open")
  /\ UNCHANGED <<world, late, erring, end, log, alive>>

(* Mutant: the loop has no deadline. *)
BusyForever(w) ==
  /\ At(w, "try") /\ lock # Nobody
  /\ Goto(w, "stat")
  /\ UNCHANGED <<world, lock, old, late, erring, end, log, alive>>

(* The lock file exists: TimeoutError after 30 s, else a look at its age. *)
Busy(w) ==
  /\ At(w, "try") /\ lock # Nobody
  /\ IF w \in late THEN Goto(w, "done") /\ Raise(w)
                   ELSE Goto(w, "stat") /\ UNCHANGED erring
  /\ UNCHANGED <<world, lock, old, late, end, log, alive>>

(* Mutant: a lock file is stale at once. *)
StatIgnoresAge(w) ==
  /\ At(w, "stat")
  /\ Goto(w, IF lock # Nobody THEN "steal" ELSE "try")
  /\ UNCHANGED <<world, lock, old, late, erring, end, log, alive>>

(* The age decides on the unlink that follows; a lock that is gone or young
   leads to the next try. *)
Stat(w) ==
  /\ At(w, "stat")
  /\ Goto(w, IF lock # Nobody /\ old THEN "steal" ELSE "try")
  /\ UNCHANGED <<world, lock, old, late, erring, end, log, alive>>

(* lock.unlink: whatever lock file has that name by now. *)
Steal(w) ==
  /\ At(w, "steal") /\ Goto(w, "try")
  /\ lock' = Nobody /\ old' = FALSE
  /\ UNCHANGED <<world, late, erring, end, log, alive>>

Open(w) ==
  /\ At(w, "open")
  /\ \/ Goto(w, "seek") /\ UNCHANGED erring
     \/ Goto(w, "unlock") /\ Raise(w)
  /\ UNCHANGED <<world, lock, old, late, end, log, alive>>

(* os.write, O_APPEND: the offset of the write.  POSIX moves and writes in one
   step; the C runtime of Windows seeks to the end first. *)
Seek(w) ==
  /\ At(w, "seek") /\ Goto(w, "write")
  /\ end' = [end EXCEPT ![w] = Len(log)]
  /\ UNCHANGED <<world, lock, old, late, erring, log, alive>>

(* Mutant: the log is opened without O_APPEND. *)
OffsetOfSeek(w) == end[w]

Offset(w) == IF world.oappend THEN Len(log) ELSE end[w]
Put(w, chunk) ==
  log' = IF Offset(w) < Len(log) THEN [log EXCEPT ![Offset(w) + 1] = chunk]
                                 ELSE Append(log, chunk)

(* The record is written whole, or short: OSError("partial JSONL write"). *)
Write(w) ==
  /\ At(w, "write")
  /\ \/ Put(w, [by |-> w, whole |-> TRUE]) /\ Goto(w, "sync") /\ UNCHANGED erring
     \/ world.short /\ Put(w, [by |-> w, whole |-> FALSE]) /\ Goto(w, "unlock") /\ Raise(w)
     \/ Goto(w, "unlock") /\ Raise(w) /\ UNCHANGED log
  /\ UNCHANGED <<world, lock, old, late, end, alive>>

Sync(w) ==
  /\ At(w, "sync") /\ Goto(w, "unlock")
  /\ UNCHANGED erring \/ Raise(w)
  /\ UNCHANGED <<world, lock, old, late, end, log, alive>>

(* finally: lock.unlink, again whatever lock file is there. *)
Unlock(w) ==
  /\ At(w, "unlock") /\ Goto(w, "done")
  /\ lock' = Nobody /\ old' = FALSE
  /\ UNCHANGED <<world, late, erring, end, log, alive>>

(* The unlink raises (a PermissionError where the file is open elsewhere). *)
UnlockFails(w) ==
  /\ world.stale /\ At(w, "unlock") /\ Goto(w, "done") /\ Raise(w)
  /\ UNCHANGED <<world, lock, old, late, end, log, alive>>

(* Creating, reading or removing the lock file raises what is not caught. *)
WaitFails(w) ==
  /\ At(w, "try") \/ At(w, "stat") \/ At(w, "steal")
  /\ Goto(w, "done") /\ Raise(w)
  /\ UNCHANGED <<world, lock, old, late, end, log, alive>>

-----------------------------------------------------------------------------
(* The process ends inside the call. *)
Die(w) ==
  /\ world.stale /\ w \in alive /\ pc[w] # "done"
  /\ alive' = alive \ {w}
  /\ UNCHANGED <<world, lock, old, pc, late, erring, end, log>>

(* 300 s after its creation the lock file is old. *)
GrowOld ==
  /\ lock # Nobody /\ ~old
  /\ world.stale \/ lock \notin alive \/ pc[lock] = "done"
  /\ old' = TRUE
  /\ UNCHANGED <<world, lock, pc, late, erring, end, log, alive>>

(* The 30 s of a waiting call are over. *)
Late(w) ==
  /\ w \in alive \ late /\ pc[w] \in {"try", "stat", "steal"}
  /\ late' = late \cup {w}
  /\ UNCHANGED <<world, lock, old, pc, erring, end, log, alive>>

Step(w) ==
  \/ Take(w) \/ Busy(w) \/ Stat(w) \/ Steal(w) \/ Open(w) \/ Seek(w)
  \/ Write(w) \/ Sync(w) \/ Unlock(w) \/ UnlockFails(w) \/ WaitFails(w)

Next == (\E w \in Writer : Step(w) \/ Die(w) \/ Late(w)) \/ GrowOld

Spec == Init /\ [][Next]_vars

(* A call that is running goes on, and its 30 s pass. *)
FairSpec == Spec /\ \A w \in Writer : WF_vars(Step(w)) /\ WF_vars(Late(w))

-----------------------------------------------------------------------------
(* The values of the variables. *)
TypeOK ==
  /\ world \in World
  /\ lock \in Writer \cup {Nobody} /\ old \in BOOLEAN
  /\ pc \in [Writer -> Labels]
  /\ late \subseteq Writer /\ erring \subseteq Writer /\ alive \subseteq Writer
  /\ end \in [Writer -> Nat]
  /\ log \in Seq([by : Writer, whole : BOOLEAN])

(* Without a stale lock the section belongs to the creator of the lock file,
   and nobody is about to remove it. *)
SectionInv ==
  /\ alive = Writer /\ ~old
  /\ \A w \in Writer :
       /\ pc[w] \in Section <=> lock = w
       /\ pc[w] # "steal"
       /\ pc[w] = "write" => end[w] = Len(log)

SerialInv == TypeOK /\ (~world.stale => SectionInv)

(* While no lock grows old, appends are serialized: one process at a time is
   between the creation of the lock file and its removal. *)
Serialized ==
  ~world.stale => \A v, w \in alive : pc[v] \in Section /\ pc[w] \in Section => v = w

(* The record of a call that returned is in the log whole and exactly once, and
   a line of its own unless it follows the torn record of a call that raised:
   with POSIX O_APPEND through every crash, stall, short write and stolen lock,
   and elsewhere while no lock grows old. *)
Returned(w) == At(w, "done") /\ w \notin erring
LinesOf(w) == {i \in 1..Len(log) : log[i] = [by |-> w, whole |-> TRUE]}
AcknowledgedIsOneLine ==
  world.oappend \/ ~world.stale => \A w \in Writer : Returned(w) =>
    \E i \in LinesOf(w) :
      LinesOf(w) = {i} /\ (i = 1 \/ log[i - 1].whole \/ log[i - 1].by \in erring)

(* No call waits for ever for the lock. *)
AppendsReturn == \A w \in Writer : w \in alive ~> w \notin alive \/ pc[w] = "done"

=============================================================================
