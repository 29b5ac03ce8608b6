--------------------------- MODULE ProcessTreeProof ---------------------------
(***************************************************************************)
(* TreeInv of ProcessTree.tla is invariant for every number of descendants *)
(* and every size of the output, the limit and the pipe, and with it the   *)
(* safety properties of the runs.  One lemma for each conjunct; under it a *)
(* step for each group of actions.                                         *)
(***************************************************************************)
EXTENDS ProcessTree, TLAPS

(* The groups: what starts the command, what ends it, what closes, and what the
   thread and the processes do. *)
Starting == Spawn \/ CreateJob \/ Attach \/ Resume \/ Abort \/ Abandon
Ending == Supervise \/ Wait \/ Term \/ Grace \/ KillGroup \/ KillWait \/ Cleanup \/ Reap
EndingJob == TermJob \/ TaskKill \/ CloseJob
Passing == SpawnFails \/ Announce \/ Probe \/ Join \/ JoinAgain \/ Close \/ Compose
Reading == Reader \/ ReadFails
Living ==
  \E p \in Proc :
    \/ \E d \in Proc \ {Leader} : Fork(p, d)
    \/ Leave(p) \/ Emit(p) \/ Exit(p) \/ ExitSignalled(p)

LEMMA StepsAreGrouped ==
  ASSUME [Next]_vars
  PROVE  Starting \/ Ending \/ EndingJob \/ Passing \/ Reading \/ Living \/ RunnerDies
         \/ UNCHANGED vars
  BY DEF Next, Runner, Starting, Ending, EndingJob, Passing, Reading, Living

(* What a kill and a wait do to the processes. *)
LEMMA KilledFacts ==
  ASSUME TypeOK, NEW S
  PROVE  /\ Killed(S) \in [Proc -> ProcStates]
         /\ \A p \in Proc : Killed(S)[p] = IF p \in S /\ Exists(p) THEN "dying" ELSE proc[p]
  BY DEF TypeOK, Killed, ProcStates

LEMMA KilledAllFacts ==
  ASSUME TypeOK
  PROVE  /\ Killed(Proc) \in [Proc -> ProcStates]
         /\ \A p \in Proc : Killed(Proc)[p] = IF Exists(p) THEN "dying" ELSE proc[p]
  BY KilledFacts

LEMMA WaitedFacts ==
  ASSUME TypeOK
  PROVE  /\ Waited \in [Proc -> ProcStates]
         /\ \A p \in Proc \ {Leader} : Waited[p] = proc[p]
         /\ Waited[Leader] = IF proc[Leader] = "zombie" THEN "gone" ELSE proc[Leader]
  BY ProcAssumption DEF TypeOK, Waited, ProcStates

(* An empty group has nothing of the tree but what left it. *)
LEMMA EmptyGroupFacts ==
  ASSUME TypeOK, Group = {}
  PROVE  /\ proc[Leader] \in {"none", "suspended", "gone"}
         /\ \A p \in Proc : Runs(p) => p \in left
  <1>1. \A p \in Proc \ left : proc[p] \notin {"running", "ending", "dying", "zombie"}
    BY DEF Group
  <1>2. Leader \in Proc \ left /\ proc[Leader] \in ProcStates
    BY ProcAssumption DEF TypeOK
  <1> QED
    BY <1>1, <1>2 DEF ProcStates, Runs

(* What is captured of w - u chunks, c more of which are taken; what is handed
   over at the end. *)
LEMMA TakeFacts ==
  ASSUME NEW w \in Nat, NEW u \in Nat, NEW c \in Nat, NEW capacity \in Nat,
         u <= w, c <= u, c > 0
  PROVE  /\ Least(w - u, capacity) + Least(c, capacity - Least(w - u, capacity))
              = Least(w - (u - c), capacity)
         /\ w - u > capacity \/ c > capacity - Least(w - u, capacity)
              <=> w - (u - c) > capacity
  BY DEF Least

(* So the reader's counts stay those of what has left the pipe. *)
LEMMA TakeCounts ==
  ASSUME SizeAssumption, NEW chunk \in Nat, chunk > 0, chunk <= unread, Take(chunk),
         written \in Nat, unread \in Nat, unread <= written, truncated \in BOOLEAN,
         captured = Least(written - unread, Limit + Lookahead),
         truncated <=> written - unread > Limit + Lookahead
  PROVE  /\ captured' = Least(written - (unread - chunk), Limit + Lookahead)
         /\ truncated' <=> written - (unread - chunk) > Limit + Lookahead
  <1>1. Limit + Lookahead \in Nat
    BY DEF SizeAssumption
  <1>2. /\ captured' = captured + Least(chunk, (Limit + Lookahead) - captured)
        /\ truncated' = (truncated \/ chunk > (Limit + Lookahead) - captured)
    BY DEF Take
  <1>3. /\ Least(written - unread, Limit + Lookahead)
             + Least(chunk, (Limit + Lookahead) - Least(written - unread, Limit + Lookahead))
           = Least(written - (unread - chunk), Limit + Lookahead)
        /\ written - unread > Limit + Lookahead
             \/ chunk > (Limit + Lookahead) - Least(written - unread, Limit + Lookahead)
           <=> written - (unread - chunk) > Limit + Lookahead
    BY <1>1, TakeFacts
  <1> QED
    BY <1>2, <1>3

LEMMA FinishFacts ==
  ASSUME NEW w \in Nat, NEW limit \in Nat, NEW beyond \in Nat
  PROVE  /\ Least(Least(w, limit + beyond), limit) = Least(w, limit)
         /\ w > limit + beyond \/ Least(w, limit + beyond) > limit <=> w > limit
  BY DEF Least

-----------------------------------------------------------------------------
(* The values of the variables stay what they are. *)
LEMMA TypeKeeps ==
  ASSUME TreeInv, [Next]_vars PROVE TypeOK'
  <1> USE KilledFacts, WaitedFacts, ProcAssumption, SizeAssumption
      DEF TreeInv, TypeOK, ProcStates, JobStates,
       At, Goto, Call, Return, Escape, Group, HasJob, LeaderExited, Exists, Runs,
       system, control, pipe, drain
  <1>1. CASE Starting
    <2>1. CASE Spawn
      BY <2>1 DEF Spawn
    <2>2. CASE CreateJob
      BY <2>2 DEF CreateJob
    <2>3. CASE Attach
      BY <2>3 DEF Attach
    <2>4. CASE Resume
      BY <2>4 DEF Resume
    <2>5. CASE Abort
      BY <2>5 DEF Abort
    <2>6. CASE Abandon
      BY <2>6 DEF Abandon
    <2> QED
      BY <1>1, <2>1, <2>2, <2>3, <2>4, <2>5, <2>6 DEF Starting
  <1>2. CASE Ending
    <2>1. CASE Supervise
      BY <2>1 DEF Supervise
    <2>2. CASE Wait
      BY <2>2 DEF Wait
    <2>3. CASE Term
      BY <2>3 DEF Term
    <2>4. CASE Grace
      BY <2>4 DEF Grace
    <2>5. CASE KillGroup
      BY <2>5 DEF KillGroup
    <2>6. CASE KillWait
      BY <2>6 DEF KillWait
    <2>7. CASE Cleanup
      BY <2>7 DEF Cleanup
    <2>8. CASE Reap
      BY <2>8 DEF Reap
    <2> QED
      BY <1>2, <2>1, <2>2, <2>3, <2>4, <2>5, <2>6, <2>7, <2>8 DEF Ending
  <1>3. CASE EndingJob
    <2>1. CASE TermJob
      BY <2>1, KilledAllFacts DEF TermJob
    <2>2. CASE TaskKill
      BY <2>2, KilledAllFacts DEF TaskKill
    <2>3. CASE CloseJob
      BY <2>3, KilledAllFacts DEF CloseJob
    <2> QED
      BY <1>3, <2>1, <2>2, <2>3 DEF EndingJob
  <1>4. CASE Passing
    <2> HIDE KilledFacts, WaitedFacts
    <2>1. CASE SpawnFails \/ Announce \/ Probe
      BY <2>1 DEF SpawnFails, Announce, Probe
    <2>2. CASE Join \/ JoinAgain
      BY <2>2 DEF Join, JoinAgain
    <2>3. CASE Close \/ Compose
      BY <2>3 DEF Close, Compose
    <2> QED
      BY <1>4, <2>1, <2>2, <2>3 DEF Passing
  <1>5. CASE Reading
    <2>1. CASE Read
      BY <2>1 DEF Read
    <2>2. CASE Drain
      BY <2>2 DEF Drain, Take, Least
    <2>3. CASE EndOfFile
      BY <2>3 DEF EndOfFile, Finish, Least
    <2>4. CASE ReadOfClosed
      BY <2>4 DEF ReadOfClosed, Finish, Least
    <2>5. CASE ReadFails
      BY <2>5 DEF ReadFails, Finish, Least
    <2> QED
      BY <1>5, <2>1, <2>2, <2>3, <2>4, <2>5 DEF Reading, Reader
  <1>6. CASE Living
    BY <1>6 DEF Living, Fork, Leave, Emit, Exit, ExitSignalled, Vanish
  <1>7. CASE RunnerDies
    BY <1>7 DEF RunnerDies
  <1>8. CASE UNCHANGED vars
    BY <1>8 DEF vars
  <1> QED
    BY <1>1, <1>2, <1>3, <1>4, <1>5, <1>6, <1>7, <1>8, StepsAreGrouped

(* The place and the state of the job move together. *)
LEMMA StageKeeps ==
  ASSUME TreeInv, [Next]_vars PROVE StageInv'
  <1> USE KilledFacts, WaitedFacts, ProcAssumption, SizeAssumption
      DEF TreeInv, TypeOK, StageInv, Early,
       At, Goto, Call, Return, Escape, Group, HasJob, LeaderExited, Exists, Runs,
       system, control, pipe, drain
  <1>1. CASE Starting
    BY <1>1 DEF Starting, Spawn, CreateJob, Attach, Resume, Abort, Abandon
  <1>2. CASE Ending
    <2>1. CASE Supervise
      BY <2>1 DEF Supervise
    <2>2. CASE Wait
      BY <2>2 DEF Wait
    <2>3. CASE Term
      BY <2>3 DEF Term
    <2>4. CASE Grace
      BY <2>4 DEF Grace
    <2>5. CASE KillGroup
      BY <2>5 DEF KillGroup
    <2>6. CASE KillWait
      BY <2>6 DEF KillWait
    <2>7. CASE Cleanup
      BY <2>7 DEF Cleanup
    <2>8. CASE Reap
      BY <2>8 DEF Reap
    <2> QED
      BY <1>2, <2>1, <2>2, <2>3, <2>4, <2>5, <2>6, <2>7, <2>8 DEF Ending
  <1>3. CASE EndingJob
    BY <1>3 DEF EndingJob, TermJob, TaskKill, CloseJob
  <1>4. CASE Passing
    BY <1>4 DEF Passing, SpawnFails, Announce, Probe, Join, JoinAgain, Close,
       Compose
  <1>5. CASE Reading
    BY <1>5 DEF Reading, Read, Drain, EndOfFile, ReadOfClosed, ReadFails,
       Reader, Finish, Take, Least
  <1>6. CASE Living
    BY <1>6 DEF Living, Fork, Leave, Emit, Exit, ExitSignalled, Vanish
  <1>7. CASE RunnerDies
    BY <1>7 DEF RunnerDies
  <1>8. CASE UNCHANGED vars
    BY <1>8 DEF vars
  <1> QED
    BY <1>1, <1>2, <1>3, <1>4, <1>5, <1>6, <1>7, <1>8, StepsAreGrouped

(* Only Resume makes the command run, and it is in its job by then. *)
LEMMA JobKeeps ==
  ASSUME TreeInv, [Next]_vars PROVE RunsInJob'
  <1> USE KilledFacts, WaitedFacts, ProcAssumption, SizeAssumption
      DEF TreeInv, TypeOK, RunsInJob, Early, StageInv,
       At, Goto, Call, Return, Escape, Group, HasJob, LeaderExited, Exists, Runs,
       system, control, pipe, drain
  <1>1. CASE Starting
    BY <1>1 DEF Starting, Spawn, CreateJob, Attach, Resume, Abort, Abandon
  <1>2. CASE Ending
    <2>1. CASE Supervise
      BY <2>1 DEF Supervise
    <2>2. CASE Wait
      BY <2>2 DEF Wait
    <2>3. CASE Term
      BY <2>3 DEF Term
    <2>4. CASE Grace
      BY <2>4 DEF Grace
    <2>5. CASE KillGroup
      BY <2>5 DEF KillGroup
    <2>6. CASE KillWait
      BY <2>6 DEF KillWait
    <2>7. CASE Cleanup
      BY <2>7 DEF Cleanup
    <2>8. CASE Reap
      BY <2>8 DEF Reap
    <2> QED
      BY <1>2, <2>1, <2>2, <2>3, <2>4, <2>5, <2>6, <2>7, <2>8 DEF Ending
  <1>3. CASE EndingJob
    <2>1. CASE TermJob
      BY <2>1, KilledAllFacts DEF TermJob
    <2>2. CASE TaskKill
      BY <2>2, KilledAllFacts DEF TaskKill
    <2>3. CASE CloseJob
      BY <2>3, KilledAllFacts DEF CloseJob
    <2> QED
      BY <1>3, <2>1, <2>2, <2>3 DEF EndingJob
  <1>4. CASE Passing
    BY <1>4 DEF Passing, SpawnFails, Announce, Probe, Join, JoinAgain, Close,
       Compose
  <1>5. CASE Reading
    BY <1>5 DEF Reading, Read, Drain, EndOfFile, ReadOfClosed, ReadFails,
       Reader, Finish, Take, Least
  <1>6. CASE Living
    BY <1>6 DEF Living, Fork, Leave, Emit, Exit, ExitSignalled, Vanish
  <1>7. CASE RunnerDies
    BY <1>7 DEF RunnerDies
  <1>8. CASE UNCHANGED vars
    BY <1>8 DEF vars
  <1> QED
    BY <1>1, <1>2, <1>3, <1>4, <1>5, <1>6, <1>7, <1>8, StepsAreGrouped

(* Where _terminate_tree returns, nothing of the group is left to run. *)
LEMMA KilledKeeps ==
  ASSUME TreeInv, [Next]_vars PROVE TreeIsKilled'
  <1> USE KilledFacts, WaitedFacts, ProcAssumption, SizeAssumption
      DEF TreeInv, TypeOK, TreeIsKilled, TerminatedOnce, Ended, StageInv, RunsInJob,
       At, Goto, Call, Return, Escape, Group, HasJob, LeaderExited, Exists, Runs,
       system, control, pipe, drain
  <1>1. CASE Starting
    BY <1>1 DEF Starting, Spawn, CreateJob, Attach, Resume, Abort, Abandon
  <1>2. CASE Ending
    <2>1. CASE Supervise
      BY <2>1 DEF Supervise
    <2>2. CASE Wait
      BY <2>2 DEF Wait
    <2>3. CASE Term
      BY <2>3 DEF Term
    <2>4. CASE Grace
      BY <2>4 DEF Grace
    <2>5. CASE KillGroup
      BY <2>5 DEF KillGroup
    <2>6. CASE KillWait
      BY <2>6 DEF KillWait
    <2>7. CASE Cleanup
      BY <2>7 DEF Cleanup
    <2>8. CASE Reap
      BY <2>8 DEF Reap
    <2> QED
      BY <1>2, <2>1, <2>2, <2>3, <2>4, <2>5, <2>6, <2>7, <2>8 DEF Ending
  <1>3. CASE EndingJob
    <2>1. CASE TermJob
      BY <2>1, KilledAllFacts DEF TermJob
    <2>2. CASE TaskKill
      <3>1. CASE LeaderExited /\ Return /\ proc' = Waited
        BY <2>2, <3>1 DEF TaskKill
      <3>2. CASE ~LeaderExited /\ Return /\ proc' \in {proc, Killed(Proc)}
        BY <2>2, <3>2, KilledAllFacts DEF TaskKill
      <3>3. CASE ~LeaderExited /\ Escape(TRUE) /\ UNCHANGED proc
        BY <2>2, <3>3 DEF TaskKill
      <3> QED
        BY <2>2, <3>1, <3>2, <3>3 DEF TaskKill
    <2>3. CASE CloseJob
      BY <2>3, KilledAllFacts DEF CloseJob
    <2> QED
      BY <1>3, <2>1, <2>2, <2>3 DEF EndingJob
  <1>4. CASE Passing
    BY <1>4 DEF Passing, SpawnFails, Announce, Probe, Join, JoinAgain, Close,
       Compose
  <1>5. CASE Reading
    BY <1>5 DEF Reading, Read, Drain, EndOfFile, ReadOfClosed, ReadFails,
       Reader, Finish, Take, Least
  <1>6. CASE Living
    BY <1>6 DEF Living, Fork, Leave, Emit, Exit, ExitSignalled, Vanish
  <1>7. CASE RunnerDies
    BY <1>7 DEF RunnerDies
  <1>8. CASE UNCHANGED vars
    BY <1>8 DEF vars
  <1> QED
    BY <1>1, <1>2, <1>3, <1>4, <1>5, <1>6, <1>7, <1>8, StepsAreGrouped

(* A leader that is dead has been waited for where _terminate_tree returns. *)
LEMMA ReapedKeeps ==
  ASSUME TreeInv, [Next]_vars PROVE ChildIsReaped'
  <1> USE KilledFacts, WaitedFacts, ProcAssumption, SizeAssumption
      DEF TreeInv, TypeOK, ChildIsReaped, TerminatedOnce, Ended, StageInv,
       At, Goto, Call, Return, Escape, Group, HasJob, LeaderExited, Exists, Runs,
       system, control, pipe, drain
  <1>1. CASE Starting
    BY <1>1 DEF Starting, Spawn, CreateJob, Attach, Resume, Abort, Abandon
  <1>2. CASE Ending
    <2>1. CASE Supervise
      BY <2>1 DEF Supervise
    <2>2. CASE Wait
      BY <2>2 DEF Wait
    <2>3. CASE Term
      BY <2>3, EmptyGroupFacts DEF Term
    <2>4. CASE Grace
      BY <2>4 DEF Grace
    <2>5. CASE KillGroup
      BY <2>5, EmptyGroupFacts DEF KillGroup
    <2>6. CASE KillWait
      BY <2>6 DEF KillWait
    <2>7. CASE Cleanup
      BY <2>7 DEF Cleanup
    <2>8. CASE Reap
      BY <2>8 DEF Reap
    <2> QED
      BY <1>2, <2>1, <2>2, <2>3, <2>4, <2>5, <2>6, <2>7, <2>8 DEF Ending
  <1>3. CASE EndingJob
    BY <1>3 DEF EndingJob, TermJob, TaskKill, CloseJob
  <1>4. CASE Passing
    <2>1. CASE SpawnFails
      BY <2>1 DEF SpawnFails
    <2>2. CASE Announce
      BY <2>2 DEF Announce
    <2>3. CASE Probe
      BY <2>3, EmptyGroupFacts DEF Probe
    <2>4. CASE Join
      BY <2>4 DEF Join
    <2>5. CASE JoinAgain
      BY <2>5 DEF JoinAgain
    <2>6. CASE Close
      BY <2>6 DEF Close
    <2>7. CASE Compose
      BY <2>7 DEF Compose
    <2> QED
      BY <1>4, <2>1, <2>2, <2>3, <2>4, <2>5, <2>6, <2>7 DEF Passing
  <1>5. CASE Reading
    BY <1>5 DEF Reading, Read, Drain, EndOfFile, ReadOfClosed, ReadFails,
       Reader, Finish, Take, Least
  <1>6. CASE Living
    BY <1>6 DEF Living, Fork, Leave, Emit, Exit, ExitSignalled, Vanish
  <1>7. CASE RunnerDies
    BY <1>7 DEF RunnerDies
  <1>8. CASE UNCHANGED vars
    BY <1>8 DEF vars
  <1> QED
    BY <1>1, <1>2, <1>3, <1>4, <1>5, <1>6, <1>7, <1>8, StepsAreGrouped

(* The reader counts what it takes from the pipe. *)
LEMMA DrainKeeps ==
  ASSUME TreeInv, [Next]_vars PROVE DrainInv'
  <1> USE KilledFacts, WaitedFacts, ProcAssumption, SizeAssumption
      DEF TreeInv, TypeOK, DrainInv, StageInv, Early, Least,
       At, Goto, Call, Return, Escape, Group, HasJob, LeaderExited, Exists, Runs,
       system, control, pipe, drain
  <1>1. CASE Starting
    BY <1>1 DEF Starting, Spawn, CreateJob, Attach, Resume, Abort, Abandon
  <1>2. CASE Ending
    <2>1. CASE Supervise
      BY <2>1 DEF Supervise
    <2>2. CASE Wait
      BY <2>2 DEF Wait
    <2>3. CASE Term
      BY <2>3 DEF Term
    <2>4. CASE Grace
      BY <2>4 DEF Grace
    <2>5. CASE KillGroup
      BY <2>5 DEF KillGroup
    <2>6. CASE KillWait
      BY <2>6 DEF KillWait
    <2>7. CASE Cleanup
      BY <2>7 DEF Cleanup
    <2>8. CASE Reap
      BY <2>8 DEF Reap
    <2> QED
      BY <1>2, <2>1, <2>2, <2>3, <2>4, <2>5, <2>6, <2>7, <2>8 DEF Ending
  <1>3. CASE EndingJob
    <2>1. CASE TermJob
      BY <2>1, KilledAllFacts DEF TermJob
    <2>2. CASE TaskKill
      BY <2>2, KilledAllFacts DEF TaskKill
    <2>3. CASE CloseJob
      BY <2>3, KilledAllFacts DEF CloseJob
    <2> QED
      BY <1>3, <2>1, <2>2, <2>3 DEF EndingJob
  <1>4. CASE Passing
    <2>1. CASE SpawnFails
      BY <2>1 DEF SpawnFails
    <2>2. CASE Announce
      BY <2>2 DEF Announce
    <2>3. CASE Probe
      BY <2>3 DEF Probe
    <2>4. CASE Join
      BY <2>4 DEF Join
    <2>5. CASE JoinAgain
      BY <2>5 DEF JoinAgain
    <2>6. CASE Close
      BY <2>6 DEF Close
    <2>7. CASE Compose
      BY <2>7 DEF Compose
    <2> QED
      BY <1>4, <2>1, <2>2, <2>3, <2>4, <2>5, <2>6, <2>7 DEF Passing
  <1>5. CASE Reading
    <2>1. CASE Read
      BY <2>1 DEF Read
    <2>2. CASE Drain
      <3> HIDE DEF Least
      <3>1. PICK chunk \in 1..unread : Take(chunk) /\ unread' = unread - chunk
        BY <2>2 DEF Drain
      <3>2. /\ chunk \in Nat /\ unread \in Nat /\ written \in Nat
            /\ chunk > 0 /\ chunk <= unread /\ unread <= written
            /\ Limit + Lookahead \in Nat /\ truncated \in BOOLEAN
        BY <3>1
      <3>3. /\ captured = Least(written - unread, Limit + Lookahead)
            /\ truncated <=> written - unread > Limit + Lookahead
        BY <2>2 DEF Drain
      <3>4. captured' = Least(written - unread', Limit + Lookahead)
        BY <3>1, <3>2, <3>3, TakeCounts
      <3>5. truncated' <=> written - unread' > Limit + Lookahead
        BY <3>1, <3>2, <3>3, TakeCounts
      <3>6. unread' <= written
        BY <3>1, <3>2
      <3> QED
        BY <2>2, <3>4, <3>5, <3>6 DEF Drain
    <2>3. CASE EndOfFile
      <3> HIDE DEF Least
      <3>1. /\ captured = Least(written, Limit + Lookahead)
            /\ truncated <=> written > Limit + Lookahead
            /\ written \in Nat /\ truncated \in BOOLEAN
        BY <2>3 DEF EndOfFile
      <3>2. output' = Least(written, Limit) /\ (truncated' <=> written > Limit)
        BY <2>3, <3>1, FinishFacts DEF EndOfFile, Finish
      <3> QED
        BY <2>3, <3>2 DEF EndOfFile, Finish
    <2>4. CASE ReadOfClosed
      BY <2>4 DEF ReadOfClosed, Finish, Least
    <2>5. CASE ReadFails
      BY <2>5 DEF ReadFails, Finish, Least
    <2> QED
      BY <1>5, <2>1, <2>2, <2>3, <2>4, <2>5 DEF Reading, Reader
  <1>6. CASE Living
    BY <1>6 DEF Living, Fork, Leave, Emit, Exit, ExitSignalled, Vanish
  <1>7. CASE RunnerDies
    BY <1>7 DEF RunnerDies
  <1>8. CASE UNCHANGED vars
    BY <1>8 DEF vars
  <1> QED
    BY <1>1, <1>2, <1>3, <1>4, <1>5, <1>6, <1>7, <1>8, StepsAreGrouped

(* The record is composed once the reader is done. *)
LEMMA RecordKeeps ==
  ASSUME TreeInv, [Next]_vars PROVE RecordInv'
  <1> USE KilledFacts, WaitedFacts, ProcAssumption, SizeAssumption
      DEF TreeInv, TypeOK, RecordInv, StageInv, DrainInv, Early,
       At, Goto, Call, Return, Escape, Group, HasJob, LeaderExited, Exists, Runs,
       system, control, pipe, drain
  <1>1. CASE Starting
    BY <1>1 DEF Starting, Spawn, CreateJob, Attach, Resume, Abort, Abandon
  <1>2. CASE Ending
    BY <1>2 DEF Ending, Supervise, Wait, Term, Grace, KillGroup, KillWait,
       Cleanup, Reap
  <1>3. CASE EndingJob
    BY <1>3 DEF EndingJob, TermJob, TaskKill, CloseJob
  <1>4. CASE Passing
    BY <1>4 DEF Passing, SpawnFails, Announce, Probe, Join, JoinAgain, Close,
       Compose
  <1>5. CASE Reading
    BY <1>5 DEF Reading, Read, Drain, EndOfFile, ReadOfClosed, ReadFails,
       Reader, Finish, Take, Least
  <1>6. CASE Living
    BY <1>6 DEF Living, Fork, Leave, Emit, Exit, ExitSignalled, Vanish
  <1>7. CASE RunnerDies
    BY <1>7 DEF RunnerDies
  <1>8. CASE UNCHANGED vars
    BY <1>8 DEF vars
  <1> QED
    BY <1>1, <1>2, <1>3, <1>4, <1>5, <1>6, <1>7, <1>8, StepsAreGrouped

(* After a record that is no failure nothing is written any more. *)
LEMMA OutputKeeps ==
  ASSUME TreeInv, [Next]_vars PROVE OutputIsHonest'
  <1> USE KilledFacts, WaitedFacts, ProcAssumption, SizeAssumption
      DEF TreeInv, TypeOK, OutputIsHonest, StageInv, DrainInv, RecordInv, Early,
       At, Goto, Call, Return, Escape, Group, HasJob, LeaderExited, Exists, Runs,
       system, control, pipe, drain
  <1>1. CASE Starting
    BY <1>1 DEF Starting, Spawn, CreateJob, Attach, Resume, Abort, Abandon
  <1>2. CASE Ending
    BY <1>2 DEF Ending, Supervise, Wait, Term, Grace, KillGroup, KillWait,
       Cleanup, Reap
  <1>3. CASE EndingJob
    BY <1>3 DEF EndingJob, TermJob, TaskKill, CloseJob
  <1>4. CASE Passing
    BY <1>4 DEF Passing, SpawnFails, Announce, Probe, Join, JoinAgain, Close,
       Compose
  <1>5. CASE Reading
    BY <1>5 DEF Reading, Read, Drain, EndOfFile, ReadOfClosed, ReadFails,
       Reader, Finish, Take, Least
  <1>6. CASE Living
    BY <1>6 DEF Living, Fork, Leave, Emit, Exit, ExitSignalled, Vanish
  <1>7. CASE RunnerDies
    BY <1>7 DEF RunnerDies
  <1>8. CASE UNCHANGED vars
    BY <1>8 DEF vars
  <1> QED
    BY <1>1, <1>2, <1>3, <1>4, <1>5, <1>6, <1>7, <1>8, StepsAreGrouped

-----------------------------------------------------------------------------
LEMMA InitTree ==
  ASSUME Init PROVE TreeInv
  <1> USE ProcAssumption DEF Init
  <1>1. TypeOK
    <2>1. proc \in [Proc -> ProcStates]
      BY DEF ProcStates
    <2>2. {raised, closed, truncated, errors} \subseteq BOOLEAN
      OBVIOUS
    <2>3. {written, unread, captured, output} \subseteq Nat
      OBVIOUS
    <2> QED
      BY <2>1, <2>2, <2>3 DEF TypeOK, JobStates
  <1>2. StageInv /\ RunsInJob
    BY DEF StageInv, Early, RunsInJob, Runs
  <1>3. TreeIsKilled /\ ChildIsReaped
    BY DEF TreeIsKilled, ChildIsReaped, TerminatedOnce, Ended
  <1>4. DrainInv /\ RecordInv /\ OutputIsHonest
    BY DEF DrainInv, RecordInv, OutputIsHonest, NoRecord
  <1> QED
    BY <1>1, <1>2, <1>3, <1>4 DEF TreeInv

(* Place, processes, job, pipe and record of a launch agree, whatever raises,
   whoever outlives its signals and whenever the runner dies. *)
THEOREM TreeInvariant == Spec => []TreeInv
  <1>1. TreeInv /\ [Next]_vars => TreeInv'
    BY TypeKeeps, StageKeeps, JobKeeps, KilledKeeps, ReapedKeeps, DrainKeeps,
       RecordKeeps, OutputKeeps
       DEF TreeInv
  <1> QED
    BY <1>1, InitTree, PTL DEF Spec

(* Once the tree has been terminated only what left the group runs on, or what
   is in a job that refused. *)
THEOREM TreeIsKilledTheorem == Spec => []TreeIsKilled
  BY TreeInvariant, PTL DEF TreeInv

(* On POSIX no run that returned leaves a zombie. *)
THEOREM ChildIsReapedTheorem == Spec => []ChildIsReaped
  BY TreeInvariant, PTL DEF TreeInv

(* On Windows the command runs only inside a job that dies with the runner. *)
THEOREM RunsInJobTheorem == Spec => []RunsInJob
  BY TreeInvariant, PTL DEF TreeInv

(* A record that does not say FAILED holds what the tree wrote, up to the limit,
   and says truthfully whether that is all. *)
THEOREM OutputIsHonestTheorem == Spec => []OutputIsHonest
  BY TreeInvariant, PTL DEF TreeInv

-----------------------------------------------------------------------------
(* What a step of a launch may do to what Supervision sees of it. *)
Same == RunnerState' = RunnerState /\ CommandState' = CommandState
Starts ==
  /\ RunnerState = "working" /\ RunnerState' = RunnerState /\ raised' = raised
  /\ CommandState = "none" /\ CommandState' = "running"
Ends ==
  /\ RunnerState' = RunnerState /\ raised' = raised
  /\ CommandState = "running" /\ CommandState' = "ended"
Raises == Same /\ RunnerState # "dead" /\ raised'
Finishes ==
  /\ RunnerState = "working" /\ RunnerState' = "over"
  /\ raised => raised'
  /\ CommandState' \in {CommandState, IF CommandState = "running" THEN "ended" ELSE CommandState}
  /\ CommandState' = "running" => raised'
Dies ==
  /\ RunnerState # "dead" /\ RunnerState' = "dead" /\ raised' = raised
  /\ CommandState' = IF os = "nt" /\ CommandState = "running" THEN "ended" ELSE CommandState
Moves == (Same /\ raised' = raised) \/ Starts \/ Ends \/ Raises \/ Finishes \/ Dies

(* Such a step is one of Supervision, or none. *)
LEMMA MovesAreSupervised ==
  ASSUME TypeOK, TypeOK', os' = os, Moves PROVE [Supervised!Next]_(Supervised!vars)
  <1> USE DEF TypeOK, Raised
  <1>1. CASE Same /\ raised' = raised
    BY <1>1 DEF Same, Supervised!vars
  <1>2. CASE Starts
    <2>1. Supervised!Start(Leader)
      BY <1>2 DEF Starts, Supervised!Start
    <2> QED
      BY <2>1 DEF Supervised!Next
  <1>3. CASE Ends
    <2>1. Supervised!End(Leader)
      BY <1>3 DEF Ends, Supervised!End, Supervised!Ended
    <2> QED
      BY <2>1 DEF Supervised!Next
  <1>4. CASE Raises
    <2>1. Supervised!Raise(Leader)
      BY <1>4 DEF Raises, Same, Supervised!Raise
    <2> QED
      BY <2>1 DEF Supervised!Next
  <1>5. CASE Finishes
    <2>1. Supervised!Finish(Leader)
      BY <1>5 DEF Finishes, Supervised!Finish, Supervised!Become, Supervised!Ended
    <2> QED
      BY <2>1 DEF Supervised!Next
  <1>6. CASE Dies
    <2>1. Supervised!Die(Leader)
      BY <1>6 DEF Dies, Supervised!Die, Supervised!Become, Supervised!Ended
    <2> QED
      BY <2>1 DEF Supervised!Next
  <1> QED
    BY <1>1, <1>2, <1>3, <1>4, <1>5, <1>6 DEF Moves

(* The command starts where its code may first run, and where the cleanup is over
   it has ended or the launch raises (TreeIsKilled). *)
LEMMA StepMoves ==
  ASSUME TreeInv, [Next]_vars PROVE Moves /\ os' = os
  <1> USE KilledFacts, WaitedFacts, ProcAssumption
      DEF TreeInv, TypeOK, StageInv, RunsInJob, Early, RunnerState, CommandState, Started,
       Moves, Same, Starts, Ends, Raises, Finishes, Dies,
       At, Goto, Call, Return, Escape, HasJob, LeaderExited, Exists, Runs,
       system, control, pipe, drain
  <1>1. CASE Starting
    <2>1. CASE Spawn
      BY <2>1 DEF Spawn
    <2>2. CASE CreateJob \/ Attach
      BY <2>2 DEF CreateJob, Attach
    <2>3. CASE Resume
      BY <2>3 DEF Resume
    <2>4. CASE Abort
      BY <2>4 DEF Abort
    <2>5. CASE Abandon
      BY <2>5 DEF Abandon
    <2> QED
      BY <1>1, <2>1, <2>2, <2>3, <2>4, <2>5 DEF Starting
  <1>2. CASE Ending
    <2>1. CASE Supervise \/ Wait \/ Grace \/ Cleanup \/ Reap
      BY <2>1 DEF Supervise, Wait, Grace, Cleanup, Reap
    <2>2. CASE Term
      BY <2>2 DEF Term
    <2>3. CASE KillGroup
      BY <2>3 DEF KillGroup
    <2>4. CASE KillWait
      BY <2>4 DEF KillWait
    <2> QED
      BY <1>2, <2>1, <2>2, <2>3, <2>4 DEF Ending
  <1>3. CASE EndingJob
    <2>1. CASE TermJob
      BY <2>1, KilledAllFacts DEF TermJob
    <2>2. CASE TaskKill
      BY <2>2, KilledAllFacts DEF TaskKill
    <2>3. CASE CloseJob
      BY <2>3, KilledAllFacts DEF CloseJob
    <2> QED
      BY <1>3, <2>1, <2>2, <2>3 DEF EndingJob
  <1>4. CASE Passing
    <2>1. CASE SpawnFails \/ Announce \/ Probe \/ Join \/ JoinAgain \/ Compose
      BY <2>1 DEF SpawnFails, Announce, Probe, Join, JoinAgain, Compose
    <2>2. CASE Close
      BY <2>2 DEF Close, TreeIsKilled, TerminatedOnce, Ended
    <2> QED
      BY <1>4, <2>1, <2>2 DEF Passing
  <1>5. CASE Reading
    BY <1>5 DEF Reading, Reader, Read, Drain, EndOfFile, ReadOfClosed, ReadFails, Finish
  <1>6. CASE Living
    BY <1>6 DEF Living, Fork, Leave, Emit, Exit, ExitSignalled, Vanish
  <1>7. CASE RunnerDies
    BY <1>7, KilledAllFacts DEF RunnerDies
  <1>8. CASE UNCHANGED vars
    BY <1>8 DEF vars
  <1> QED
    BY <1>1, <1>2, <1>3, <1>4, <1>5, <1>6, <1>7, <1>8, StepsAreGrouped

(* Groups, jobs and signals keep what Supervision promises of a command, on POSIX
   and on Windows, whatever of a launch, a kill or a wait fails. *)
THEOREM LaunchIsSupervisedTheorem == Spec => ImplementsSupervision
  <1>1. Init => Supervised!Init
    BY ProcAssumption
       DEF Init, Supervised!Init, RunnerState, CommandState, Started, Runs, HasJob, Raised
  <1>2. TreeInv /\ TreeInv' /\ [Next]_vars => [Supervised!Next]_(Supervised!vars)
    BY StepMoves, MovesAreSupervised DEF TreeInv
  <1>3. Spec => Supervised!Init /\ [][Supervised!Next]_(Supervised!vars)
    BY <1>1, <1>2, TreeInvariant, PTL DEF Spec
  <1> QED
    BY <1>3 DEF ImplementsSupervision, Supervised!Spec

=============================================================================
