----------------------------- MODULE ProcessTree -----------------------------
(***************************************************************************)
(* One launch of _run_locked seen from the operating system (runner.py     *)
(* 228-318, processes.py): the command and its descendants, the group or   *)
(* the Windows job that holds them, the pipe of their output, the thread   *)
(* that reads it, and the runner that ends them all.                       *)
(***************************************************************************)
EXTENDS Naturals

CONSTANTS
  Proc,        \* the command's process and every descendant it may have
  Leader,      \* the process Popen starts
  Stubborn,    \* processes that no signal ends (uninterruptible)
  Limit,       \* max_output_bytes, in chunks
  Lookahead,   \* what _drain keeps beyond it, for redaction
  PipeSize,    \* what the pipe holds
  MaxOutput    \* bound: what the tree writes in all

ASSUME ProcAssumption == Leader \in Proc /\ Stubborn \subseteq Proc
ASSUME SizeAssumption == {Limit, Lookahead, PipeSize, MaxOutput} \subseteq Nat

VARIABLES
  os,         \* os.name
  proc,       \* proc[p]: see ProcStates
  left,       \* descendants that left the group of Leader (setsid)
  job,        \* the WindowsJob: see JobStates
  pc, site,   \* the place in _run_locked; who called _terminate_tree
  raised,     \* an exception leaves _run_locked
  reader,     \* the thread: none, unstarted, between reads, in read1, done
  closed,     \* stdout has been closed
  written, unread,               \* by the tree; of that, still in the pipe
  captured, truncated, output,   \* of _drain; output is what it handed over
  errors,     \* reader_errors is not empty
  recorded    \* what the terminal record says of the output

system == <<os, proc, left, job>>
control == <<pc, site, raised>>
pipe == <<written, unread>>
drain == <<captured, truncated, output, errors>>
vars == <<system, control, reader, closed, pipe, drain, recorded>>

-----------------------------------------------------------------------------
(* running; ending: it will heed SIGTERM; dying: SIGKILL or the end of its job
   has reached it; zombie: it ended and Popen has not waited for it. *)
ProcStates == {"none", "suspended", "running", "ending", "dying", "zombie", "gone"}
(* owned: attached, and known to Popen as _ops_job; dropped: closed before. *)
JobStates == {"none", "created", "attached", "owned", "closed", "dropped"}

NoRecord == [state |-> "none", bytes |-> 0, truncated |-> FALSE, failed |-> FALSE]

Init ==
  /\ os \in {"posix", "nt"}
  /\ proc = [p \in Proc |-> "none"] /\ left = {}
  /\ job = "none"
  /\ pc = "spawn" /\ site = "loop" /\ raised = FALSE
  /\ reader = "none" /\ closed = FALSE
  /\ written = 0 /\ unread = 0
  /\ captured = 0 /\ truncated = FALSE /\ output = 0 /\ errors = FALSE
  /\ recorded = NoRecord

Runs(p) == proc[p] \in {"running", "ending"}
Exists(p) == proc[p] \in {"suspended", "running", "ending", "dying"}
Group == {p \in Proc \ left : proc[p] \in {"running", "ending", "dying", "zombie"}}
HasJob == job \in {"owned", "closed"}            \* process._ops_job
LeaderExited == proc[Leader] \in {"zombie", "gone"}

Killed(S) == [p \in Proc |-> IF p \in S /\ Exists(p) THEN "dying" ELSE proc[p]]
Waited == [proc EXCEPT ![Leader] = IF @ = "zombie" THEN "gone" ELSE @]    \* poll, wait
Least(m, n) == IF m < n THEN m ELSE n

At(label) == pc = label
Goto(label) == pc' = label /\ UNCHANGED <<site, raised>>
Call(s) == pc' = "term" /\ site' = s /\ UNCHANGED raised
Return ==
  /\ pc' = CASE site = "loop" -> "wait" [] site = "cleanup" -> "job" [] OTHER -> "join2"
  /\ UNCHANGED <<site, raised>>
(* An exception of _terminate_tree: from the loop it goes to the finally clause
   (the except clause stops an OSError); from there it leaves _run_locked. *)
Escape(caught) ==
  /\ pc' = IF site = "loop" THEN "cleanup" ELSE "done"
  /\ raised' = IF site = "loop" /\ caught THEN raised ELSE TRUE
  /\ UNCHANGED site

-----------------------------------------------------------------------------
(* Mutant: the child is not created suspended. *)
SpawnRunning ==
  /\ At("spawn") /\ Goto(IF os = "nt" THEN "create" ELSE "announce")
  /\ proc' = [proc EXCEPT ![Leader] = "running"]
  /\ UNCHANGED <<os, left, job, reader, closed, pipe, drain, recorded>>

(* Popen: in a session of its own, or CREATE_SUSPENDED. *)
Spawn ==
  /\ At("spawn") /\ Goto(IF os = "nt" THEN "create" ELSE "announce")
  /\ proc' = [proc EXCEPT ![Leader] = IF os = "nt" THEN "suspended" ELSE "running"]
  /\ UNCHANGED <<os, left, job, reader, closed, pipe, drain, recorded>>

(* Provenance or Popen raises: there is no process to close. *)
SpawnFails ==
  /\ At("spawn") /\ Goto("compose")
  /\ UNCHANGED <<system, reader, closed, pipe, drain, recorded>>

(* WindowsJob(): a job object whose last handle kills its processes.  A failure
   leaves it without handle, and the suspended child to cleanup. *)
CreateJob ==
  /\ At("create")
  /\ \/ job' = "created" /\ Goto("attach")
     \/ Goto("cleanup") /\ UNCHANGED job
  /\ UNCHANGED <<os, proc, left, reader, closed, pipe, drain, recorded>>

(* attach_and_resume: the assignment, then the resumption. *)
Attach ==
  /\ At("attach")
  /\ \/ job' = "attached" /\ Goto("resume")
     \/ Goto("abort") /\ UNCHANGED job
  /\ UNCHANGED <<os, proc, left, reader, closed, pipe, drain, recorded>>

Resume ==
  /\ At("resume")
  /\ \/ /\ proc' = [proc EXCEPT ![Leader] = "running"]
        /\ job' = "owned" /\ Goto("announce")
     \/ Goto("abort") /\ UNCHANGED <<proc, job>>
  /\ UNCHANGED <<os, left, reader, closed, pipe, drain, recorded>>

(* attach_and_resume raised: spawned.kill, which may raise in its turn; the except
   clause of _run_locked stops that OSError, and the job's handle stays open. *)
Abort ==
  /\ At("abort")
  /\ \/ Goto("abandon") /\ proc' = Killed({Leader})
     \/ Goto("cleanup") /\ UNCHANGED proc
  /\ UNCHANGED <<os, left, job, reader, closed, pipe, drain, recorded>>

(* wait(5), then owned_job.close; a TimeoutExpired comes before the close. *)
Abandon ==
  /\ At("abandon") /\ pc' = "cleanup" /\ UNCHANGED site
  /\ \/ LeaderExited /\ proc' = Waited /\ job' = "dropped" /\ UNCHANGED raised
     \/ ~LeaderExited /\ raised' = TRUE /\ UNCHANGED <<proc, job>>
  /\ UNCHANGED <<os, left, reader, closed, pipe, drain, recorded>>

(* The heartbeat is written and the reader started; the first may raise an
   OSError, and the second, for want of a thread, a RuntimeError. *)
Announce ==
  /\ At("announce")
  /\ \/ Goto("loop") /\ reader' = "idle"
     \/ Goto("cleanup") /\ UNCHANGED reader
     \/ pc' = "cleanup" /\ raised' = TRUE /\ reader' = "unstarted" /\ UNCHANGED site
  /\ UNCHANGED <<system, closed, pipe, drain, recorded>>

(* One turn of the loop: the child has exited; or a deadline, a shutdown or a
   lost lease ends it; or an OSError of the refresh or the heartbeat does. *)
Supervise ==
  /\ At("loop")
  /\ \/ LeaderExited /\ Goto("wait") /\ proc' = Waited
     \/ ~LeaderExited /\ Call("loop") /\ UNCHANGED proc
     \/ ~LeaderExited /\ Goto("cleanup") /\ UNCHANGED proc
  /\ UNCHANGED <<os, left, job, reader, closed, pipe, drain, recorded>>

(* spawned.wait(), without a timeout. *)
Wait ==
  /\ At("wait") /\ LeaderExited
  /\ Goto("cleanup") /\ proc' = Waited
  /\ UNCHANGED <<os, left, job, reader, closed, pipe, drain, recorded>>

-----------------------------------------------------------------------------
(* _terminate_tree on POSIX: SIGTERM to the group, some of which heed it; the
   leader is given a grace; who is left is killed, and the leader waited for. *)
Term ==
  /\ At("term") /\ os = "posix"
  /\ \/ Group = {} /\ Return /\ UNCHANGED proc
     \/ /\ Group # {} /\ Goto("grace")
        /\ \E heed \in SUBSET {p \in Group : proc[p] = "running"} :
             proc' = [p \in Proc |-> IF p \in heed THEN "ending" ELSE proc[p]]
  /\ UNCHANGED <<os, left, job, reader, closed, pipe, drain, recorded>>

Grace ==
  /\ At("grace") /\ Goto("probe")
  /\ proc' = Waited
  /\ UNCHANGED <<os, left, job, reader, closed, pipe, drain, recorded>>

(* Mutant: the tree counts as ended when its leader has. *)
ProbeLeader ==
  /\ At("probe")
  /\ IF LeaderExited THEN Return ELSE Goto("kill")
  /\ UNCHANGED <<system, reader, closed, pipe, drain, recorded>>

Probe ==
  /\ At("probe")
  /\ IF Group = {} THEN Return ELSE Goto("kill")
  /\ UNCHANGED <<system, reader, closed, pipe, drain, recorded>>

KillGroup ==
  /\ At("kill")
  /\ IF Group = {} THEN Return ELSE Goto("killed")
  /\ proc' = Killed(Group)
  /\ UNCHANGED <<os, left, job, reader, closed, pipe, drain, recorded>>

(* Mutant: a leader that is still there after the grace is no error. *)
KillWaitQuietly ==
  /\ At("killed")
  /\ proc' = Waited /\ Return
  /\ UNCHANGED <<os, left, job, reader, closed, pipe, drain, recorded>>

KillWait ==
  /\ At("killed")
  /\ proc' = Waited
  /\ IF LeaderExited THEN Return ELSE Escape(FALSE)
  /\ UNCHANGED <<os, left, job, reader, closed, pipe, drain, recorded>>

(* With a job: TerminateJobObject, which may raise, and the wait. *)
TermJob ==
  /\ At("term") /\ os = "nt" /\ HasJob
  /\ \/ Goto("killed") /\ proc' = IF job = "owned" THEN Killed(Proc) ELSE proc
     \/ job = "owned" /\ Escape(TRUE) /\ UNCHANGED proc
  /\ UNCHANGED <<os, left, job, reader, closed, pipe, drain, recorded>>

(* Without: taskkill, whose failure is only recorded; it may be missing. *)
TaskKill ==
  /\ At("term") /\ os = "nt" /\ ~HasJob
  /\ \/ LeaderExited /\ Return /\ proc' = Waited
     \/ ~LeaderExited /\ Return /\ proc' \in {proc, Killed(Proc)}
     \/ ~LeaderExited /\ Escape(TRUE) /\ UNCHANGED proc
  /\ UNCHANGED <<os, left, job, reader, closed, pipe, drain, recorded>>

-----------------------------------------------------------------------------
(* Mutant: nothing is terminated when the leader has exited. *)
CleanupIfRunning ==
  /\ At("cleanup")
  /\ IF LeaderExited THEN pc' = "job" /\ UNCHANGED <<site, raised>> ELSE Call("cleanup")
  /\ proc' = Waited
  /\ UNCHANGED <<os, left, job, reader, closed, pipe, drain, recorded>>

(* _close_process_resources: poll, then _terminate_tree in either case. *)
Cleanup ==
  /\ At("cleanup") /\ Call("cleanup")
  /\ proc' = Waited
  /\ UNCHANGED <<os, left, job, reader, closed, pipe, drain, recorded>>

(* owned_job.close: the handle goes, and with it the processes, even when the
   termination before it raises. *)
CloseJob ==
  /\ At("job")
  /\ \/ job # "owned" /\ Goto("reap") /\ UNCHANGED <<proc, job>>
     \/ /\ job = "owned" /\ job' = "closed" /\ proc' = Killed(Proc)
        /\ \/ Goto("reap")
           \/ pc' = "done" /\ raised' = TRUE /\ UNCHANGED site
  /\ UNCHANGED <<os, left, reader, closed, pipe, drain, recorded>>

Reap ==
  /\ At("reap") /\ Goto("join")
  /\ proc' = Waited
  /\ UNCHANGED <<os, left, job, reader, closed, pipe, drain, recorded>>

(* reader.join(5); a reader that lives on has the tree terminated once more;
   a thread that never started cannot be joined. *)
Join ==
  /\ At("join")
  /\ \/ reader \in {"none", "done"} /\ Goto("close")
     \/ reader \in {"idle", "reading"} /\ Call("rejoin")
     \/ reader = "unstarted" /\ pc' = "done" /\ raised' = TRUE /\ UNCHANGED site
  /\ UNCHANGED <<system, reader, closed, pipe, drain, recorded>>

(* Mutant: a reader that is still alive is no error. *)
JoinAgainQuietly ==
  /\ At("join2") /\ Goto("close")
  /\ UNCHANGED <<system, reader, closed, pipe, drain, recorded>>

JoinAgain ==
  /\ At("join2") /\ Goto("close")
  /\ errors' = (errors \/ reader # "done")
  /\ UNCHANGED <<system, reader, closed, pipe, captured, truncated, output, recorded>>

(* stream.close() takes the buffer's lock, which read1 holds. *)
Close ==
  /\ At("close") /\ reader # "reading"
  /\ Goto("compose") /\ closed' = TRUE
  /\ UNCHANGED <<system, reader, pipe, drain, recorded>>

(* The record says FAILED if the reader failed, else what the run came to. *)
Compose ==
  /\ At("compose") /\ Goto("done")
  /\ recorded' = [state |-> "composed", bytes |-> output, truncated |-> truncated,
                  failed |-> errors]
  /\ UNCHANGED <<system, reader, closed, pipe, drain>>

-----------------------------------------------------------------------------
(* _drain: read1 is called; it returns a chunk, or at the end of the pipe
   nothing; or it raises.  The output is handed over in every case. *)
Read ==
  /\ reader = "idle" /\ ~closed
  /\ reader' = "reading"
  /\ UNCHANGED <<system, control, closed, pipe, drain, recorded>>

(* Mutant: what exceeds the capacity is dropped unnoticed. *)
TakeQuietly(chunk) ==
  /\ captured' = Least(captured + chunk, Limit + Lookahead)
  /\ UNCHANGED truncated

Take(chunk) ==
  LET remaining == (Limit + Lookahead) - captured
  IN  /\ captured' = captured + Least(chunk, remaining)
      /\ truncated' = (truncated \/ chunk > remaining)

Drain ==
  /\ reader = "reading" /\ reader' = "idle"
  /\ \E chunk \in 1..unread : Take(chunk) /\ unread' = unread - chunk
  /\ UNCHANGED <<system, control, closed, written, output, errors, recorded>>

Finish(failed) ==
  /\ reader' = "done"
  /\ output' = Least(captured, Limit)
  /\ truncated' = (truncated \/ captured > Limit)
  /\ errors' = (errors \/ failed)
  /\ UNCHANGED <<system, control, closed, pipe, captured, recorded>>

EndOfFile ==
  /\ reader = "reading" /\ unread = 0
  /\ \A p \in Proc : ~Exists(p)
  /\ Finish(FALSE)

(* The stream has been closed under the reader. *)
ReadOfClosed == reader = "idle" /\ closed /\ Finish(TRUE)

(* The read raises. *)
ReadFails == reader = "reading" /\ Finish(TRUE)

-----------------------------------------------------------------------------
(* The processes: one forks, leaves the group, writes to the pipe, ends. *)
Fork(p, d) ==
  /\ Runs(p) /\ proc[d] = "none"
  /\ proc' = [proc EXCEPT ![d] = "running"]
  /\ left' = IF p \in left THEN left \cup {d} ELSE left
  /\ UNCHANGED <<os, job, control, reader, closed, pipe, drain, recorded>>

Leave(p) ==
  /\ os = "posix" /\ Runs(p) /\ p # Leader
  /\ left' = left \cup {p}
  /\ UNCHANGED <<os, proc, job, control, reader, closed, pipe, drain, recorded>>

Emit(p) ==
  /\ Runs(p) /\ written < MaxOutput /\ unread < PipeSize
  /\ written' = written + 1 /\ unread' = unread + 1
  /\ UNCHANGED <<system, control, reader, closed, drain, recorded>>

Vanish(p) == proc' = [proc EXCEPT ![p] = IF p = Leader THEN "zombie" ELSE "gone"]

Exit(p) ==
  /\ proc[p] = "running" /\ Vanish(p)
  /\ UNCHANGED <<os, left, job, control, reader, closed, pipe, drain, recorded>>

ExitSignalled(p) ==
  /\ proc[p] \in {"ending", "dying"} /\ Vanish(p)
  /\ UNCHANGED <<os, left, job, control, reader, closed, pipe, drain, recorded>>

(* The runner's process ends, within run_job or after it; so does a job whose
   only handle it had. *)
RunnerDies ==
  /\ pc # "dead" /\ pc' = "dead"
  /\ reader' = "none"
  /\ proc' = IF job \in {"attached", "owned"} THEN Killed(Proc) ELSE proc
  /\ UNCHANGED <<os, left, job, site, raised, closed, pipe, drain, recorded>>

Runner ==
  \/ Spawn \/ SpawnFails \/ CreateJob \/ Attach \/ Resume \/ Abort \/ Abandon
  \/ Announce \/ Supervise \/ Wait
  \/ Term \/ Grace \/ Probe \/ KillGroup \/ KillWait \/ TermJob \/ TaskKill
  \/ Cleanup \/ CloseJob \/ Reap \/ Join \/ JoinAgain \/ Close \/ Compose
Reader == Read \/ Drain \/ EndOfFile \/ ReadOfClosed

Next ==
  \/ Runner \/ RunnerDies \/ Reader \/ ReadFails
  \/ \E p \in Proc :
       \/ \E d \in Proc \ {Leader} : Fork(p, d)
       \/ Leave(p) \/ Emit(p) \/ Exit(p) \/ ExitSignalled(p)

Spec == Init /\ [][Next]_vars

(* The runner and its thread go on, and the deadline of the loop comes; a
   process that a signal ends does end. *)
FairSpec ==
  /\ Spec /\ WF_vars(Runner) /\ WF_vars(Reader)
  /\ \A p \in Proc \ Stubborn : WF_vars(ExitSignalled(p))

-----------------------------------------------------------------------------
(* The values of the variables. *)
TypeOK ==
  /\ os \in {"posix", "nt"} /\ job \in JobStates
  /\ proc \in [Proc -> ProcStates] /\ left \subseteq Proc \ {Leader}
  /\ site \in {"loop", "cleanup", "rejoin"}
  /\ reader \in {"none", "unstarted", "idle", "reading", "done"}
  /\ {raised, closed, truncated, errors} \subseteq BOOLEAN
  /\ {written, unread, captured, output} \subseteq Nat

(* Where a launch stands: POSIX has no job, the job's state follows the place,
   nothing exists before Popen returned, and nothing is read before the reader
   is started. *)
Early == {"spawn", "create", "attach", "resume", "abort", "abandon"}
StageInv ==
  /\ os = "posix" =>
       job = "none" /\ proc[Leader] # "suspended" /\ pc \notin Early \ {"spawn"}
  /\ pc = "spawn" => \A p \in Proc : proc[p] = "none"
  /\ pc \in {"spawn", "create"} => job = "none"
  /\ pc = "attach" => job = "created"
  /\ pc = "resume" => job = "attached"
  /\ pc \in {"abort", "abandon"} => job \in {"created", "attached"}
  /\ pc \in Early \cup {"announce"} =>
       reader = "none" /\ captured = 0 /\ ~truncated /\ unread = written

(* On Windows the command's code runs only inside a job that dies with the
   runner: it never runs before, and never after. *)
RunsInJob ==
  os = "nt" => \A p \in Proc : Runs(p) => job = "owned" /\ pc \notin Early \cup {"dead"}

(* After the tree has been terminated nothing of it runs on, whatever raised on
   the way: except what left the group, and what is in a job that could not be
   terminated, which the runner's end will do (RunsInJob). *)
Ended == {"job", "reap", "join", "join2", "close", "compose", "done"}
TerminatedOnce == pc \in Ended \/ (pc \in {"term", "grace", "probe", "kill"} /\ site = "rejoin")
TreeIsKilled ==
  TerminatedOnce \/ pc = "killed" =>
    \A p \in Proc : Runs(p) => p \in left \/ (raised /\ job = "owned")

(* The groups, the jobs and the signals implement Supervision, which RunJob
   implements with a step for each of launch, kill and cleanup.  The command has
   started when its code may run, and has ended when no more of it will. *)
Started == IF os = "posix" THEN proc[Leader] # "none" ELSE HasJob
RunnerState == IF pc = "dead" THEN "dead"
               ELSE IF pc \in {"compose", "done"} THEN "over" ELSE "working"
CommandState == IF Runs(Leader) THEN "running" ELSE IF Started THEN "ended" ELSE "none"
Raised == IF raised THEN {Leader} ELSE {}
Supervised == INSTANCE Supervision WITH
  Run <- {Leader},
  runner <- [r \in {Leader} |-> RunnerState], command <- [r \in {Leader} |-> CommandState],
  raised <- Raised, contained <- os = "nt"
ImplementsSupervision == Supervised!Spec

(* Of a run that returned there is no zombie, and on POSIX no leader. *)
ChildIsReaped ==
  TerminatedOnce /\ os = "posix" =>
    (pc = "done" /\ raised) \/ proc[Leader] \in {"none", "gone"}

(* What _drain knows of the pipe, and that a reader which is not done by the
   close of its stream is an error. *)
DrainInv ==
  /\ reader \in {"idle", "reading"} =>
       /\ captured = Least(written - unread, Limit + Lookahead)
       /\ truncated <=> written - unread > Limit + Lookahead
  /\ unread <= written
  /\ reader = "done" /\ ~errors => 
       /\ \A p \in Proc : ~Exists(p)
       /\ output = Least(written, Limit)
       /\ truncated <=> written > Limit
  /\ pc \in {"close", "compose"} => reader \in {"none", "done"} \/ errors

(* Unless it says that it failed, the record of a run with a reader holds all
   that the tree wrote up to the limit, and truncated says whether that is all. *)
OutputIsHonest ==
  recorded.state = "composed" /\ ~recorded.failed /\ reader # "none" =>
    /\ recorded.bytes = Least(written, Limit)
    /\ recorded.truncated <=> written > Limit

(* The record is composed last, and one that does not say that it failed from
   the output of a reader that was done. *)
RecordInv ==
  recorded.state = "composed" =>
    /\ pc \in {"done", "dead"}
    /\ ~recorded.failed => reader = "none" \/ (reader = "done" /\ ~errors)

(* The inductive invariant. *)
TreeInv ==
  /\ TypeOK /\ StageInv /\ RunsInJob /\ TreeIsKilled /\ ChildIsReaped
  /\ DrainInv /\ RecordInv /\ OutputIsHonest

(* The run ends, unless for ever a process holds its pipe that left the group
   or that no signal ends. *)
Over == pc \in {"done", "dead"}
Unreachable == \E p \in Proc : Exists(p) /\ p \in left \cup Stubborn
RunEnds == <>Over \/ <>[]Unreachable

(* Cleanup ends, whatever the command started. *)
CleanupEnds == pc = "cleanup" ~> Over

=============================================================================
