# Verification of predictor_ops

`predictor_ops` runs one command at a time on behalf of an external scheduler:
it takes the lease of the job's *economic key*, refuses to repeat an operation
that may already have reached the outside world, launches the command, watches
it, and records what happened. Nothing in it is a long-lived server. Its
difficulty is that many short-lived runner processes, started by schedulers that
know nothing of each other, meet only in files, and that each of them may raise,
be stopped or die between any two system calls.

This directory holds TLA+ models of that core, TLC configurations that check
them on small instances, and TLAPS proofs for every value of the constants.
Source paths below are relative to `src/predictor_ops/` of the repository.

## 1. Inventory

| Component | State it keeps | Operations | Status here |
|---|---|---|---|
| Lease (`runtime.py`: `_mutation_guard`, `LocalBackend`, `LocalLock`) | `<root>/<lock id>/run.lock`, its mtime, `.mutation.guard` | `acquire`, `refresh`, `release` | modelled: `Lease` |
| Runner (`runner.py`: `run_job`, `_run_locked`) | one call's program state, its child process | one run of a job | modelled: `RunJob`; in more detail its way to the launch in `Admission`, the launch and cleanup in `ProcessTree` |
| Idempotency record (`runner.py`) | `<root>/idempotency/<lock id>.json` | read, claim, terminal write | modelled: `RunJob`, `EconomicOperation`, and its file in `Admission` |
| Event log (`runtime.py`: `append_jsonl`) | `events.jsonl`, `.events.jsonl.append.lock` | append | modelled: `EventLog` |
| Atomic artifacts (`runtime.py`: `atomic_json`) | `heartbeat.json`, `skipped.*.json`, records | replace | modelled: `AtomicJson`, `DurableFile` |
| Kill switch (`operations.py`) | none (reads the job's risk snapshot) | `kill_switch_reasons` | modelled: `KillSwitch` |
| Process tree, output reader (`runner.py`: `_terminate_tree`, `_drain`, `_close_process_resources`) | process group, pipe, thread | kill, drain, close | modelled: `ProcessTree` |
| Windows containment (`processes.py`: `WindowsJob`) | a job object | create, attach, resume, terminate, close | modelled: `ProcessTree` |
| Health (`health.py`: `assess`) | none (reads the heartbeat) | `assess` | modelled: `Health` |
| Scheduler adapter (`windows.py`) | none (the task's last result) | `inspect_scheduled_task` | partly: its answer, in `Health` |
| Typed configuration (`models.py`) | none | validators of keys, jobs and files | partly: the validators that capital, identity and uniqueness rest on, in `Config` |
| Configuration sources (`config.py`) | none | `load_job` from a file or HTTPS | partly: from a file, in `Config` |
| CLI (`cli.py`) | the shutdown event | the run action, signals, exit codes | partly: in `Admission`, `Health`, and `Due` of `RunJob` |
| Provenance (`provenance.py`) | none (reads the installed package) | `collect_provenance` | partly: installed wheels, in `Provenance` |
| Redaction, observability, repository scripts | none | pure functions and I/O | not modelled |

**Interactions.** `run_job` calls the lease backend with the lock id that
`economic_lock_id` derives (the hash of the economic key, or the job id); all
runs with one lock id share one lease and one idempotency record. Heartbeat and
event log are per *job id*, so two jobs with different keys never exclude each
other there, and a job that appears under several keys writes one heartbeat from
several runs. `append_jsonl` has a lock of its own. A signal handler of the CLI
sets an event the supervision loop polls. The reader thread shares the output
pipe with whatever the command started. Health reads the heartbeat, and asks the
scheduler for the last exit code, at any time.

**Hard behaviours.**

- *Takeover.* The lease ends by release, by age, or by a liveness probe of the
  owner's pid. Judging, evicting and re-creating are separate file operations; a
  guard that dies with its process spans them.
- *Crashes.* A runner may die at any step and leave a lease, an `IN_PROGRESS`
  record, a `WAITING` heartbeat, a torn file, a lock, or a running child; the
  power may fail before the system has written what a run relied on.
- *At most once.* A capital operation must not be submitted twice, however
  attempts, crashes, timeouts and failed writes are ordered.
- *Partial failure.* Three terminal artifacts are written one after the other;
  each may fail, and so may creating the job object, starting the reader, and
  killing the child.
- *Descendants.* The command's tree forks, outlives its leader, ignores signals,
  leaves the group and keeps the pipe.
- *Check, then act.* The exit of the child races the deadline; the age of a lock
  file is read before the file is removed; the lease is not looked at again
  between `acquire` and the launch.

**What makes each component correct.** Lease: one owner at a time, ended only by
release, age or death; calls return; dead owners are replaced. Runner: one
submission per capital operation, a final `SUCCEEDED`, no command left running
or artifact left open by a run that returned, every run ends. Admission: what
is launched passed every condition the documents state, under one lock id per
operation. Process tree: nothing of it survives the cleanup, nothing runs
outside its job, the recorded output is what was written. Event log: every
append that returned is one intact line; no append waits for ever. Health: no
job is called healthy over a run that ended badly, nor for ever.

## 2. Modules

| Module | What it is |
|---|---|
| `LeaseService` | abstract: what the `RuntimeBackend` protocol promises a runner. Each run owns the lease of its lock id for at most one interval; owners exclude each other |
| `Lease` | detailed: the files, the guard, the probe and the clock of one lock id; implements `LeaseService` |
| `EconomicOperation` | abstract: what the documents promise of an operation. It is attempted in turn, submitted by the attempt in progress, and closed by what that came to |
| `Supervision` | abstract: a command runs once, under a run that ends after it, by an exception, or by its death |
| `RunJob` | many runs of `run_job` over the leases, built on `INSTANCE LeaseService`; implements `EconomicOperation` and `Supervision` |
| `Health` | extends `RunJob` with the scheduler's last result and the age of heartbeats: `assess` over what the runs leave |
| `ProcessTree` | one launch seen from the operating system: the tree, the group or job object, the pipe, the reader and the cleanup; implements `Supervision` |
| `DurableFile` | abstract: a write happens whole or not at all, a write that its caller is told of has happened (one that is said to have failed may have), and a power loss takes back whole writes |
| `AtomicJson` | `atomic_json` over what the cache and the disk hold; implements `DurableFile` in `Admission` |
| `Config`, `KillSwitch`, `Provenance` | pure: the validators and lock ids, the kill switch, the wheel's verification; the last two with what the documents promise of them |
| `Admission` | composes the four: from the jobs file to the launch and the terminal record, with time, deaths and power losses |
| `EventLog` | many calls of `append_jsonl` on one log |
| `MCLease`, `MCRunJob`, `MCHealth`, `MCProcessTree`, `MCAdmission`, `MCEventLog` | instances for TLC: model values, functions of the constants, symmetry |
| `LeaseProof`, `RunJobProof`, `HealthProof`, `ProcessTreeProof`, `AdmissionProof`, `EventLogProof` | theorems and their proofs |

`RunJob` never looks into `run.lock`; it uses `LeaseService!Grant` and `Lose`.
`Lease` refines `LeaseService` (`ImplementsService`, checked and proved), which
is what entitles `RunJob` to that step: the two models compose through the
abstract one. `RunJob` in turn refines `EconomicOperation`
(`ImplementsOperation`), where nothing is left of leases, files and processes.

`ProcessTree` and `Admission` are two further views of `_run_locked`, each of
the part that `RunJob` takes in one step: `TerminateTree` and `Cleanup` there
are `Term` to `Close` here, `KillSwitch` and the claim there are `Gate` to
`Claimed` here. `Supervision` is what `RunJob` and `ProcessTree` share: for
each run, whether its code is at work, past the cleanup or dead, whether its
command has started, runs or has ended, and whether an exception is on its way.
`RunJob` implements it with one step for each of launch, kill and cleanup, for many
runs; `ProcessTree` implements it for one run with all the steps of the groups, the
jobs and the signals (`ImplementsSupervision` of both, checked and proved). In both,
a command that runs on past the cleanup belongs to a run that raised. That every
behaviour of `ProcessTree` is one of `RunJob` is not claimed: the two share the
abstract specification. The refinement is about the leader, the process that `Popen`
starts; of its descendants `TreeIsKilled` speaks.

### Lease

| Variable | Code |
|---|---|
| `lockFile` | `run.lock`: absent, not parseable, or the run its JSON names |
| `age` | `time.time() - st_mtime`, in ticks |
| `guard` | who holds the operating-system lock on `.mutation.guard` |
| `pc` | the place in `acquire`, `refresh` or `release`; `held` is the runner at work between calls |
| `alive`, `recycled` | which processes exist, and which ended ones have a pid that answers a probe again |
| `evicted` | history: runs whose lease was taken from them while they lived |

`Create` is the `O_EXCL` open, `WriteOwner` the dump and the fsync, `Inspect` the
judgement of lines 181-205 with the probe of either platform (`LooksDead`),
`Evict` the replace and unlink, `Renew`/`RenewFails` and `Unlink`/`KeepFile` the
two halves of `refresh` and `release`. `GuardTimeout` is the 30 s of the guard.
Every one may be followed by `Die`, which also frees the guard. Ownership is by
run id (a uuid), so a run is its own name.

### RunJob

| Variable | Code |
|---|---|
| `lease` | see `LeaseService` |
| `pc` | the place in `_run_locked` |
| `child` | the `Popen` object of the run and whether its command still runs |
| `due` | the deadline has passed or the shutdown event is set |
| `status` | the local variable: `SKIPPED`, `SUCCEEDED`, `WAITING`, and `FAILED` for every other status |
| `record`, `heartbeat`, `logged` | the three kinds of files |
| `raised` | an exception is leaving `run_job` |

One action per step of the function, in its order: the gates (`Check`,
`KillSwitch`), the claim, `Launch` or `LaunchFails`, `Announce`, the loop
(`Poll`, then one of `Stop`, `Continue`, `Refresh` followed by `Renew`, `LeaseLost`,
`ContinueRaises`, or `Reap`), `Cleanup`, `Settle`, `Report`, `Log`, `Release`. Where a
call may raise there is an action or a disjunct for it, and it goes where the `except`
and `finally` clauses send it: an `OSError` of the loop to cleanup and the terminal
artifacts, an error of cleanup past them to the release, an error of one artifact to the
next one. A write that raises has left the old file or the new one, because the
`unlink` that follows the replace may raise too.
Between any two steps the runner may `Die`, another run may `Evict` its lease,
the child may exit, the deadline may pass.

Job kinds are sets of constants: `Capital` (execution jobs with
`capital_permission`), `Keyed` (lock ids that come from an economic key),
`Unkillable` (runs whose child survives `SIGKILL` and the bounded wait, so that
`TimeoutExpired` leaves `_terminate_tree`), `Contained` (Windows job objects, whose
termination may raise an `OSError` that the loop's `except` catches).
`Stalls[r]` is the set of places where the live run `r` may take longer than its
ttl and lose its lease to another acquirer (`Evict`); it goes on without noticing,
as the code does, until `refresh` looks. `ReadFaults` lets a read of a file raise.
`Mapped` are the statuses that `exit_statuses` gives to exit codes. The validator takes
any `RunStatus` there, so a run can end, and be recorded, as `WAITING`: in its files
such a run looks like one that is still at work.
`AppendEvent` is the call of `append_jsonl`, which may raise before it has written or
after (from the sync or the unlink): `EventLog` has its steps.

### Health

`latest[j]` is the run of job `j` whose process the scheduler saw end last, and
`aged` the jobs whose `finished_at` is more than `max_age_seconds` ago. `RunStep`
is a step of `RunJob` that keeps both true; `Age` is time. `Assess` is the
function, `Inspect` the answers the scheduler may give it. A job may map the exit
codes of its command to statuses as it likes (`exit_statuses`): then a failed
run can end with code 0, which the scheduler takes for success. `ByDefault` is
the set of runs whose jobs leave `SUCCEEDED` to code 0 alone, and the part of
`HealthIsEarned` that rests on the exit code speaks of them.

### ProcessTree

| Variable | Code |
|---|---|
| `os` | `os.name`: both platforms are in one state space |
| `proc` | each process of the tree: not there, suspended, running, about to heed `SIGTERM`, about to die, zombie, gone |
| `left` | the descendants outside the leader's group |
| `job` | the `WindowsJob`: created, attached, owned by the `Popen` object, closed, or closed before that |
| `pc`, `site` | the place in `_run_locked` and its callees; from where `_terminate_tree` was called |
| `reader`, `closed` | the thread of `_drain`; whether `stdout` is closed |
| `written`, `unread` | what the tree has written; of that, what is in the pipe |
| `captured`, `truncated`, `output`, `errors` | the locals and results of `_drain` |
| `recorded` | what the terminal record says of the output |

`Spawn`, `CreateJob`, `Attach`, `Resume`, `Abort` and `Abandon` are lines 228-262
with `processes.py`; `Term`, `Grace`, `Probe`, `KillGroup`, `KillWait`, `TermJob`
and `TaskKill` are `_terminate_tree` on the two platforms; `Cleanup`, `CloseJob`,
`Reap`, `Join`, `JoinAgain` and `Close` are `_close_process_resources`; `Read`,
`Drain`, `EndOfFile` and `ReadFails` are `_drain`. A process forks, leaves the
group, writes and ends between any two of them, and the runner may die.

### Admission and its parts

A jobs file is a record of `Config`; an optional field is a set of at most one
value. `Load` validates it and finds the job (`LoadJob`), `Acquire` takes the
lease, `Check` reads the record, `Gate` asks `KillSwitchReasons`, `Claim` to
`Claimed` is one call of `atomic_json`, `Launch` asks `CollectProvenance`,
`Settle` and `Settled` write the outcome. A run may lose its lease anywhere: `Acquire`
may take it from the run that has it (`Holders`), which goes on without noticing, as
after its ttl in the code. Ids of keys are sequences of
characters, because whether two keys collide is a matter of where the separator
is, and times have offsets, because whether two times are one instant is a
matter of zones.

`file[p]` is what a reader finds, `disk[p]` what a power loss leaves: `os.replace`
changes the first, `WriteBack` the second, since the directory is not synced. Of
`DurableFile`, `Begin` is `Ask`, `Replace` is `Happen`, an error before it is `Fail`
(at `WriteRaises` or `Refused`), the `unlink` at the end, with or without an error, is
`Tell`, `End` is `Listen`, and a temporary file is nothing.
An installation is its first file of the name `RECORD`, as the code takes it, with its
rows up to one that `csv` cannot read.
`since`, `evicted`, `launched` and `vanished` are history: when a run got its lease,
whose lease was taken over, whether a run launched with its lease and
what it launched was admissible (`Admissible` and `Genuine` say what the
documents promise, in their words and not in those of the functions), and which
records a power loss took back.

### EventLog

`lock` is the lock file and who created it, `old` whether it is past 300 s,
`log` the file as a sequence of chunks, each the record of one call, whole or cut
short. `Stat` and `Steal` are two steps, as in the code, and `Steal` and
`Unlock` remove whatever file has the name. `world` says once for each behaviour
whether locks grow old, whether writes may be short, and whether `O_APPEND`
moves and writes in one step (POSIX) or the C runtime seeks first.

## 3. Runs

Each run explores its state space whole.

| Run | Instance | Distinct states | Shows |
|---|---|---|---|
| `lease_safety` | 3 runs, ttls 1 and 2, `MaxAge` 2, a process the probe may not signal, unreadable files | 541 000 | `LeaseInv`, `ExclusiveHolding`, `LeaseEndsLawfully`, `RenewalProvesOwnership`, refinement of `LeaseService` |
| `lease_live` | 2 runs, the Windows probe with a process it may not open | 10 000 | every call returns; a dead owner is replaced before the ttl |
| `run_capital` | 3 capital runs of one operation that may lose their leases from the launch on, unreadable records, orphaned children | 693 000 | `RunInv`, `SingleSubmission`, `AttemptIsHeld`, refinement of `EconomicOperation` |
| `run_plain` | 2 retriable runs of one operation that may lose their leases after the terminal record, one child unkillable | 475 000 | `SucceededIsFinal`, `OneSupervisedChild`, `RunsEnd`, refinement of `EconomicOperation` and of `Supervision` |
| `health` | 2 runs of one job under two lock ids: one capital with the usual exit codes, one unkeyed, unkillable and with any; exit codes that mean `WAITING`; leases lost while the commands run, job objects, unreadable files | 1 885 000 | `ReturnedIsRecorded`, `HealthIsEarned`, `SilenceIsNoticed` |
| `log` | 2 writers in all 8 worlds | 52 000 | `SerialInv`, `Serialized`, `AcknowledgedIsOneLine`, `AppendsReturn` |
| `tree` | a command with two descendants, one deaf to signals; limit 1, pipe 2, output up to 3 chunks; both platforms | 129 000 | `TreeInv`, `TreeIsKilled`, `ChildIsReaped`, `RunsInJob`, `OutputIsHonest`, `RunEnds`, refinement of `Supervision` |
| `admission` | 2 runs, jobs files that differ from a good one in one field, 25 states of the installation, leases that may be taken over anywhere, one tick of the clock | 312 000 | `NeverTorn`, `AdmissionInv`, `SubmittedOnce`, `LaunchedIsAdmissible`, `OneLockPerOperation`, refinement of `DurableFile` |
| `lease_torn`, `run_unread`, `run_twice`, `tree_hang` | | | violations: section 4 |

*Why the bounds are enough.* `MaxAge`, `MaxNow` and `MaxOutput` are the only
things cut off; every run, launch and append is otherwise one pass through its
code, so the state spaces are finite by themselves.

- Lease: three leaseholders are the least for which a second acquirer can race a
  takeover; two ttls, one reached and one not yet, are all that `age >= ttl`
  tells apart at `MaxAge` 2.
- Runner: three runs give an attempt, a crash or failure, a retry, and a rival of
  the retry; the capital invariant relates pairs of runs. Two lock ids over one
  job are the least that share a heartbeat.
- Process tree: a leader, a descendant that heeds signals and one that does not;
  each of them may leave the group. One chunk fits the limit, a second exceeds it, and a third is
  lost beyond a flag that is already set; a pipe of two chunks is read in one
  piece or in two.
- Admission: each validator and each condition of the kill switch looks at one
  field, so jobs that differ from an admissible one in one field reach each of
  them; a value below zero, below, at and above its limit, and an age at
  its maximum, which one tick exceeds, and one of the future. The keys hold one pair
  written in two zones, one pair that reads the same when its parts are joined, one that
  differs, a time without a zone, and none. Two runs are an attempt and its rival, of
  which one may be a run without capital that takes an unverified package.
- Event log: two writers suffice for one to lose its lock to the other; three,
  who could find one stale lock together, are left to `AcknowledgedTheorem`.

The theorems of section 5 remove the bounds for the safety properties they name.

Deadlock is not checked: every process ends, and then the system stops.

*Mutants.* Beside the actions stand a few operators marked `Mutant:`, the
same code with one plausible error (a guard that excludes nobody, an unlink
without the ownership test, a record that is not written before the launch, a
tree that counts as ended when its leader has...). They are in no specification;
putting one in the place of its definition makes the property it is listed with
fail.

### Fairness

Only what the code itself guarantees is assumed.

- `Lease`, `RunJob`, `EventLog`: a process inside a call takes its next step (weak
  fairness of each process's own steps), and time passes (`Due`, `Late`):
  `timeout_seconds` is a finite number, the guard and the append lock give up
  after 30 s, `process.wait` and `reader.join` take a timeout. Nothing is assumed
  of deaths, evictions, the child's exit, the start of a run, or the order in
  which the guard is granted: `flock` is polled and may be unfair, which is why
  `CallsReturn` rests on the deadline and not on a turn. `RunsEnd` takes the
  cleanup for a step that returns; `ProcessTree` says when it does.
- `ProcessTree`: the runner and the reader go on, and a process that a signal or
  the end of its job ends does end, unless it is `Stubborn`. Nothing is assumed of
  a process nobody has signalled. `RunEnds` is therefore a statement about the
  code: it kills all that could keep it waiting, except what left the group.
- `Health`: heartbeats grow old. Nothing is asked of the runs: `SilenceIsNoticed`
  is about a job whose runs have stopped.

## 4. Disagreements with the documentation

Each is a run that TLC refutes, with the quoted sentence in `PROJECT.json`.

| Run | What happens |
|---|---|
| `lease_torn` | A run dies between `O_EXCL` and the dump; the unparsable `run.lock` counts as neither stale nor dead, and its key is locked out for ever |
| `run_unread` | A record that cannot be read stops capital jobs only; another job overwrites `SUCCEEDED` and runs again |
| `run_twice` | A run slower than its ttl between `acquire` and the claim goes on without the lease; a capital operation is launched twice |
| `tree_hang` | A descendant that left the group (`setsid`) keeps the pipe; the reader stays in `read1`, and `stream.close()` waits for its lock for ever, before any terminal artifact is written |

Further weaknesses limit what is claimed, and appear as assumptions of
theorems or conditions inside the properties.

- A command that succeeds between `poll` and the test of the deadline is recorded
  `FAILED` (`runner.py:277`), and a job without capital repeats it; README.md:48
  says that a completed operation is not run twice. `SucceededIsFinal` speaks of
  the record.
- A run that lost its lease while it supervised its command, and may even have been
  told so by `refresh` (`runner.py:283`), writes its terminal record all the same
  (line 325), over the `SUCCEEDED` of the run that took over; the next attempt repeats
  the operation. It is what the `Timely` of section 5 excludes.
- A short write leaves a fragment without a newline (`runtime.py:127`), and the
  next acknowledged record is glued to it: the exception that
  `AcknowledgedIsOneLine` makes for a record behind one of a call that raised.
- On Windows a live process that may not be opened counts as dead
  (`OpenProcess` returns no handle), so a fresh lease is evicted under it; the
  POSIX probe treats the same case as alive.
- Two writers that find one append lock stale can enter the section together, the
  second through the fresh lock of the first. Where `O_APPEND` is one step this
  costs nothing; with a seek before the write it can cost an acknowledged record:
  the `~world.stale` of the two log properties, of which only
  `AcknowledgedIsOneLine` says anything of stale locks.
- `atomic_json` does not sync the directory: after a power loss a claim may be gone
  although its command was launched. `SubmittedOnce` excepts the records
  that vanished so.
- A run that has lost its lease before its launch launches all the same (`run_twice`).
  `SubmittedOnce` therefore speaks only of runs that had theirs (`held`), as
  `SingleSubmissionTheorem` assumes `Prompt`.
- The kill switch judges the snapshot once. By the launch, after the claim and
  the hashing of the package, it may be stale: `LaunchedIsAdmissible` promises
  only that it was admissible at some time since the run's `acquire`.
- An `exit_statuses` that maps another code to `SUCCEEDED`, or 0 to a failure, makes the scheduler's
  view of the exit code and the record disagree (`ByDefault` in `Health`). A run that
  is skipped ends with code 0 and hides an earlier failure from the scheduler. A
  `WAITING` heartbeat never ages without a scheduler (`health.py:46`): a job
  whose runner died is `WAITING` for ever, though never healthy.
- A job without a key may have the id `economic-<digest>` of another job's lock id;
  `OneLockPerOperation` compares keyed jobs.

## 5. Proofs

All are checked by `tlapm`, without unproved steps.

**Lease** (`LeaseProof`, any runs, ttls, ages, platform). `LeaseInv` is inductive:
`GuardInv` (a body of a call runs only with the guard), `BodyInv` (between
creation and write the file is the one just created; between judgement and
eviction the owner judged is still there), `NameInv` (`run.lock` names only runs
it was granted to, never again one it was taken from). `ExclusiveHolding` alone
is not inductive: nothing in it stops a second run from writing its id
while the first is between two file operations; `BodyInv` does, and it needs the guard.

- `LeaseInvariant`, `ExclusiveHoldingTheorem`, `RenewalProvesOwnershipTheorem`: no assumption.
- `LeaseEndsLawfullyTheorem`: assumes `~Windows \/ Denied = {}`: the probe
  does not mistake a live process for a dead one (section 4).
- `ServiceTheorem`: the refinement of `LeaseService`, step by step: `WriteOwner`
  (and `WriteRaises`, when the file is whole) is `Grant`; `Evict` and `Unlink`
  of a named file are `Lose`; all else stutters.

**RunJob** (`RunJobProof`, any runs, jobs, lock ids and kinds). `RunInv` is
inductive: besides types, who owns the lease at which place (`LeaseInv`,
`OwnerInv`), what a run has launched at which place (`ChildInv`), that keyed
operations are claimed before launch and stay claimed until the terminal write
(`ClaimInv`), that a run past the check found no record that closes the
operation (`FreshInv`), that no rival has launched while a capital run still
can (`FirstInv`), and that `SUCCEEDED` is recorded only of a child that exited so
(`SuccessInv`). `SingleSubmission` needs `FirstInv`; `FirstInv` needs that no record
can vanish or be claimed under a run (`ClaimInv`, `OwnerInv`).

Leases may be lost by live runs anywhere (`Stalls` is any function), so each part of
the invariant says for which runs it holds: for those that are never slow where they
need the lease. `Prompt(k)` says so of the capital runs of lock id `k` up to the launch,
`Timely(k)` of all runs of `k` up to the point where the lease has done its work. For
a lock id that serves only capital that point is the launch, because from then on
the record keeps other capital runs away, lease or no lease; for any other it is the
terminal record.

- `RunInvariant`: no assumption.
- `SingleSubmissionTheorem`, `AttemptIsHeldTheorem`: assume `Prompt` of every lock id,
  that no capital run is slower than its ttl between acquire and launch. It is
  the assumption the code makes of `lock_stale_after_seconds`, and `run_twice`
  shows that single submission fails without it. What happens to leases after the
  launch, and to those of runs without capital, is left open.
- `SucceededIsFinalTheorem`: assumes `Timely` (section 4 says why) and
  `~ReadFaults` (`run_unread` does).
- `OperationTheorem`: the refinement of `EconomicOperation`, under `Timely` and
  `ReadFaults => Run \subseteq Capital`, for the same reasons. The claim is
  `Begin`, the launch `Submit`, the terminal write `Conclude`, each of them whether the
  write then returns or raises. A run concludes with any of the `Outcomes`, since
  `exit_statuses` may name any, but with `SUCCEEDED` only after a launch.
- `OneSupervisedChildTheorem`: assumes `Timely`. `OrphanInv` tells the commands
  without a runner from those with one.
- `ReturnedIsRecordedTheorem`: no assumption but `MapAssumption`, that `exit_statuses`
  names statuses. A run that returned has left nothing running, an event, and in the
  heartbeat and the record, where it wrote last, the very status it returned, be that
  `WAITING`. A run whose write of `IN_PROGRESS`, or of a `WAITING` it did not return,
  is still to be seen has raised or died. Its invariant `TraceInv` is about one
  run at a time (what it has left open at each place), so it survives evicted
  leases and other runs' heartbeats.
- `SupervisionTheorem`: the refinement of `Supervision`, no assumption. Only
  `TypeOK` and `ChildInv` of the invariant are needed: a command exists from the
  launch on, and at the end of the cleanup it has ended or the run has raised.
  `StepMoves` says what a step of a run may do to place, command and exception at
  once, `MovesAreSupervised` that this is a step of `Supervision` or none.

**Health** (`HealthProof`, the same generality, no assumption). `EarnedInv` ties a
`SUCCEEDED` heartbeat to a command that exited so, `LatestInv` the scheduler's
last run to one that has ended; with `TraceInv` they give `HealthIsEarnedTheorem`.

**ProcessTree** (`ProcessTreeProof`, any descendants, stubborn ones, limits and
pipe sizes, no assumption). `TreeInv` is inductive: `StageInv` (which job, reader
and processes there can be at each place of the launch), `RunsInJob`,
`TreeIsKilled` and `ChildIsReaped`, which are inductive on top of it, `DrainInv`
(the counts of the reader: what it kept is what left the pipe, up to its
capacity; a reader that is not done when its stream is closed is an error), and
`RecordInv` (the record was composed last, from a reader that was done or from
an error). `OutputIsHonest` alone says nothing of a reader that is still
reading when the record is composed; `DrainInv` and `RecordInv` do.

- `TreeInvariant`, `TreeIsKilledTheorem`, `ChildIsReapedTheorem`, `RunsInJobTheorem`,
  `OutputIsHonestTheorem`.
- `LaunchIsSupervisedTheorem`: the refinement of `Supervision`. On POSIX `Spawn` is
  `Start`, on Windows `Resume` is; the exit of the leader, a kill that reaches it and the
  close of its job are `End`; `Close` and the exceptions that leave the cleanup are
  `Finish`; all of it rests on `TreeInv`. That `Close` may be `Finish` is
  `TreeIsKilled`, that the runner's death ends a command on Windows is `RunsInJob`.

**Admission** (`AdmissionProof`, any runs, jobs files, keys, limits, snapshots,
installations, leases lost anywhere). `AdmissionInv` is inductive: `SyncedInv` (nothing gets the name of
a record before its content is synced), `PlaceInv` (a run past loading has a
valid job and writes only its own record), `LeaseInv` (two runs share a lock id past
`Acquire` only if the lease of one was taken), `GateInv` (past the gate
the run was admissible at some time since its acquire), `ClaimInv` (what a run has
claimed has a record, and so has what an execution job has launched, unless it vanished), and `FirstInv` (an
execution job past the check that still has its lease has no predecessor that launched
with the lease and whose record did not vanish).
Three lemmas speak of the pure parts: `KillSwitchIsSound` (no reasons means
`Admissible`), `ProvenanceIsSound` (`VALIDATED` means `Genuine`), and
`SeparatedIsInjective` (two pairs of texts without the separator that read the
same when joined are the same pairs), on which `LockIdFacts` rests.

- Leases may be lost by live runs anywhere, and no theorem assumes otherwise:
  `SubmittedOnceTheorem` is a theorem about the launches of runs that had their lease
  at the time. It says that among them only a power failure makes a second one.
  Of the others `run_twice` shows that nothing keeps them apart.
- `AdmissionInvariant`, `NeverTornTheorem`, `SubmittedOnceTheorem`,
  `LaunchedIsAdmissibleTheorem`, `OneLockTheorem`, and `FileTheorem`: the refinement
  of `DurableFile`, step by step. It adds `ArgInv` to the invariant (a write that is
  under way knows what it writes); a file that a power loss leaves is whole because
  of `SyncedInv`. They use the named assumptions of the
  modules: that what is loaded has the types pydantic gives it (`JobAssumption`;
  numbers are integers here where the code has finite floats), that
  installations are of the kinds `Provenance` knows (`InstallAssumption`), and
  that the record states and the separator exist (`ValueAssumption`,
  `SeparatorAssumption`). TLC evaluates them for the `admission` run.

**EventLog** (`EventLogProof`, any writers and worlds, no assumption: the
conditions are inside the properties). `SerialInv`: where no lock grows old, the
lock file names exactly the process in the section, and what `Seek` found is
still the end of the log when `Write` uses it. Exclusion does not survive a
stale lock (section 4).

- `SerialInvariant`, `SerializedTheorem`.
- `AcknowledgedTheorem`: its invariant `LineInv` counts the lines: one for each
  writer past its write without an exception, none for one before it; and every torn
  record belongs to a call that raised. That a write goes to the end of the log
  comes from `oappend` or from `SerialInv`.

**Only model-checked.** Liveness (`CallsReturn`, `DeadOwnerIsReplaced`, `RunsEnd`,
`SilenceIsNoticed`, `AppendsReturn`, `RunEnds`), which is out of the prover's
reach, and the violations. Every safety property of a passing run has a theorem.

## 6. Not modelled

- *Redaction.* Regular expressions over text; inside `_drain` it is taken as keeping
  the length of the output, and the lookahead it needs is the constant `Lookahead`.
- *`retry_action`*: a table for consumers that nothing in the package calls.
- *Process groups of others.* `killpg` may be refused (`PermissionError`), and the
  number of a group whose leader is gone may be reused by a stranger; both need
  the process table of the whole machine.
- *Heartbeats in `Admission`.* The supervision and its artifacts are `RunJob`'s.
- *Source trees.* `_source_identity` is reached from the command line alone.
- *`HttpJobConfigSource`* (a read of an HTTPS response that the package does not
  call), and *`is_overdue`*, which `assess` does not use.
- *Field patterns and lengths*, NUL bytes and number ranges of the configuration:
  tests of one value each.
- *Clock steps.* `time.time` against mtimes is taken as one monotonic age.
- *Observability, repository scripts*: formatting, I/O and release tooling without
  shared state.

## 7. Plan

Done: all the modules of section 2, their runs, and a theorem for each safety
property the runs check.

What could follow:

1. A composition of `RunJob` with `EventLog`, where a run waits for another's
   append lock between its terminal artifacts.
2. An abstract tree under `Supervision`, with the descendants of a command, so that
   `TreeIsKilled` becomes part of what `RunJob` may rely on.
3. Clock steps: a `time.time` that jumps between the touch of `run.lock` and
   its inspection, and what of `LeaseEndsLawfully` is left then.
4. Reading the package while it is being replaced: `collect_provenance` hashes
   file after file, and an upgrade may run between two of them.
