------------------------------- MODULE Config -------------------------------
(***************************************************************************)
(* What models.py, config.py and operations.py accept of a jobs file, and  *)
(* the lock id they derive.  An optional field is a set of at most one     *)
(* value.                                                                  *)
(***************************************************************************)
EXTENDS Integers, Sequences

CONSTANTS
  Character,
  Separator     \* "\x1f"

ASSUME SeparatorAssumption == Separator \in Character

The(option) == CHOOSE x \in option : TRUE

-----------------------------------------------------------------------------
(* EconomicJobKey: two of the parts (domain, event_id, ...), as sequences of
   characters; logical_time is a wall clock time and the offset of its time zone.
   Mutant: the separator may occur in a part. *)
AnyIdentity(key) == TRUE

IdentityHasNoSeparator(key) ==
  \A i \in 1..Len(key.parts) : \A c \in 1..Len(key.parts[i]) : key.parts[i][c] # Separator

LogicalTimeIsAware(key) == key.zone # {}

(* Mutant: the time is taken as written. *)
WallClock(key) == key.time

Instant(key) == key.time - The(key.zone)       \* astimezone(UTC)

Canonical(key) == <<key.parts[1] \o <<Separator>> \o key.parts[2], Instant(key)>>

ValidKey(key) == IdentityHasNoSeparator(key) /\ LogicalTimeIsAware(key)

(* A job id is any text, and may be the text of an economic lock id. *)
Economic(canonical) == <<"economic-", canonical>>
EconomicLockId(job) ==
  IF job.economic_key = {} THEN job.id ELSE Economic(Canonical(The(job.economic_key)))

-----------------------------------------------------------------------------
(* Mutant: only one of the two directions is checked. *)
CapitalPermissionIsOptional(job) == job.capital_permission => job.job_type = {"EXECUTION"}

CapitalPermissionIsIsolated(job) == job.capital_permission <=> job.job_type = {"EXECUTION"}

ValidJob(job) ==
  /\ CapitalPermissionIsIsolated(job)
  /\ \A key \in job.economic_key : ValidKey(key)

(* JobsFile.unique_ids, after the validation of its jobs. *)
ValidFile(f) ==
  LET Keyed == {i \in 1..Len(f.jobs) : f.jobs[i].economic_key # {}}
      Distinct(S, of(_)) == \A i, k \in S : of(i) = of(k) => i = k
  IN  /\ \A i \in 1..Len(f.jobs) : ValidJob(f.jobs[i])
      /\ Distinct(1..Len(f.jobs), LAMBDA i : f.jobs[i].id)
      /\ f.version = 2 =>
           \A i \in 1..Len(f.jobs) : f.jobs[i].job_type # {} /\ f.jobs[i].economic_key # {}
      /\ f.version \in {2, 3} =>
           Distinct(Keyed, LAMBDA i : Canonical(The(f.jobs[i].economic_key)))

(* load_job: the job of that id; a KeyError if there is none, and a
   ValidationError if the file is not valid. *)
Found(f, id) == {f.jobs[i] : i \in {k \in 1..Len(f.jobs) : f.jobs[k].id = id}}
LoadJob(f, id) == IF ValidFile(f) THEN Found(f, id) ELSE {}

=============================================================================
