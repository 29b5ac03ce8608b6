----------------------------- MODULE KillSwitch -----------------------------
(***************************************************************************)
(* kill_switch_reasons (operations.py): why an execution job is not run,   *)
(* from the risk snapshot that came with it.  Optional fields are sets of  *)
(* at most one value, as in Config.                                        *)
(***************************************************************************)
EXTENDS Integers

CONSTANTS
  Measure,     \* daily_loss, drawdown, ...: numbers with a limit each
  Signed,      \* of them, those whose size counts (balance_difference)
  Flag         \* settlement_healthy, ..., no drift_detected

-----------------------------------------------------------------------------
Size(m, x) == IF m \in Signed /\ x < 0 THEN -x ELSE x

(* Mutant: a limit is passed only above it. *)
PastLimits(job, snapshot) ==
  {m \in Measure : \E limit \in job.kill_switch_limits[m] : Size(m, snapshot.value[m]) > limit}

Exceeded(job, snapshot) ==
  {m \in Measure : \E limit \in job.kill_switch_limits[m] : Size(m, snapshot.value[m]) >= limit}

FreshnessReasons(job, snapshot, now) ==
  IF snapshot.observed_at = {} \/ job.risk_max_age = {} THEN {"risk_freshness_missing"}
  ELSE {r \in {"risk_snapshot_from_future", "risk_snapshot_stale"} :
          \E t \in snapshot.observed_at, age \in job.risk_max_age :
            IF r = "risk_snapshot_stale" THEN now - t > age ELSE now - t < 0}

(* Mutant: fields that were not given count with their defaults. *)
NoneIncomplete(snapshot) == FALSE

Incomplete(snapshot) == ~(Measure \cup Flag \subseteq snapshot.fields_set)

SnapshotReasons(job, snapshot, now) ==
  FreshnessReasons(job, snapshot, now) \cup {r \in
    {"economic_key_missing", "risk_snapshot_incomplete", "risk_source_unverified",
     "risk_limits_incomplete", "limit", "flag"} :
       CASE r = "economic_key_missing" -> job.economic_key = {}
         [] r = "risk_snapshot_incomplete" -> Incomplete(snapshot)
         [] r = "risk_source_unverified" ->
              job.risk_source = {} \/ snapshot.source # job.risk_source
         [] r = "risk_limits_incomplete" -> \E m \in Measure : job.kill_switch_limits[m] = {}
         [] r = "limit" -> Exceeded(job, snapshot) # {}
         [] r = "flag" -> \E f \in Flag : ~snapshot.healthy[f]}

KillSwitchReasons(job, now) ==
  IF job.job_type # {"EXECUTION"} THEN {}
  ELSE IF job.risk_snapshot = {} THEN {"risk_snapshot_missing"}
  ELSE UNION {SnapshotReasons(job, s, now) : s \in job.risk_snapshot}

-----------------------------------------------------------------------------
(* What the documentation promises of an execution job that is run: each figure
   was reported, by the job's own source, recently, and is inside its limit. *)
Reported(job, s, now) ==
  /\ s.source = job.risk_source /\ s.source # {}
  /\ \E t \in s.observed_at, age \in job.risk_max_age : t <= now /\ now <= t + age
Inside(job, s, m) ==
  m \in s.fields_set /\ \E limit \in job.kill_switch_limits[m] :
    s.value[m] < limit /\ (m \in Signed => -limit < s.value[m])
Admissible(job, now) ==
  job.job_type = {"EXECUTION"} =>
    /\ job.economic_key # {}
    /\ \E s \in job.risk_snapshot :
         /\ Reported(job, s, now)
         /\ \A m \in Measure : Inside(job, s, m)
         /\ \A f \in Flag : f \in s.fields_set /\ s.healthy[f]

=============================================================================
