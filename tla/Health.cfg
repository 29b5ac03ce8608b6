SPECIFICATION HealthFairSpec
CONSTANTS
  a = a
  c = c
  k = k
  m = m
  j = j
  Run = {a, c}
  Lock = {k, m}
  Job = {j}
  LockOf <- TwoLocks
  JobOf <- OneJob
  Capital = {a}
  Keyed = {k}
  Unkillable = {c}
  Contained = TRUE
  Stalls <- Supervising
  Mapped = {"SUCCEEDED", "FAILED", "WAITING"}
  ReadFaults = TRUE
  ByDefault = {a}
INVARIANT ReturnedIsRecorded
INVARIANT HealthIsEarned
PROPERTY SilenceIsNoticed
\* Every run ends or dies: the system stops.
CHECK_DEADLOCK FALSE
