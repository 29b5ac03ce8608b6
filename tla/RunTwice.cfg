SPECIFICATION Spec
CONSTANTS
  a = a
  b = b
  c = c
  k = k
  m = m
  j = j
  Run = {a, b}
  Lock = {k}
  Job = {j}
  LockOf <- OneLock
  JobOf <- OneJob
  Capital = {a, b}
  Keyed = {k}
  Unkillable = {}
  Contained = TRUE
  Stalls <- BeforeLaunch
  Mapped = {"SUCCEEDED", "FAILED"}
  ReadFaults = FALSE
INVARIANT SingleSubmission
\* Every run ends or dies: the system stops.
CHECK_DEADLOCK FALSE
