SPECIFICATION Spec
CONSTANTS
  a = a
  b = b
  c = c
  k = k
  m = m
  j = j
  Run = {a, b}
  Lock = {k}
  Job = {j}
  LockOf <- OneLock
  JobOf <- OneJob
  Capital = {}
  Keyed = {k}
  Unkillable = {}
  Contained = TRUE
  Stalls <- Nowhere
  Mapped = {"SUCCEEDED", "FAILED"}
  ReadFaults = TRUE
PROPERTY SucceededIsFinal
\* Every run ends or dies: the system stops.
CHECK_DEADLOCK FALSE
