SPECIFICATION Spec
CONSTANTS
  a = a
  b = b
  c = c
  k = k
  m = m
  j = j
  Run = {a, b, c}
  Lock = {k}
  Job = {j}
  LockOf <- OneLock
  JobOf <- OneJob
  Capital = {a, b, c}
  Keyed = {k}
  Unkillable = {}
  Contained = FALSE
  Stalls <- AfterLaunch
  Mapped = {"SUCCEEDED", "FAILED", "WAITING"}
  ReadFaults = TRUE
SYMMETRY Symmetry
INVARIANT RunInv
INVARIANT SingleSubmission
PROPERTY AttemptIsHeld
PROPERTY ImplementsOperation
\* Every run ends or dies: the system stops.
CHECK_DEADLOCK FALSE
