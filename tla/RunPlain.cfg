SPECIFICATION FairSpec
CONSTANTS
  a = a
  b = b
  c = c
  k = k
  m = m
  j = j
  Run = {a, b}
  Lock = {k}
  Job = {j}
  LockOf <- OneLock
  JobOf <- OneJob
  Capital = {}
  Keyed = {k}
  Unkillable = {a}
  Contained = FALSE
  Stalls <- AfterRecord
  Mapped = {"SUCCEEDED", "FAILED"}
  ReadFaults = FALSE
PROPERTY SucceededIsFinal
INVARIANT OneSupervisedChild
PROPERTY RunsEnd
PROPERTY ImplementsOperation
PROPERTY ImplementsSupervision
\* Every run ends or dies: the system stops.
CHECK_DEADLOCK FALSE
