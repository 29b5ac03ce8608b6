SPECIFICATION FairSpec
CONSTANTS
  a = a
  b = b
  c = c
  Run = {a, b}
  TTL <- MCTTL
  MaxAge = 2
  Windows = TRUE
  Denied = {b}
  ReadFaults = FALSE
PROPERTY CallsReturn
PROPERTY DeadOwnerIsReplaced
\* Every process may end: the system may stop.
CHECK_DEADLOCK FALSE
