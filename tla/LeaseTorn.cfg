SPECIFICATION Spec
CONSTANTS
  a = a
  b = b
  c = c
  Run = {a, b}
  TTL <- MCTTL
  MaxAge = 2
  Windows = FALSE
  Denied = {}
  ReadFaults = FALSE
PROPERTY StaleIsRecovered
\* Every process may end: the system may stop.
CHECK_DEADLOCK FALSE
