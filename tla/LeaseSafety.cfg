SPECIFICATION Spec
CONSTANTS
  a = a
  b = b
  c = c
  Run = {a, b, c}
  TTL <- MCTTL
  MaxAge = 2
  Windows = FALSE
  Denied = {b}
  ReadFaults = TRUE
SYMMETRY Symmetry
INVARIANT LeaseInv
INVARIANT ExclusiveHolding
PROPERTY LeaseEndsLawfully
PROPERTY RenewalProvesOwnership
PROPERTY ImplementsService
\* Every process may end: the system may stop.
CHECK_DEADLOCK FALSE
