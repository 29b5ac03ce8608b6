SPECIFICATION FairSpec
CONSTANTS
  u = u
  v = v
  Writer = {u, v}
  Worlds <- World
INVARIANT SerialInv
INVARIANT Serialized
INVARIANT AcknowledgedIsOneLine
PROPERTY AppendsReturn
\* Every call ends: the system stops.
CHECK_DEADLOCK FALSE
