SPECIFICATION FairSpec
CONSTANTS
  p = p
  d = d
  e = e
  Proc = {p, d}
  Leader = p
  Stubborn = {}
  Limit = 1
  Lookahead = 0
  PipeSize = 1
  MaxOutput = 1
PROPERTY CleanupEnds
\* The run ends, and the processes with it: the system stops.
CHECK_DEADLOCK FALSE
