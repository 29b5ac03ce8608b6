SPECIFICATION FairSpec
CONSTANTS
  p = p
  d = d
  e = e
  Proc = {p, d, e}
  Leader = p
  Stubborn = {d}
  Limit = 1
  Lookahead = 0
  PipeSize = 2
  MaxOutput = 3
INVARIANT TreeInv
INVARIANT TreeIsKilled
INVARIANT ChildIsReaped
INVARIANT RunsInJob
INVARIANT OutputIsHonest
PROPERTY ImplementsSupervision
PROPERTY RunEnds
\* The run ends, and the processes with it: the system stops.
CHECK_DEADLOCK FALSE
