SPECIFICATION FairSpec
CONSTANTS
  s1 = s1
  s2 = s2
  s3 = s3
  c1 = c1
  c2 = c2
  reaper = reaper
  none = none
  Sessions <- ThreeSessions
  Callers <- TwoCalls
  Reaper = reaper
  None = none
  Cap = 1
  MaxCalls = 3
  MaxFaults = 1
CHECK_DEADLOCK FALSE
 
INVARIANT PoolBounded
PROPERTY TurnKeepsProcess
PROPERTY EveryCallEnds
