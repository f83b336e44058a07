SPECIFICATION Spec
CONSTANTS
  s1 = s1
  s2 = s2
  s3 = s3
  c1 = c1
  c2 = c2
  reaper = reaper
  none = none
  Sessions <- TwoSessions
  Callers <- OneCall
  Reaper = reaper
  None = none
  Cap = 1
  MaxCalls = 2
  MaxFaults = 1
CHECK_DEADLOCK FALSE
INVARIANT CutIsAnError
