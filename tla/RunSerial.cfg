SPECIFICATION FairSpec
CONSTANTS
  own = own
  oth = oth
  nob = nob
  r1 = r1
  r2 = r2
  People <- MCPeople
  Owner = own
  Nobody = nob
  Requests <- Serial
  MaxTurns = 3
  MaxFaults = 1
  StopFails = FALSE
INVARIANT OneLiveTurn
INVARIANT VerdictMatchesTurn
PROPERTY SweepSparesLiveRuns
PROPERTY Settles
