SPECIFICATION SnapSpec
CONSTANTS
  w0 = w0
  w1 = w1
  w2 = w2
  page = page
  ann = ann
  run = run
  other = other
  row = row
  Workers = {w0}
  Asks <- Everything
  MaxRuns = 2
  MaxFleetRuns = 1
  MaxChanges = 2
  MaxFaults = 1
  FeedFails = FALSE
  Evictions = FALSE
  CrashAt = {}
  ParentReports <- Reported
SYMMETRY Fleet
INVARIANT ServesCurrent
INVARIANT StaleIsPending
INVARIANT RunsStayListed
INVARIANT FleetSkipsNothing
INVARIANT CommentsHold
CHECK_DEADLOCK FALSE
