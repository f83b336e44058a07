SPECIFICATION OverlapsSpec
CONSTANTS
  own = own
  oth = oth
  nob = nob
  r1 = r1
  r2 = r2
  People <- MCPeople
  Owner = own
  Nobody = nob
  Requests <- Two
  MaxTurns = 2
  MaxFaults = 1
  StopFails = TRUE
  Workers <- Two
  MaxLocal = 1
  MaxCostTurns = 2
  MaxBytes = 1
  MaxExtras = 1
  CachedCommand = FALSE
  page = page
  run = run
  row = row
  Writers <- Two
  Readers = {page}
  Reviewers = {own}
  SlugOf <- OwnSlug
  Runs = {run}
  Decisions = {row}
  MaxPerRecord = 2
  MaxPerRun = 2
  MaxComments = 2
  MaxCommentFaults = 0
SYMMETRY Interchangeable
INVARIANT NoBorrowedSession
INVARIANT CostIsWhole
INVARIANT CommentsHold
CHECK_DEADLOCK FALSE
