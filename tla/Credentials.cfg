SPECIFICATION CredSpec
CONSTANTS
  w1 = w1
  w2 = w2
  w3 = w3
  t1 = t1
  t2 = t2
  t3 = t3
  t4 = t4
  t5 = t5
  NoToken = NoToken
  Free = Free
  Tasks <- Three
  Tokens <- Some
  Rotates <- Either
  RedisFails = FALSE
  FailAt <- NotStoring
  StallsAt <- Releasing
  v1 = v1
  v2 = v2
  c1 = c1
  r1 = r1
  r2 = r2
  MaxBlobs = 3
  MaxUploads = 1
SYMMETRY SameWorkers
INVARIANT NoneBurned
INVARIANT StoredIsLive
INVARIANT RefreshesWhatIsStale
 
INVARIANT VerdictsAreTheirs
PROPERTY OnlyHolderReleasesInFailure
CHECK_DEADLOCK FALSE
