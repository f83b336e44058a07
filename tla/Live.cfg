SPECIFICATION LiveSpec
CONSTANTS
  r1 = r1
  r2 = r2
  Requests = {r1}
  MaxTurns = 4
  MaxFaults = 5
  Clicks = FALSE
  MissedBeats = FALSE
  SetupFails = TRUE
  TailFails = TRUE
  Clickers = {r1, r2}
  MaxClickedTurns = 3
  MaxClickedFaults = 3
  c1 = c1
  c2 = c2
  ann = ann
  bob = bob
  home = home
  opp = opp
  Conns = {c1, c2}
  Users = {ann, bob}
  UserOf <- TwoUsers
  Pages = {home, opp}
  Tenants = {opp}
  MaxActs = 3
INVARIANT OneDriver
INVARIANT OlderTurnsAreOver
INVARIANT InterruptedMeansDead
INVARIANT NoGhosts
INVARIANT ScreensAgree
 
PROPERTY SettlesUnderClicks
PROPERTY SelfHeals
CHECK_DEADLOCK FALSE
