SPECIFICATION RecordsSpec
CONSTANTS
  w1 = w1
  w2 = w2
  x = x
  y = y
  ai = ai
  a = a
  none = none
  state = state
  doc = doc
  sheet = sheet
  forker = forker
  Workers = {w1, w2}
  Rows = {x, y}
  Known = {x}
  Default = ai
  Nothing = none
  Answers = {ai, a}
  Cap = 1
  MaxEdits = 3
  MaxFaults = 1
  Requests = {w1, w2}
  NameOf <- OwnName
  Files = {state, doc, sheet}
  State = state
  Pool = 2
  Every = 2
  MaxAttempts = 2
  MaxCloneFaults = 2
  Forkers = {forker}
  Decisions = {x, y}
  PhaseOf <- InOrder
  Phases = {1, 2}
  MaxRuns = 3
  MaxForkFaults = 1
  Skills <- TheSkills
  SkillPhase <- SkillPhases
  Keys <- TheKeys
  KeyPhase <- KeyPhases
  WriterOf <- Writers
  Mapped <- Attributed
  Agent <- TheAgent
  MaxForkEvents = 2
SYMMETRY TwoWorkers
INVARIANT DoneIsWhole
 
INVARIANT ForksClaimWhatIsThere
PROPERTY KeepsAnswers
CHECK_DEADLOCK FALSE
