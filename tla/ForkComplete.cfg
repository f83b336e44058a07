SPECIFICATION PhasesSpec
CONSTANTS
  forker = forker
  Forkers = {forker}
  Skills <- TheSkills
  Phases <- ThePhases
  SkillPhase <- SkillPhases
  Keys <- TheKeys
  KeyPhase <- KeyPhases
  WriterOf <- Writers
  Mapped <- Attributed
  Agent <- TheAgent
  MaxForkEvents = 2
CHECK_DEADLOCK FALSE
INVARIANT CompleteMeansDone
