SPECIFICATION Spec
CONSTANTS
  Workers = {w1, w2}
  Definition <- MCDefinition
  Answers <- MCAnswers
  MaxRecent = 1
  MaxLen = 3
  HoursADay = 2
  FirstHour = 1
  LastHour = 2
  MaxTurns = 3
  MaxRuns = 1
  MaxFaults = 1
SYMMETRY Symmetry
INVARIANTS
  TypeOK
  MemoryInTurn
  DailyHasAll
  AnswersWhole
  JobsSpeakInTime
CHECK_DEADLOCK FALSE
