SPECIFICATION FairSpec
CONSTANTS
  Jobs = {j1, j2}
  Strangers = {s}
  Workers = {w1, w2}
  Free = Free
  MaxCommands = 2
  MaxEdits = 1
  MaxFaults = 1
  MaxStarts = 2
INVARIANTS TypeOK AcksHoldInTurn EditsKept TornOnlyWhileWriting TriggerFindsLatest
PROPERTY CommandsAnswered
CHECK_DEADLOCK FALSE
