\* Two !cron commands at a time; nothing fails and nobody edits the file.
SPECIFICATION Spec
CONSTANTS
  Jobs = {j1, j2}
  Strangers = {s}
  Workers = {w1, w2}
  Free = Free
  MaxCommands = 2
  MaxEdits = 0
  MaxFaults = 0
  MaxStarts = 1
INVARIANT AcksHold
CHECK_DEADLOCK FALSE
