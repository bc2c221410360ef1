\* Three days of one coin on two exchanges; a sync request or backfill beside
\* the boot and the nightly goroutine; one failure or death.  The indicators have
\* short periods, in the order of the code's.
CONSTANTS
  Coins <- MCCoins
  Others <- MCOthers
  Limit <- MCLimit
  Clients = {c1}
  FirstTime = 2
  LastTime = 6
  MaxRequests = 1
  MaxFaults = 1
  Averages = {2, 3}
  Emas = {2, 3}
  Fast = 2
  Slow = 3
  Signal = 2
  RsiPeriod = 2
  AdxPeriod = 2
  Band = 3
  Ranges = {2}
  Hours = {2, 3}
  Window = 6
  FirstClose = 100
  MovesTried <- MCMoves
  Longest = 7
  Day = 8
  Korea = 3
  Fixed = {1, 2}
  DefaultAge = 2
  Oldest = 4
SPECIFICATION Spec
INVARIANTS TypeOK SettledForGood LiveMatchesStored RowsStay ReturnsCoverLife
PROPERTY NightRepairs
CHECK_DEADLOCK FALSE
