SPECIFICATION PreemptSpec
CONSTANTS
  MaxThreadNum = 3
  Usage <- AnyUsage
  Clients <- EndedSleepers
  MaxHandlers = 1
  InitArgs = {1}
  SleepArgs = {1}
  IntMax = 15
  MaxQuantums = 6
INVARIANTS DeletedIsForgotten
CHECK_DEADLOCK FALSE
