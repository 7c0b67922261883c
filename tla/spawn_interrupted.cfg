SPECIFICATION PreemptSpec
CONSTANTS
  MaxThreadNum = 3
  Usage <- AnyUsage
  Clients <- Spawners
  MaxHandlers = 1
  InitArgs = {1}
  SleepArgs = {1}
  IntMax = 15
  MaxQuantums = 6
PROPERTIES SpawnIsFresh
CHECK_DEADLOCK FALSE
