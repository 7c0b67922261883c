SPECIFICATION PreemptSpec
CONSTANTS
  MaxThreadNum = 3
  Usage <- AnyUsage
  Clients <- Unrestricted
  MaxHandlers = 1
  InitArgs = {1}
  SleepArgs = {1}
  IntMax = 15
  MaxQuantums = 4
INVARIANTS PreemptTypeOK MainNeverLost OneRunningOutsideHandlers PendingNeverRuns
PROPERTIES TurnsAreTaken
CHECK_DEADLOCK FALSE
