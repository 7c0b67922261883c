SPECIFICATION Spec
CONSTANTS
  MaxThreadNum = 3
  Usage <- AnyUsage
  InitArgs = {0, 1}
  SleepArgs = {0, 1, 2, 15}
  IntMax = 15
  MaxQuantums = 6
INVARIANTS TypeOK MainNeverLost OneRunning BlockedIsNotQueued NoThreadLost PendingNeverRuns
PROPERTIES RoundRobin TickWakesSleepers BlockLasts QuantumIsCharged TurnsAreTaken
CHECK_DEADLOCK FALSE
