SPECIFICATION PreemptFairSpec
CONSTANTS
  MaxThreadNum = 3
  Usage <- AnyUsage
  Clients <- Disciplined
  MaxHandlers = 2
  InitArgs = {1}
  SleepArgs = {1}
  IntMax = 15
  MaxQuantums = 5
INVARIANTS DeletedIsForgotten NeverCrashes TerminateNeverReturns PurgedStaysOut NoThreadMislaid
PROPERTIES RoundRobinPreempted QuantumIsCharged QuantaProgress
CHECK_DEADLOCK FALSE
