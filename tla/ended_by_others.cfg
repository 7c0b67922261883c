SPECIFICATION Spec
CONSTANTS
  MaxThreadNum = 3
  Usage <- EndedByOthers
  InitArgs = {1}
  SleepArgs = {1, 2}
  IntMax = 15
  MaxQuantums = 7
INVARIANTS NeverCrashes DeletedIsForgotten QueueNamesReady
CHECK_DEADLOCK FALSE
