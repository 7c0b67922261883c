SPECIFICATION TestSpec
CONSTANTS
  MaxThreadNum = 3
  Usage <- AnyUsage
  InitArgs = {1}
  SleepArgs = {1}
  IntMax = 63
  MaxQuantums = 60
  Names = {"test1"}
INVARIANT NeverCrashes
CHECK_DEADLOCK FALSE
