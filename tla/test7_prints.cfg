SPECIFICATION TestSpec
CONSTANTS
  MaxThreadNum = 3
  Usage <- AnyUsage
  InitArgs = {1}
  SleepArgs = {1}
  IntMax = 63
  MaxQuantums = 60
  Names = {"test7"}
INVARIANT PrintsExpected
CHECK_DEADLOCK FALSE
