SPECIFICATION TestFairSpec
CONSTANTS
  MaxThreadNum = 3
  Usage <- AnyUsage
  InitArgs = {1}
  SleepArgs = {1}
  IntMax = 63
  MaxQuantums = 60
  Names = {"do_not_run", "sanity", "test2", "test3", "test4", "test6", "two_threads"}
INVARIANT PrintsExpected
PROPERTY ProgramsExit
CHECK_DEADLOCK FALSE
