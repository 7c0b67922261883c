SPECIFICATION Spec
CONSTANTS
  MaxThreadNum = 3
  Usage = {"spawn", "terminate_self", "terminate_other"}
  InitArgs = {1}
  SleepArgs = {1}
  IntMax = 15
  MaxQuantums = 7
PROPERTY OnlyTerminatedDisappear
CHECK_DEADLOCK FALSE
