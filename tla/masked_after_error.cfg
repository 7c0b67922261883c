SPECIFICATION FairSpec
CONSTANTS
  MaxThreadNum = 3
  Usage = {"spawn", "get_quantums_unknown"}
  InitArgs = {1}
  SleepArgs = {1}
  IntMax = 15
  MaxQuantums = 4
PROPERTY QuantaProgress
CHECK_DEADLOCK FALSE
