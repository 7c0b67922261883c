SPECIFICATION MCFairSpec
CONSTANTS
  Second = 4
  InitArgs <- QuantumArgs
  MaxSection = 2
  MaxNested = 2
  MaxRan = 30
  MaxTurn = 5
  Bits = 4
  Rotation = 1
  Address <- Numbered
INVARIANTS TimerTypeOK TimerArmed QuantumIsBounded CutOnlyByStale EveryExpirySeen InOwnContext WaitsInYield
PROPERTIES NotCutTwice QuantaEnd KeepsGettingIt BothTurn
