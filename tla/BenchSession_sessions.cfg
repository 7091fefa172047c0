SPECIFICATION Spec
CONSTANTS
  Scripts = {1, 2, 3, 4}
  Mode <- AllModes
  Experiment <- OwnIds
  ValidIds = {1, 2, 3}
  Warmup <- OnlyProbesWarm
  Repeat <- ReuseTwo
  MaxFaults = 1
CHECK_DEADLOCK FALSE
INVARIANTS TypeOK OwnTimings SamplesComplete
