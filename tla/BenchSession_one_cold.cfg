SPECIFICATION Spec
CONSTANTS
  Scripts = {1}
  Mode <- OneReuse
  Experiment <- OwnIds
  ValidIds = {1}
  Warmup <- Zero
  Repeat <- Three
  MaxFaults = 0
CHECK_DEADLOCK FALSE
INVARIANTS OneColdSample
