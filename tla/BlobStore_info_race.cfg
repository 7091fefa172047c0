SPECIFICATION Spec
CONSTANTS
  Workers = {w1, w2}
  Names <- OneName
  Bodies <- TwoBodies
  MaxBytes = 2
  MaxWrites = 2
  MaxFaults = 0
  MaxCrashes = 0
INVARIANT InfoDescribesFile
