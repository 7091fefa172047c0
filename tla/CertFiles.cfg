SPECIFICATION Spec
CONSTANTS
  MaxStarts = 5
CHECK_DEADLOCK FALSE
INVARIANTS TypeOK CASignsServed RestartsKeepTrust RefusedOnlyWhenHalf BundleTrustsServer
