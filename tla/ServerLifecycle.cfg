SPECIFICATION FairSpec
CONSTANTS
  Reqs = {r1, r2, r3}
  None = None
CHECK_DEADLOCK FALSE
INVARIANTS TypeOK CleanExitCutsNothing CutOnlyAtDeadline
PROPERTY ShutsDown
