SPECIFICATION FairSpec
CONSTANTS
  Search = {s1, s2}
  MaxResets = 1
INVARIANTS PairedOnceAlive
PROPERTIES SearchPaired GoneReleased
CHECK_DEADLOCK FALSE
