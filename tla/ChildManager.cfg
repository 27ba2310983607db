SPECIFICATION ManagerFairSpec
CONSTANTS
  Child = {k1, k2}
  NoChild = NoChild
  MaxSignals = 2
  MaxNest = 2
INVARIANTS DirectoriesKnown
PROPERTIES RunningUndisturbed ExitedCleaned ExitKillsRegistered
CHECK_DEADLOCK FALSE
