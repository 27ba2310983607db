SPECIFICATION Spec
SYMMETRY Symmetry
CONSTANTS
  Proc = {p1, p2}
  Absent = Absent
  Lifetime = 4
  PruneInterval = 3
  MaxOp = 1
  MaxTime = 7
  MaxAborts = 1
INVARIANTS RecentlyUsedKept AccessedBlobOpens
PROPERTIES OnlyExpiredDeleted
CHECK_DEADLOCK FALSE
