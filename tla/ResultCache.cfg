CONSTANTS
  Proc = {p1, p2}
  Filter <- MCFilter
  Fetcher = "fetch"
  Key = {"data", "a", "b"}
  In <- MCIn
  Out <- MCOut
  Omit <- MCOmit
  OutVal <- MCOutVal
  Score <- MCScore
  Absent <- MCAbsent
  Spoilt <- MCSpoilt
  Stacks <- MCStacks
  Thresholds <- MCThresholds
  MaxEvals = 3
  MaxEvict = 1
SPECIFICATION Spec
SYMMETRY Symmetry
INVARIANTS
  DecisionRight
PROPERTY ReplayExact
CHECK_DEADLOCK FALSE
