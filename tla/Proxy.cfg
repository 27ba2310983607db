SPECIFICATION Spec
CONSTANTS
  Conn = {c1, c2}
  Found <- MCFound
  Example = {e1, e2}
  MaxModels = 3
  MaxExamples = 3
INVARIANTS LatestFeature Accounted
PROPERTIES ObjectArrives
CHECK_DEADLOCK FALSE
