SPECIFICATION Spec
CONSTANTS
  Conn = {c1, c2}
  MaxObjects = 1
  MaxFaults = 1
  MaxRequests = 2
INVARIANTS KeyGood OneRequest CompleteMeansAll
PROPERTIES SearchCompletes ServersReleased
CHECK_DEADLOCK FALSE
