CONSTANTS
  Worker = {w1, w2}
  ScopeSize = 2
  QueueMax = 1
  MaxUnknown = 0
  MaxSignals = 0
SPECIFICATION FairSpec
PROPERTIES
  SearchEnds
  
CHECK_DEADLOCK FALSE
