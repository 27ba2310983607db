CONSTANTS
  Worker = {w1, w2}
  ScopeSize = 2
  QueueMax = 1
  MaxUnknown = 1
  MaxSignals = 1
SPECIFICATION Spec
SYMMETRY Symmetry
INVARIANTS
  EndMeansAll
  SentOnce
  OneAnswerPerCall
  Accounting
CHECK_DEADLOCK FALSE
PROPERTY Delivery
