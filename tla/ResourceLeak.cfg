CONSTANTS
  Worker = {w1, w2}
  Sig = {s1}
  Runner = w1
  FilterSig = s1
  PipeMax = 1
  MaxEvals = 1
SPECIFICATION Spec
INVARIANT CleanedUp
CHECK_DEADLOCK FALSE
