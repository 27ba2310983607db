CONSTANTS
  Worker = {w1, w2}
  Sig = {s1}
  Runner = w1
  FilterSig = s1
  PipeMax = 1
  MaxEvals = 2
SPECIFICATION FairSpec
INVARIANTS
  Catalogued
  CommandsOfCurrent
  RepliesMatch
PROPERTIES
  DeathNoticed
CHECK_DEADLOCK FALSE
