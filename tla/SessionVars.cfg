SPECIFICATION MergeSpec
CONSTANTS
  Server = {s1, s2, s3}
  MaxDelta = 2
  MaxUpdates = 3
INVARIANTS CountedOnce SeesOwnAndHeard
