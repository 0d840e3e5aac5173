SPECIFICATION Spec
CONSTANTS
  p1 = p1
  p2 = p2
  k1 = k1
  k2 = k2
  Procs <- TwoProcs
  RetryKeys <- OneKey
  ReplanKeys <- TwoKeys
  ResumeKeys <- OneKey
  MaxEdits = 1
  MaxFailures = 1
  FailVersions = {3, 5, 6}
  MaxVersion = 7
SYMMETRY Alike
INVARIANTS
  RevisionsKept
  BlockedHasBasis
  ReplannedCanStart
PROPERTIES
  ResultsAreKept
CHECK_DEADLOCK FALSE
