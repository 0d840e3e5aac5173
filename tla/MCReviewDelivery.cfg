SPECIFICATION Spec
CONSTANTS
  r1 = r1
  d1 = d1
  d2 = d2
  k1 = k1
  Reviewers <- OneReviewer
  Deliverers <- TwoDeliverers
  Keys <- OneKey
  Floor = "medium"
  Answers <- LowOrHigh
  Approvable <- Both
  Lenses <- OneLens
  MaxCandidates = 2
  MaxCommits = 2
  MaxForeign = 1
SYMMETRY Alike
INVARIANTS
  ReviewsKept
  HighRiskIsApproved
PROPERTIES
  ForeignCommitsSurvive
CHECK_DEADLOCK FALSE
