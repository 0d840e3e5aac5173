SPECIFICATION Spec
CONSTANTS
  c1 = c1
  c2 = c2
  s1 = s1
  s2 = s2
  Commands <- TwoCommands
  Questions <- ThreeQuestions
  QuestionOf <- QuestionTable
  Requests <- FiveRequests
  Plans <- TwoPlans
  MaxVersions = 6
  Sessions <- TwoSessions
  HostOf <- OwnHosts
  Steady = s2
  ClaimExpiry = 4
  PresenceTTL = 2
  MaxJobs = 1
  MaxMishaps = 1
INVARIANTS
  PlanKept
  NoDoubleWake
PROPERTIES
  NoticesArrive
CHECK_DEADLOCK FALSE
