\* A launcher, its worker, a foreground run and the kill switch contend.
CONSTANTS
  l1 = l1
  f1 = f1
  None = None
  Launchers <- OneLauncher
  Foreground <- OneForeground
  MaxJobs = 1
  MaxAttempts = 2
  MaxAborts = 1
SPECIFICATION FairSpec
INVARIANTS
  JobsKept
  
PROPERTIES
  AbortIsFinal
  EveryJobEnds
CHECK_DEADLOCK FALSE
