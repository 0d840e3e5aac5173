CONSTANTS
    Children = {"child"}
    Delegates <- MCDelegates
    Foreigners = {"foreign"}
    Modes = {"plain", "managed"}
    AutonomousTurns = 1
    Answers <- MCAnswers
    MaxJobs = 1
    StablePasses = 2
    MaxPasses = 2
    MaxMishaps = 1
SPECIFICATION RunSpec
CHECK_DEADLOCK FALSE
INVARIANTS
  RunKept
  AcceptedTraceIsFinal
PROPERTIES
  AcceptedWorkflowIsSettled
  EveryRunReturns
