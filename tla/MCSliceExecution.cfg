\* Two executors of one workflow, displaced or dead at any point.
CONSTANTS
  w1 = w1
  e1 = e1
  e2 = e2
  Nobody = Nobody
  Workflows <- OneWorkflow
  Executors <- TwoExecutors
  RunsFor <- SameWorkflow
  Slices <- TwoSlices
  Depends <- Chain
  Late = TRUE
  Aborts = TRUE
  Edits = TRUE
SPECIFICATION Spec
SYMMETRY Alike
INVARIANTS
  SlicesKept
  PatchedOnBasis
PROPERTIES
  KeepsPromise
CHECK_DEADLOCK FALSE
