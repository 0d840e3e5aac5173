SPECIFICATION StoreSpec
CONSTANTS
  Clients = {c1, c2}
  Keys = {k1, k2, k3, k4, k5}
  Goals <- States
  MaxVersion = 5
  c1 = c1
  c2 = c2
  k1 = k1
  k2 = k2
  k3 = k3
  k4 = k4
  k5 = k5
SYMMETRY Symmetry
INVARIANTS
  TrailKept
  ReplayIsStable
PROPERTIES
  DecidedOnCurrentRow
CHECK_DEADLOCK FALSE
