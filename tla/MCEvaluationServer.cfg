SPECIFICATION ServerSpec
CONSTANTS
  Servers = {s1, s2}
  NoServer = NoServer
INVARIANTS
  ServersKept
  
PROPERTIES
  ChangesAreReported
  EveryServerStops
CHECK_DEADLOCK FALSE
