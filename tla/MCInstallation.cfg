SPECIFICATION Spec
CONSTANTS
  p1 = p1
  m1 = m1
  Installers <- OneInstaller
  Versions <- TwoVersions
  Skills <- TwoSkills
  Assets <- OneAsset
  Ships <- ShipsIn
  Nested <- NestedAsset
  Servers <- OneServer
  SnapshotCap = 1
  MaxInstalls = 2
  MaxEdits = 2
INVARIANTS
  
  UserFilesSurvive
  
CHECK_DEADLOCK FALSE
