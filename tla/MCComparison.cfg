SPECIFICATION Spec
CONSTANTS
    Catalogs <- MCCatalogs
    Manifests <- MCManifests
    Chronic <- MCChronic
    MaxOddities = 2
INVARIANTS
  
  PromotionIsEarned
  VerdictsKept
CHECK_DEADLOCK FALSE
