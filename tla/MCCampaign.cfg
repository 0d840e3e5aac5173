SPECIFICATION Spec
CONSTANTS
    Blocks <- TwoBlocks
    MaxStarts = 3
    MaxMishaps = 2
INVARIANTS
  CampaignKept
PROPERTIES
  
  PaidOnce
CHECK_DEADLOCK FALSE
