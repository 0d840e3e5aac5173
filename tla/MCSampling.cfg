SPECIFICATION MCSpec
CONSTANTS
    MaxCount = 5
    Prices <- MCPrices
    Requests <- MCRequests
    Catalog <- MCCatalog
    Bundles <- MCBundles
    Launchers <- MCLaunchers
    Traces <- MCTraces
    MaxEntries = 2
    MaxMishaps = 2
    Asks <- MCAsks
    Movable = {"bundles", "plugin", "evaluator"}
    TokenCounts <- MCTokenCounts
    Lengths = {3, 5}
    Delays = {7, 25}
    MaxOddities = 2
INVARIANTS
  SamplesKept
  CanaryKept

  
CHECK_DEADLOCK FALSE
