SPECIFICATION FairSpec
CONSTANTS
  NW = 2
  MaxRuns = 4
  Asserts = TRUE
  WaitsAtOnce = FALSE
  BarThreads <- MCThreads
  Tids <- MCThreads
INVARIANTS StartTogether AllAtRest
PROPERTY CallsReturn
CHECK_DEADLOCK FALSE
