SPECIFICATION LoopSpec
CONSTANTS
  MaxWorkers = 2
  BarThreads <- MCThreads
  Tids <- MCThreads
  Indices <- MCStridedIndices
  Loops <- MCStrided
  TeamMayChange = FALSE
  MaxLoops = 1
INVARIANT OnlyItsIterations
CHECK_DEADLOCK FALSE
