SPECIFICATION FairLoopSpec
CONSTANTS
  MaxWorkers = 2
  BarThreads <- MCThreads
  Tids <- MCThreads
  Indices <- MCIndices
  Loops <- MCLoops
  TeamMayChange = FALSE
  MaxLoops = 2
INVARIANT NoTaskIsStranded
PROPERTIES ImplementsLoop EveryLoopReturns
CHECK_DEADLOCK FALSE
