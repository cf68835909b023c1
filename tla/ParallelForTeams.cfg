SPECIFICATION FairLoopSpec
CONSTANTS
  MaxWorkers = 3
  BarThreads <- MCThreads
  Tids <- MCThreads
  Indices <- MCIndices
  Loops <- MCTeams
  TeamMayChange = TRUE
  MaxLoops = 2
PROPERTY EveryLoopReturns
CHECK_DEADLOCK FALSE
