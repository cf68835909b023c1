SPECIFICATION RingSpec
CONSTANTS
  task = task
  eos = eos
  NULL = NULL
  Values <- MCValues
  Batches <- MCBatches
  Sizes = {1, 2, 3, 4}
  LineEnd = 2
  MaxPush = 7
INVARIANT HonestAnswers
PROPERTY ImplementsChannel
