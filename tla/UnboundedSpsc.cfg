SPECIFICATION FairSpec
CONSTANTS
  NoNode = 0
  NoBuffer = 0
  Nodes <- MCNodes
  Buffers <- MCBuffers
  Sizes = {1, 2}
  FixedSizes = {TRUE, FALSE}
  CacheSize = 1
  PoolSize = 1
  MaxPush = 6
INVARIANTS RecycledIsUnused HonestEmpty
PROPERTIES ImplementsChannel EveryValueIsPopped
