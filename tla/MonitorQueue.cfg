CONSTANTS
  p1 = p1
  p2 = p2
  c1 = c1
  c2 = c2
  image = image
  eos = eos
  nobody = nobody
  Producers <- MCProducers
  Consumers <- MCConsumers
  Items <- MCItems
  NoThread = nobody
  MaxPushes = 3
  MaxSpurious = 1
SPECIFICATION FairQueueSpec
INVARIANTS QueueTypeOK NoLostWakeup
PROPERTIES ImplementsFifo EveryPushIsPopped
\* Consumers that call pop() on a queue nobody fills any more wait for ever.
CHECK_DEADLOCK FALSE
