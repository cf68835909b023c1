CONSTANTS
  w1 = w1
  w2 = w2
  EOS = EOS
  Workers <- MCWorkers
  NPhotos = 3
SPECIFICATION Spec
INVARIANT CounterIsAtomic
