CONSTANTS
  number_of_workers = 2
  inbufferentries = 1
  NPhotos = 3
  EOS = EOS
SPECIFICATION FairSpec
INVARIANTS OneOwner EOSComesLast ServiceTimeRecorded
           SelectWorkerReturns ResetIsHarmless
PROPERTIES ImplementsBatch Termination
