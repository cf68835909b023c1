CONSTANTS
  number_of_workers = 2
  inbufferentries = 1
  NPhotos = 2
  Heights = {1, 2, 3}
  EOS = EOS
SPECIFICATION FairSpec
INVARIANTS NoRowIsShared DoneMeansMarked
PROPERTIES ImplementsBatch Termination
