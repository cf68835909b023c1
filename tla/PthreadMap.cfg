CONSTANTS
  EOS = EOS
  number_workers = 2
  NPhotos = 2
  Heights = {1, 2, 3}
SPECIFICATION FairSpec
INVARIANTS OwnRowsOnly DoneMeansMarked PopAfterPollReturns ServiceTimeRecorded
PROPERTIES RowMarkedByItsOwner ImplementsBatch Termination
