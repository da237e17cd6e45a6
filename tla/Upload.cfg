CONSTANTS
  Parts = 3
  Workers = 3
  Extra = 1
  MaxTries = 1
  MaxWaits = 1
  FloodsToTwo = 1
  FloodsToOne = 2
  MinStep = 1
  MaxFloods = 2
  MaxCancels = 1

SPECIFICATION FairSpec

INVARIANTS
  TypeOK
  NothingOutlivesUpload
  ProgressIsReal
  

PROPERTIES
  Delivers
  UploadEnds
