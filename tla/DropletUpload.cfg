\* Two pieces of file: the copy may fail or be cut off before, between and after them.
CONSTANT Size = 2
SPECIFICATION FairSpec
INVARIANTS TypeOK SuccessMeansDeployed FileOutlivesWriter
PROPERTIES StartedUploadReturns MeetsContract
CHECK_DEADLOCK FALSE
