CONSTANT Size = 1
SPECIFICATION FairSpec
PROPERTY ErrorIsReturned
CHECK_DEADLOCK FALSE
