SPECIFICATION FairSpec
CONSTANTS
  RetryCount = 3
  Bauds <- AllBauds
  MaxFaults = 4
INVARIANTS
  OneActivity
  FoundMeansProgrammed
  FailsOnlyAfterFaults
PROPERTIES
  Ends
CHECK_DEADLOCK FALSE
