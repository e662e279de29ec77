SPECIFICATION FairSpec
CONSTANTS
  MaxTimeoutCount = 1
  MaxErrorCount = 1
  Meters <- MisconfiguredMeters
  UserModes = {"multi", "single"}
  StaleReplies = FALSE
PROPERTIES
  RetriesSameRequest
  EventuallyConnected
  DeadMeterIsLost
CHECK_DEADLOCK FALSE
