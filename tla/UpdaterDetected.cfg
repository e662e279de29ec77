SPECIFICATION Spec
CONSTANTS
  MaxTimeoutCount = 1
  MaxErrorCount = 1
  Meters <- Em24Meters
  UserModes = {"multi", "single", "piggy"}
  StaleReplies = FALSE
INVARIANT MeasuresOnlyWhenDetected
CHECK_DEADLOCK FALSE
