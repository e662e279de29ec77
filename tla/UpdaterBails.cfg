SPECIFICATION Spec
CONSTANTS
  MaxTimeoutCount = 5
  MaxErrorCount = 20
  Meters <- Et340Meters
  UserModes = {"multi", "single", "piggy"}
  StaleReplies = FALSE
INVARIANT BailsAfterMaxTimeouts
CHECK_DEADLOCK FALSE
