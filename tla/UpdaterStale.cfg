SPECIFICATION Spec
CONSTANTS
  MaxTimeoutCount = 1
  MaxErrorCount = 1
  Meters <- StaleMeters
  UserModes = {"multi", "single", "piggy"}
  StaleReplies = TRUE
INVARIANTS
  CountersBounded
  ReplyFitsCommand
  EnergyNotMistaken
CHECK_DEADLOCK FALSE
