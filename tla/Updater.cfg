SPECIFICATION SweepSpec
CONSTANTS
  MaxTimeoutCount = 0
  MaxErrorCount = 0
  Meters <- AllMeters
  UserModes = {"multi", "single", "piggy"}
  StaleReplies = FALSE
INVARIANTS
  TypeOK
  SettingsLifetime
  OneActivity
  MeterConfigured
  IdentifiedMeter
  NeverSinglePhaseOnEm300
  CommandsReadable
  AssertionsHold
PROPERTIES
  LifecycleSpec
  FullSweep
CHECK_DEADLOCK FALSE
