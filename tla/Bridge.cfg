SPECIFICATION FairSpec
CONSTANTS
  Serials = {}
  Roles <- MeterRoles
  CustomNames = {"a", "b"}
  MaxWrites = 2
  MaxLosses = 2
INVARIANTS
  CopiesAgree
  NothingUnpublished
PROPERTIES
  Settles
CHECK_DEADLOCK FALSE
