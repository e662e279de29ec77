SPECIFICATION FairSpec
CONSTANTS
  Serials = {}
  Roles <- ChargerRoles
  CustomNames = {"a"}
  MaxWrites = 2
  MaxLosses = 0
INVARIANTS
  NothingUnpublished
CHECK_DEADLOCK FALSE
