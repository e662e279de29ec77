SPECIFICATION Spec
CONSTANTS
  Serials = {"three", "one"}
  Roles = {"grid"}
  Addresses = {1, 2}
  Meters <- TwoMeters
INVARIANTS
  ServicesMatchSensors
  ListenersInformed
PROPERTIES
  DevicesRemembered
  TerminatesWithoutMeter
