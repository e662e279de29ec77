SPECIFICATION Spec
CONSTANTS
  Slaves <- TwoMeters
  Commands <- ReadsAndAWrite
  CrcReset <- RealReset
  CrcAdd <- RealAdd
  MaxLine = 8
INVARIANT IdleDataIgnored
CHECK_DEADLOCK FALSE
