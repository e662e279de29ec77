SPECIFICATION FairSpec
CONSTANTS
  Slaves <- TwoMeters
  Commands <- ReadsAndAWrite
  CrcReset <- RealReset
  CrcAdd <- RealAdd
  MaxLine = 8
INVARIANTS
  TypeOK
  NothingForgotten
  EachWaitsOnce
  SignalsGenuine
  ReplyMatchesCommand
  IsModbusCrc
PROPERTIES
  EveryoneServed
  ServerSpec
CHECK_DEADLOCK FALSE
