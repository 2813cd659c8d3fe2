CONSTANTS
  left = left
  Shifts = {left}
  FakeShift = left
  arrow = arrow
  Extended = {arrow}
  Starts <- SomeStarts
  MaxKeys = 2
  TickValues = 2
  ReadTries = 1
  ModuleSets <- AllModuleSets
SPECIFICATION FairMachineSpec
INVARIANTS Ps2TypeOK MInv ByteIsAnnounced KeyboardConfigured ShiftNeverSticks LineStaysOn
PROPERTIES ImplementsKeyStore SetupEnds
CHECK_DEADLOCK FALSE
