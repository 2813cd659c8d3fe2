CONSTANTS
  left = left
  Shifts = {left}
  FakeShift = left
  arrow = arrow
  Extended = {arrow}
  Starts <- SomeStarts
  MaxKeys = 2
  TickValues = 3
  ReadTries = 1
  ModuleSets <- AllModuleSets
SPECIFICATION MachineSpec
INVARIANTS AnswersAreNotKeys
CHECK_DEADLOCK FALSE
