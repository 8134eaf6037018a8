CONSTANTS
  MaxCommands = 5
  Long = {2}
  Wordy = {3}
  BufSize = 3
SPECIFICATION Spec
INVARIANTS
  AnsweredByItsOwn
PROPERTIES
  ImplementsService
  FittingCommandsSettle
CHECK_DEADLOCK FALSE
