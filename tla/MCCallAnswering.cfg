CONSTANTS
  MaxRequests = 3
  MaxCommands = 1
SPECIFICATION AnsweringSpec
INVARIANTS
  PendingMatches
  AtMostOneFinal
PROPERTIES
  AnswersTheLatest
CHECK_DEADLOCK FALSE
