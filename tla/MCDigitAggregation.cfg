CONSTANTS
  Uses <- MCUses
  MAXDIGITS = 1
  DayMs = 86400000
  LastDigitMs = 1
  LastMs = 4
  MaxDetected = 3
SPECIFICATION DetectorSpec
INVARIANTS
  NothingLost
  InOrder
PROPERTIES
  BurstsStayWhole
  EveryDigitReported
CHECK_DEADLOCK FALSE
