CONSTANTS
  Aggregations = {TRUE}
SPECIFICATION ShutdownSpec
PROPERTIES
  EveryCallEnds
CHECK_DEADLOCK FALSE
