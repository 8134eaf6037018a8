CONSTANTS
  Aggregations = {TRUE, FALSE}
SPECIFICATION ShutdownSpec
INVARIANTS
  DetectorFindsItsEndpoint
  OkMeansAudio
PROPERTIES
  PlainCallsEnd
CHECK_DEADLOCK FALSE
