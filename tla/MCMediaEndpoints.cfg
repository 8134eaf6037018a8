SPECIFICATION MediaSpec
CONSTANTS
  Lists <- MCLists
  Offers <- MCOffers
  Messages <- MCMessages
  MaxMessages = 2
  MAX_TCP_DATA = 6
  MaxEndpoints = 4
  MaxTraffic = 3
  Ice = TRUE
INVARIANTS
  LinesMeetEndpoints
  ReportedIsActive
  TransportsAccounted
  MessagesWhole
CHECK_DEADLOCK FALSE
