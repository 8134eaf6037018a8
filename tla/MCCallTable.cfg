CONSTANTS
  a1 = a1
  a2 = a2
  a3 = a3
  Addrs <- MCAddrs
  None = None
  IdsMax = 2
  LastMax = 2
  MaxCalls = 3
  MaxEvents = 3
  FailingSteps = {"media"}
SPECIFICATION Spec
SYMMETRY MCSymmetry
INVARIANTS
  IdsDenoteLiveCalls
  ViewAgrees
  EndedNamesItsCall
PROPERTIES
  LiveResponsesNameTheirCall
CHECK_DEADLOCK FALSE
