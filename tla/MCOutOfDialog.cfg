CONSTANTS
  Sockets = {s1, s2}
  Cells = {1, 2}
  RegcAddrs = {r1, r2}
  IdsMax = 2
  MaxMade = 3
  None = None
SPECIFICATION Spec
INVARIANTS
  AnswersItsRequest
  OneFinal
  ReportedUnderItsId
  StatusNamesAccount
  ReadsWhatIsThere
CHECK_DEADLOCK FALSE
