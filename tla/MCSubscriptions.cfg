CONSTANTS
  Events = {e1}
  Accepts = {a1, a2}
  IdsMax = 2
  MaxMade = 3
SPECIFICATION Spec
INVARIANTS
  HandlesLead
  
  NotifiesAccepted
CHECK_DEADLOCK FALSE
