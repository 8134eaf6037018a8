CONSTANTS
  p1 = p1
  p2 = p2
  Vals <- MCVals
  Capacity <- MCCapacity
SPECIFICATION Spec
INVARIANTS
  Partition
PROPERTIES
  ImplementsQuarantine
