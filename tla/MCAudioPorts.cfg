SPECIFICATION Spec
CONSTANTS
  N = 2
  Features = {"tonegen", "detector", "player", "envelope"}
  IceMedia = {1}
  MaxUpdates = 3
  MaxCommands = 2
INVARIANTS
  OkMeansWired
  StartedMeansRunning
  FaultsAreForetold
  NothingPlaysOn
CHECK_DEADLOCK FALSE
