CONSTANTS
  Kinds = {"udp", "tcp", "ws", "wsc"}
  Ids = {1, 2}
  Ports = {1}
  Hosts = {"lo"}
  MaxObjects = 2
SPECIFICATION Spec
INVARIANTS
  TagsLead
  NoStraySocket
  ClientKnows
  StaysUp
PROPERTIES
  ConnectReturned
CHECK_DEADLOCK FALSE
