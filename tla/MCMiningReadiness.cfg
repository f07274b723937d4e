CONSTANTS
  p1 = p1
  Peer = {p1}
  MaxBlocks = 3
  MaxEvents = 3
SPECIFICATION FairSpec
INVARIANTS
  AuthorizedByAncestor
PROPERTIES
  GateCloses
  
CHECK_DEADLOCK FALSE
