SPECIFICATION Spec
CONSTANTS
  pa = pa
  pb = pb
  pc = pc
  Peer = {pa, pb}
  Domain <- MCDomain
  Rank <- MCRank
  FailureLimit = 2
  NoObject = NoObject
  Bodies = 1
  Inventories <- OneEncoding
  Connected = {}
  Reliable = {}
  MaxFaults = 2
INVARIANT
  LateAwaited
CHECK_DEADLOCK FALSE
