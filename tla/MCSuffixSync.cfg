SPECIFICATION Spec
CONSTANTS
  pa = pa
  pb = pb
  pc = pc
  Peer = {pa, pb, pc}
  Domain <- MCDomain
  Rank <- MCRank
  FailureLimit = 2
  NoObject = NoObject
  Bodies = 1
  Inventories <- TerminalHelpers
  Connected = {pb}
  Reliable = {}
  MaxFaults = 2

  
  
PROPERTIES
  CompletionStarts
  VerifiedKept
  QuarantineHolds
CHECK_DEADLOCK FALSE
