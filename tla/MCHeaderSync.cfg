SPECIFICATION Spec
CONSTANTS
    Block <- MCBlock
    Genesis = "m0"
    Height <- MCHeight
    Ancestor <- MCAncestor
    Work <- MCWork
    HashRank <- MCHashRank
    FinalityDepth = 2
    Peer = {"ann"}
    Object = {"body", "terminal"}
    MaxNodes = 4
    MaxProviders = 1
    MaxIncrementalAdvance = 1
    BoundaryInterval = 2
    ServingDepth = 3
    MaxEvents = 2
INVARIANTS
    DagSound
    BestSelected
    
PROPERTIES
    PlanKept
    StartsSelected
    HeartbeatAligns
    KeepsFinalChain
CHECK_DEADLOCK FALSE
