SPECIFICATION Spec
CONSTANTS
    Block <- MCBlock
    Genesis = "m0"
    Height <- MCHeight
    Ancestor <- MCAncestor
    Work <- MCWork
    HashRank <- MCHashRank
    FinalityDepth = 2
    Peer = {"ann"}
    Object = {"body", "terminal"}
    MaxNodes = 6
    MaxProviders = 1
    MaxIncrementalAdvance = 1
    BoundaryInterval = 2
    ServingDepth = 3
    MaxEvents = 2
INVARIANTS
    BaseMoveSurvived
CHECK_DEADLOCK FALSE
