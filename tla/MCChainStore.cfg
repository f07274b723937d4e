SPECIFICATION Spec
CONSTANTS
    Block <- MCBlock
    Genesis = "m0"
    Height <- MCHeight
    Ancestor <- MCAncestor
    Work <- MCWork
    HashRank <- MCHashRank
    FinalityDepth = 2
    Tx = {"t", "u"}
    Txs <- MCTxs
    UndoRetention = 3
    ServingDepth = 3
    PruneLimit = 1
    MaxReplacement = 4
INVARIANTS
    CanonicalChain
    CrashSafe
    HotMatchesTables
    StoreAcceptsPrepared
    RetentionCovers
    TxIndexExact
PROPERTIES
    ImplementsFinalChain
