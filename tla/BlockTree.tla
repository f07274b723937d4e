------------------------------ MODULE BlockTree ------------------------------
(***************************************************************************)
(* The blocks a node can meet and how fork choice orders them.  A header    *)
(* carries the hash of its parent, so a block determines all its ancestors: *)
(* Ancestor[b] is the header chain 0 .. Height[b] that ends at b.           *)
(***************************************************************************)
EXTENDS Integers

CONSTANTS
    Block,          \* the blocks with a valid body and proof
    Genesis,
    Height,         \* Height[b]
    Ancestor,       \* Ancestor[b][h]: the ancestor of b at height h
    Work,           \* Work[b]: cumulative chainwork up to b
    HashRank,       \* HashRank[b]: rank of b's hash in byte order
    FinalityDepth   \* CONSENSUS_FINALITY_DEPTH

ASSUME TreeAssumption ==
    /\ Genesis \in Block
    /\ Height \in [Block -> Nat] /\ Height[Genesis] = 0
    /\ Work \in [Block -> Nat] /\ HashRank \in [Block -> Nat]
    /\ FinalityDepth \in Nat \ {0}

\* The header chain of a block: it starts at genesis, ends at the block, and
\* agrees with the chain of each block on it.
ASSUME ChainAssumption ==
    \A b \in Block :
        /\ Ancestor[b] \in [0 .. Height[b] -> Block]
        /\ Ancestor[b][Height[b]] = b
        /\ Ancestor[b][0] = Genesis
        /\ \A h \in 0 .. Height[b] :
              /\ Height[Ancestor[b][h]] = h
              /\ \A k \in 0 .. h : Ancestor[Ancestor[b][h]][k] = Ancestor[b][k]

\* A child adds the work of its own target to its parent's chainwork.
ASSUME WorkAssumption ==
    \A b \in Block : \A h \in 0 .. Height[b] - 1 : Work[Ancestor[b][h]] < Work[b]

\* a is b or an ancestor of b.
OnChain(a, b) == Height[a] <= Height[b] /\ Ancestor[b][Height[a]] = a

Parent(b) == Ancestor[b][Height[b] - 1]

\* Fork choice prefers a to b: more cumulative work, or the smaller tip hash.
ChooseByWork(a, b) ==
    \/ Work[a] > Work[b]
    \/ Work[a] = Work[b] /\ HashRank[a] < HashRank[b]

\* The branches to t and b part right after their common block a.
ForkPoint(a, t, b) ==
    /\ OnChain(a, t) /\ OnChain(a, b)
    /\ Height[a] < Height[t] /\ Height[a] < Height[b]
    /\ Ancestor[t][Height[a] + 1] # Ancestor[b][Height[a] + 1]

\* Variant: the checkpoint follows the tip down.
FinalizedForTipAlone(f, b) ==
    Ancestor[b][IF Height[b] > FinalityDepth THEN Height[b] - FinalityDepth ELSE 0]

\* The checkpoint that a tip finalizes: FinalityDepth below it, never lower
\* than the checkpoint f already reached.
FinalizedForTip(f, b) ==
    IF Height[b] - FinalityDepth > Height[f]
    THEN Ancestor[b][Height[b] - FinalityDepth]
    ELSE f

==============================================================================
