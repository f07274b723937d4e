------------------------------- MODULE HeaderDag -------------------------------
(***************************************************************************)
(* The bounded graph of natively validated headers above the finalized      *)
(* block, its best tip, and which peers advertised objects for a header.    *)
(* A record d = [fin, best, nodes, inv] is one DAG; the operators are its   *)
(* methods.  Hashes are collision free, so a block stands for its hash, its *)
(* header and its cumulative work.                                          *)
(***************************************************************************)
EXTENDS BlockTree, FiniteSets

CONSTANTS
    Peer,
    Object,         \* the kinds of object a record may offer
    MaxNodes,       \* capacity of the graph
    MaxProviders    \* MAX_PROVIDERS_PER_HEADER

ASSUME DagAssumption ==
    /\ IsFiniteSet(Block) /\ IsFiniteSet(Peer)
    /\ MaxNodes \in Nat \ {0} /\ MaxProviders \in Nat \ {0}

ASSUME HashAssumption ==
    \A a, b \in Block : HashRank[a] = HashRank[b] => a = b

VARIABLE dag

------------------------------------------------------------------------------
(* Queries *)

Dag(f, x, N, v) == [fin |-> f, best |-> x, nodes |-> N, inv |-> v]

NewDag(f) == Dag(f, f, {}, [b \in {} |-> {}])

Known(d) == d.nodes \cup {d.fin}

\* The walk over parent links from x down to height h finds every node, and
\* neither passes the finalized point nor meets another block at its height.
Linked(d, x, h) ==
    /\ h < Height[x] => h >= Height[d.fin]
    /\ \A k \in h + 1 .. Height[x] : Ancestor[x][k] \in d.nodes
    /\ h < Height[x] /\ h = Height[d.fin] => Ancestor[x][h] = d.fin

\* is_ancestor returned Ok(true).
IsAncestor(d, a, x) ==
    Height[a] <= Height[x] /\ Linked(d, x, Height[a]) /\ Ancestor[x][Height[a]] = a

\* The point where the walks from x and y meet.
CommonAncestors(d, x, y) ==
    {a \in Block : /\ IsAncestor(d, a, x) /\ IsAncestor(d, a, y)
                   /\ \A h \in Height[a] + 1 .. Height[x] :
                         h > Height[y] \/ Ancestor[x][h] # Ancestor[y][h]}

\* The headers after a up to x.
Path(a, x) == {Ancestor[x][h] : h \in Height[a] + 1 .. Height[x]}

------------------------------------------------------------------------------
(* insert *)

Leaf(d, b) == \A n \in d.nodes : Parent(n) # b

\* Variant: the branch being extended is not protected.
EvictableTipOnly(d, p) ==
    {b \in d.nodes : ~OnChain(b, d.best) /\ Leaf(d, b)}

\* Leaves outside the best chain and the chain of the candidate's parent p.
Evictable(d, p) ==
    {b \in d.nodes : ~OnChain(b, d.best) /\ ~OnChain(b, p) /\ Leaf(d, b)}

Weakest(S) == {b \in S : \A c \in S : c = b \/ ChooseByWork(c, b)}

Full(d) == Cardinality(d.nodes) >= MaxNodes

Accepts(d, b) ==
    /\ Height[b] > Height[d.fin]
    /\ \/ b \in d.nodes
       \/ /\ Parent(b) \in Known(d)
          /\ Full(d) => Evictable(d, Parent(b)) # {}

Keep(d, S) == Dag(d.fin, d.best, S, [b \in DOMAIN d.inv \cap S |-> d.inv[b]])

MakeRoom(d, p) ==
    IF Full(d) THEN Keep(d, d.nodes \ Weakest(Evictable(d, p))) ELSE d

\* Variant: the newest header becomes the best one at equal work.
AddLatest(d, b) ==
    Dag(d.fin, IF Work[b] >= Work[d.best] THEN b ELSE d.best, d.nodes \cup {b}, d.inv)

Add(d, b) ==
    Dag(d.fin, IF ChooseByWork(b, d.best) THEN b ELSE d.best, d.nodes \cup {b}, d.inv)

\* The graph after an accepted insertion; a duplicate changes nothing.
Insert(d, b) == IF b \in d.nodes THEN d ELSE Add(MakeRoom(d, Parent(b)), b)

------------------------------------------------------------------------------
(* Inventories *)

\* inv[b][p] is what p last offered for header b, possibly nothing.
Providers(d, b) == IF b \in DOMAIN d.inv THEN DOMAIN d.inv[b] ELSE {}

Offers(d, b, o) == {p \in Providers(d, b) : o \in d.inv[b][p]}

\* Variant: a provider beyond the limit is stored as well.
MayAdvertiseAny(d, p, r) == DOMAIN r \subseteq d.nodes

\* r maps headers to the objects p offers.  Every record is checked before the
\* first one is stored.
MayAdvertise(d, p, r) ==
    \A b \in DOMAIN r :
        /\ b \in d.nodes
        /\ p \in Providers(d, b) \/ Cardinality(Providers(d, b)) < MaxProviders

Advertise(d, p, r) ==
    Dag(d.fin, d.best, d.nodes,
        [b \in DOMAIN d.inv \cup DOMAIN r |->
            IF b \in DOMAIN r
            THEN [q \in Providers(d, b) \cup {p} |-> IF q = p THEN r[b] ELSE d.inv[b][q]]
            ELSE d.inv[b]])

RemoveProvider(d, p) ==
    Dag(d.fin, d.best, d.nodes,
        [b \in {c \in DOMAIN d.inv : DOMAIN d.inv[c] # {p}} |->
            [q \in DOMAIN d.inv[b] \ {p} |-> d.inv[b][q]]])

------------------------------------------------------------------------------
(* advance_finalized *)

\* Variant: a finalized point on any known branch is taken.
CanAdvanceAnywhere(d, f) == f \in Known(d)

CanAdvance(d, f) == f = d.fin \/ IsAncestor(d, f, d.best)

\* The DAG d restricted to the nodes S above the new finalized point f.
Rooted(d, f, S) ==
    Dag(f, IF Height[d.best] <= Height[f] THEN f ELSE d.best, S, Keep(d, S).inv)

\* Variant: nodes are kept by height alone.
AdvanceByHeight(d, f) == Rooted(d, f, {b \in d.nodes : Height[b] > Height[f]})

\* Only descendants of the new finalized point stay.
AdvanceFinalized(d, f) ==
    IF f = d.fin THEN d
    ELSE Rooted(d, f, {b \in d.nodes : Height[b] > Height[f] /\ IsAncestor(d, f, b)})

------------------------------------------------------------------------------
(* The graph under any sequence of calls *)

DagInit == dag = NewDag(Genesis)

DagNext ==
    \/ \E b \in Block : Accepts(dag, b) /\ dag' = Insert(dag, b)
    \/ \E p \in Peer, S \in SUBSET dag.nodes : \E r \in [S -> SUBSET Object] :
          MayAdvertise(dag, p, r) /\ dag' = Advertise(dag, p, r)
    \/ \E p \in Peer : dag' = RemoveProvider(dag, p)
    \/ \E f \in Block : CanAdvance(dag, f) /\ dag' = AdvanceFinalized(dag, f)

DagSpec == DagInit /\ [][DagNext]_dag

------------------------------------------------------------------------------
(* Properties *)

DagTypeOK ==
    /\ dag.fin \in Block /\ dag.best \in Block /\ dag.nodes \subseteq Block
    /\ DOMAIN dag.inv \subseteq Block
    /\ \A b \in DOMAIN dag.inv : /\ DOMAIN dag.inv[b] \subseteq Peer
                                /\ dag.inv[b] \in [DOMAIN dag.inv[b] -> SUBSET Object]
    /\ dag = Dag(dag.fin, dag.best, dag.nodes, dag.inv)

\* Every retained header links down to the finalized point through retained
\* headers: neither an eviction nor an advance of finality leaves an orphan, so
\* no walk over parent links fails for a known header.
DagConnected ==
    \A b \in dag.nodes :
        /\ Height[b] > Height[dag.fin] /\ OnChain(dag.fin, b)
        /\ \A h \in Height[dag.fin] + 1 .. Height[b] : Ancestor[b][h] \in dag.nodes

\* The best tip is a known header and no retained header beats it, through
\* evictions, ties and pruning.
BestSelected ==
    /\ dag.best \in Known(dag)
    /\ \A b \in Known(dag) : ~ChooseByWork(b, dag.best)

\* The graph stays within its capacity, and inventories belong to retained
\* headers with at most MaxProviders sources each.
DagBounded ==
    /\ Cardinality(dag.nodes) <= MaxNodes
    /\ DOMAIN dag.inv \subseteq dag.nodes
    /\ \A b \in DOMAIN dag.inv : Cardinality(DOMAIN dag.inv[b]) \in 1 .. MaxProviders

\* Until finality moves, the best tip is only replaced by one that fork choice
\* prefers; finality moves only along the best chain.
DagBestImproves ==
    [][/\ OnChain(dag.fin, dag'.fin) /\ OnChain(dag'.fin, dag'.best)
       /\ dag'.best # dag.best => ChooseByWork(dag'.best, dag.best)]_dag

==============================================================================
