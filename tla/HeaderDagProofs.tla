--------------------------- MODULE HeaderDagProofs ---------------------------
(***************************************************************************)
(* The header DAG stays connected and keeps the fork-choice maximum as its  *)
(* best tip, for every tree of headers, every capacity and every sequence   *)
(* of calls.  The lemmas are about one call on any DAG d.                   *)
(***************************************************************************)
EXTENDS HeaderDag, BlockTreeFacts

------------------------------------------------------------------------------
(* The invariant of a DAG d *)

InvOK(inv) ==
    /\ DOMAIN inv \subseteq Block
    /\ \A b \in DOMAIN inv : /\ DOMAIN inv[b] \subseteq Peer
                             /\ inv[b] \in [DOMAIN inv[b] -> SUBSET Object]

TypeOf(d) ==
    /\ d.fin \in Block /\ d.best \in Block /\ d.nodes \subseteq Block
    /\ InvOK(d.inv)
    /\ d = Dag(d.fin, d.best, d.nodes, d.inv)

\* The headers of S link down to f inside S.
ConnectedTo(f, S) ==
    \A b \in S :
        /\ Height[b] > Height[f] /\ OnChain(f, b)
        /\ \A h \in Height[f] + 1 .. Height[b] : Ancestor[b][h] \in S

\* x is in S or f, and fork choice prefers no other to it.
BestOf(x, f, S) ==
    /\ x \in S \cup {f}
    /\ \A b \in S \cup {f} : ~ChooseByWork(b, x)

Good(d) == TypeOf(d) /\ ConnectedTo(d.fin, d.nodes) /\ BestOf(d.best, d.fin, d.nodes)

\* The three invariants are Good of the current DAG.
LEMMA GoodDag == Good(dag) <=> DagTypeOK /\ DagConnected /\ BestSelected
BY DEF Good, TypeOf, InvOK, ConnectedTo, BestOf, DagTypeOK, DagConnected, BestSelected, Known

------------------------------------------------------------------------------
(* Fork choice *)

\* Fork choice is a strict total order: a block that does not beat x, and is
\* beaten by nothing x is not, leaves x maximal.
LEMMA ChoiceOrder ==
    ASSUME NEW a \in Block, NEW b \in Block, NEW c \in Block
    PROVE  /\ ~ChooseByWork(a, a)
           /\ ChooseByWork(a, b) => ~ChooseByWork(b, a)
           /\ ChooseByWork(b, a) /\ ~ChooseByWork(c, a) => ~ChooseByWork(c, b)
<1> /\ Work[a] \in Nat /\ Work[b] \in Nat /\ Work[c] \in Nat
    /\ HashRank[a] \in Nat /\ HashRank[b] \in Nat /\ HashRank[c] \in Nat
  BY HeightFacts
<1> QED
  BY DEF ChooseByWork

------------------------------------------------------------------------------
(* Fields of the results *)

\* A DAG made of its parts.
LEMMA DagFields ==
    ASSUME NEW f, NEW x, NEW N, NEW v
    PROVE  LET d == Dag(f, x, N, v) IN
           /\ d.fin = f /\ d.best = x /\ d.nodes = N /\ d.inv = v
           /\ d = Dag(d.fin, d.best, d.nodes, d.inv)
BY DEF Dag

\* Keeping fewer nodes keeps the type.
LEMMA KeepType ==
    ASSUME NEW d, TypeOf(d), NEW S \in SUBSET d.nodes
    PROVE  TypeOf(Keep(d, S))
<1>1. InvOK(d.inv) /\ d.nodes \subseteq Block /\ d.fin \in Block /\ d.best \in Block
  BY DEF TypeOf
<1>2. InvOK([b \in DOMAIN d.inv \cap S |-> d.inv[b]])
  BY <1>1 DEF InvOK
<1> QED
  BY <1>1, <1>2, DagFields DEF TypeOf, Keep

------------------------------------------------------------------------------
(* insert *)

\* A leaf that is not on the chain of x is on the chain of no node whose chain
\* is in the DAG, except its own: evicting leaves disconnects nothing.
LEMMA EvictConnected ==
    ASSUME NEW f \in Block, NEW N \in SUBSET Block, NEW W \in SUBSET N,
           ConnectedTo(f, N), \A w \in W : \A n \in N : Parent(n) # w
    PROVE  ConnectedTo(f, N \ W)
<1> SUFFICES ASSUME NEW b \in N \ W
             PROVE  /\ Height[b] > Height[f] /\ OnChain(f, b)
                    /\ \A h \in Height[f] + 1 .. Height[b] : Ancestor[b][h] \in N \ W
  BY DEF ConnectedTo
<1>1. /\ Height[b] > Height[f] /\ OnChain(f, b)
      /\ \A h \in Height[f] + 1 .. Height[b] : Ancestor[b][h] \in N
  BY DEF ConnectedTo
<1>2. b \in Block /\ Height[b] \in Nat /\ Height[f] \in Nat /\ Ancestor[b][Height[b]] = b
  BY HeightFacts
<1>3. ASSUME NEW h \in Height[f] + 1 .. Height[b]
      PROVE  Ancestor[b][h] \notin W
  <2>1. CASE h = Height[b]
    BY <2>1, <1>2
  <2>2. CASE h < Height[b]
    <3>1. /\ h + 1 \in Height[f] + 1 .. Height[b] /\ h + 1 \in 0 .. Height[b]
          /\ h \in 0 .. h + 1 /\ h \in Nat
      BY <2>2, <1>2
    <3>2. /\ Height[Ancestor[b][h + 1]] = h + 1
          /\ Ancestor[Ancestor[b][h + 1]][h] = Ancestor[b][h]
      BY <3>1, <1>2, AncestorFacts
    <3>3. Parent(Ancestor[b][h + 1]) = Ancestor[b][h]
      BY <3>1, <3>2 DEF Parent
    <3> QED
      BY <3>1, <3>3, <1>1
  <2> QED
    BY <2>1, <2>2, <1>2
<1> QED
  BY <1>1, <1>3

\* A new header whose parent is known, above the finalized point.
LEMMA AddConnected ==
    ASSUME NEW f \in Block, NEW N \in SUBSET Block, NEW b \in Block,
           ConnectedTo(f, N), Height[b] > Height[f], Parent(b) \in N \cup {f}
    PROVE  ConnectedTo(f, N \cup {b})
<1>1. /\ Height[b] \in Nat /\ Height[f] \in Nat /\ Ancestor[b][Height[b]] = b
      /\ Parent(b) \in Block /\ Height[Parent(b)] = Height[b] - 1 /\ OnChain(Parent(b), b)
      /\ OnChain(f, f)
  BY HeightFacts, ParentFacts
<1>2. OnChain(f, Parent(b))
  BY <1>1 DEF ConnectedTo
<1>3. OnChain(f, b)
  BY <1>1, <1>2, ChainOrder
<1>4. ASSUME NEW h \in Height[f] + 1 .. Height[b]
      PROVE  Ancestor[b][h] \in N \cup {b}
  <2>1. CASE h = Height[b]
    BY <2>1, <1>1
  <2>2. CASE h < Height[b]
    <3>1. h \in 0 .. Height[Parent(b)] /\ h \in Height[f] + 1 .. Height[Parent(b)]
      BY <2>2, <1>1
    <3>2. Ancestor[b][h] = Ancestor[Parent(b)][h]
      BY <3>1, <1>1, ChainOrder
    <3>3. Parent(b) # f
      BY <3>1, <1>1
    <3> QED
      BY <3>1, <3>2, <3>3 DEF ConnectedTo
  <2> QED
    BY <2>1, <2>2, <1>1
<1> QED
  BY <1>3, <1>4 DEF ConnectedTo

\* The better of the old best tip and the new header is the new best tip.
LEMMA AddBest ==
    ASSUME NEW x \in Block, NEW f \in Block, NEW N \in SUBSET Block, NEW b \in Block,
           BestOf(x, f, N)
    PROVE  BestOf(IF ChooseByWork(b, x) THEN b ELSE x, f, N \cup {b})
<1>1. ASSUME NEW c \in N \cup {f} \cup {b}
      PROVE  ~ChooseByWork(c, IF ChooseByWork(b, x) THEN b ELSE x)
  <2>1. c \in Block
    OBVIOUS
  <2>2. CASE c = b
    BY <2>2, ChoiceOrder
  <2>3. CASE c \in N \cup {f}
    <3>1. ~ChooseByWork(c, x)
      BY <2>3 DEF BestOf
    <3> QED
      BY <3>1, <2>1, ChoiceOrder
  <2> QED
    BY <2>2, <2>3
<1> QED
  BY <1>1 DEF BestOf

\* Making room for a child of p evicts neither p nor the best tip.
LEMMA RoomGood ==
    ASSUME NEW d, Good(d), NEW p \in Known(d)
    PROVE  /\ Good(MakeRoom(d, p)) /\ p \in Known(MakeRoom(d, p))
           /\ MakeRoom(d, p).fin = d.fin /\ MakeRoom(d, p).best = d.best
<1> DEFINE W == Weakest(Evictable(d, p))
           S == d.nodes \ W
<1>1. TypeOf(d) /\ ConnectedTo(d.fin, d.nodes) /\ BestOf(d.best, d.fin, d.nodes)
  BY DEF Good
<1>2. d.fin \in Block /\ d.best \in Block /\ d.nodes \subseteq Block /\ p \in Block
  BY <1>1 DEF TypeOf, Known
<1>3. \A w \in W : /\ w \in d.nodes /\ ~OnChain(w, d.best) /\ ~OnChain(w, p)
                   /\ \A n \in d.nodes : Parent(n) # w
  BY DEF Weakest, Evictable, Leaf
<1>4. d.best \notin W /\ p \notin W
  BY <1>2, <1>3, HeightFacts
<1>5. ConnectedTo(d.fin, S)
  <2>1. W \in SUBSET d.nodes
    BY <1>3
  <2> HIDE DEF W
  <2> QED
    BY <2>1, <1>1, <1>2, <1>3, EvictConnected
<1>6. BestOf(d.best, d.fin, S)
  BY <1>1, <1>4 DEF BestOf
<1>7. TypeOf(Keep(d, S))
  BY <1>1, KeepType
<1>8. Keep(d, S).fin = d.fin /\ Keep(d, S).best = d.best /\ Keep(d, S).nodes = S
  BY DagFields DEF Keep
<1>9. Good(Keep(d, S)) /\ p \in Known(Keep(d, S))
  BY <1>4, <1>5, <1>6, <1>7, <1>8 DEF Good, Known
<1>10. MakeRoom(d, p) = d \/ MakeRoom(d, p) = Keep(d, S)
  BY DEF MakeRoom
<1> HIDE DEF S
<1> QED
  BY <1>8, <1>9, <1>10

\* An accepted insertion keeps the DAG good, and moves the best tip only up.
LEMMA InsertGood ==
    ASSUME NEW d, Good(d), NEW b \in Block, Accepts(d, b)
    PROVE  /\ Good(Insert(d, b)) /\ Insert(d, b).fin = d.fin
           /\ Insert(d, b).best # d.best => ChooseByWork(Insert(d, b).best, d.best)
<1>1. CASE b \in d.nodes
  BY <1>1 DEF Insert
<1>2. CASE b \notin d.nodes
  <2> DEFINE e == MakeRoom(d, Parent(b))
             x == IF ChooseByWork(b, e.best) THEN b ELSE e.best
  <2>1. Height[b] > Height[d.fin] /\ Parent(b) \in Known(d)
    BY <1>2 DEF Accepts
  <2>2. Good(e) /\ Parent(b) \in Known(e) /\ e.fin = d.fin /\ e.best = d.best
    BY <2>1, RoomGood
  <2> HIDE DEF e
  <2>3. Insert(d, b) = Dag(e.fin, x, e.nodes \cup {b}, e.inv)
    BY <1>2 DEF Insert, Add, e
  <2>4. /\ e.fin \in Block /\ e.best \in Block /\ e.nodes \in SUBSET Block /\ InvOK(e.inv)
        /\ ConnectedTo(e.fin, e.nodes) /\ BestOf(e.best, e.fin, e.nodes)
    BY <2>2 DEF Good, TypeOf
  <2>5. ConnectedTo(e.fin, e.nodes \cup {b})
    BY <2>1, <2>2, <2>4, AddConnected DEF Known
  <2>6. BestOf(x, e.fin, e.nodes \cup {b})
    BY <2>4, AddBest
  <2>7. x \in Block /\ (x # d.best => ChooseByWork(x, d.best))
    BY <2>2, <2>4
  <2> HIDE DEF x
  <2> QED
    BY <2>2, <2>3, <2>4, <2>5, <2>6, <2>7, DagFields DEF Good, TypeOf
<1> QED
  BY <1>1, <1>2

------------------------------------------------------------------------------
(* Inventories *)

\* Inventories do not touch headers.
LEMMA InventoryGood ==
    ASSUME NEW d, Good(d), NEW v, InvOK(v)
    PROVE  Good(Dag(d.fin, d.best, d.nodes, v))
BY DagFields DEF Good, TypeOf

LEMMA AdvertiseGood ==
    ASSUME NEW d, Good(d), NEW p \in Peer, NEW N \in SUBSET d.nodes,
           NEW r \in [N -> SUBSET Object]
    PROVE  Good(Advertise(d, p, r))
<1> DEFINE new(b) == [q \in Providers(d, b) \cup {p} |-> IF q = p THEN r[b] ELSE d.inv[b][q]]
           v == [b \in DOMAIN d.inv \cup DOMAIN r |-> IF b \in DOMAIN r THEN new(b) ELSE d.inv[b]]
<1>1. InvOK(d.inv) /\ d.nodes \subseteq Block /\ DOMAIN r = N
  BY DEF Good, TypeOf
<1>2. ASSUME NEW b \in N
      PROVE  DOMAIN new(b) \subseteq Peer /\ new(b) \in [DOMAIN new(b) -> SUBSET Object]
  <2>1. Providers(d, b) \subseteq Peer
    BY <1>1 DEF Providers, InvOK
  <2>2. ASSUME NEW q \in Providers(d, b) PROVE d.inv[b][q] \in SUBSET Object
    <3>1. b \in DOMAIN d.inv /\ q \in DOMAIN d.inv[b]
      BY <2>2 DEF Providers
    <3>2. d.inv[b] \in [DOMAIN d.inv[b] -> SUBSET Object]
      BY <3>1, <1>1 DEF InvOK
    <3> QED
      BY <3>1, <3>2
  <2> QED
    BY <2>1, <2>2
<1>3. InvOK(v)
  <2> HIDE DEF new
  <2> QED
    BY <1>1, <1>2 DEF InvOK
<1>4. Advertise(d, p, r) = Dag(d.fin, d.best, d.nodes, v)
  BY DEF Advertise
<1> HIDE DEF v
<1> QED
  BY <1>3, <1>4, InventoryGood

LEMMA RemoveGood ==
    ASSUME NEW d, Good(d), NEW p
    PROVE  Good(RemoveProvider(d, p))
<1> DEFINE left(b) == [q \in DOMAIN d.inv[b] \ {p} |-> d.inv[b][q]]
           v == [b \in {c \in DOMAIN d.inv : DOMAIN d.inv[c] # {p}} |-> left(b)]
<1>1. InvOK(d.inv)
  BY DEF Good, TypeOf
<1>2. ASSUME NEW b \in DOMAIN d.inv
      PROVE  DOMAIN left(b) \subseteq Peer /\ left(b) \in [DOMAIN left(b) -> SUBSET Object]
  <2>1. DOMAIN d.inv[b] \subseteq Peer /\ d.inv[b] \in [DOMAIN d.inv[b] -> SUBSET Object]
    BY <1>1 DEF InvOK
  <2> QED
    BY <2>1
<1>3. InvOK(v)
  <2> HIDE DEF left
  <2> QED
    BY <1>1, <1>2 DEF InvOK
<1>4. RemoveProvider(d, p) = Dag(d.fin, d.best, d.nodes, v)
  BY DEF RemoveProvider
<1> HIDE DEF v
<1> QED
  BY <1>3, <1>4, InventoryGood

------------------------------------------------------------------------------
(* advance_finalized *)

\* In a good DAG the walk over parent links from a known header succeeds: it
\* finds exactly the ancestors down to the finalized point.
LEMMA WalkSucceeds ==
    ASSUME NEW d, Good(d), NEW a \in Block, NEW b \in Known(d)
    PROVE  IsAncestor(d, a, b) <=> OnChain(a, b) /\ Height[d.fin] <= Height[a]
<1>1. d.fin \in Block /\ b \in Block /\ ConnectedTo(d.fin, d.nodes)
  BY DEF Good, TypeOf, Known
<1>2. Height[a] \in Nat /\ Height[b] \in Nat /\ Height[d.fin] \in Nat
      /\ Ancestor[b][Height[b]] = b /\ OnChain(d.fin, d.fin)
  BY <1>1, HeightFacts
<1>3. OnChain(d.fin, b) /\ \A h \in Height[d.fin] + 1 .. Height[b] : Ancestor[b][h] \in d.nodes
  BY <1>1, <1>2 DEF ConnectedTo, Known
<1>4. Height[d.fin] <= Height[b] /\ Ancestor[b][Height[d.fin]] = d.fin
  BY <1>3 DEF OnChain
<1>5. IsAncestor(d, a, b) => OnChain(a, b) /\ Height[d.fin] <= Height[a]
  BY <1>2, <1>4 DEF IsAncestor, Linked, OnChain
<1>6. OnChain(a, b) /\ Height[d.fin] <= Height[a] => IsAncestor(d, a, b)
  BY <1>2, <1>3, <1>4 DEF IsAncestor, Linked, OnChain
<1> QED
  BY <1>5, <1>6

\* Finality advances along the best chain; the descendants that stay are linked
\* to the new finalized point and the best tip stays.
LEMMA AdvanceGood ==
    ASSUME NEW d, Good(d), NEW f \in Block, CanAdvance(d, f)
    PROVE  LET e == AdvanceFinalized(d, f) IN
           /\ Good(e) /\ e.fin = f /\ e.best = d.best /\ OnChain(d.fin, f)
<1> DEFINE S == {b \in d.nodes : Height[b] > Height[f] /\ IsAncestor(d, f, b)}
<1>1. /\ d.fin \in Block /\ d.best \in Block /\ d.nodes \in SUBSET Block /\ InvOK(d.inv)
      /\ TypeOf(d) /\ ConnectedTo(d.fin, d.nodes) /\ BestOf(d.best, d.fin, d.nodes)
      /\ d.best \in Known(d) /\ d.fin \in Known(d)
  BY DEF Good, TypeOf, BestOf, Known
<1>2. Height[f] \in Nat /\ Height[d.fin] \in Nat /\ Height[d.best] \in Nat
      /\ OnChain(d.fin, d.fin) /\ Ancestor[d.best][Height[d.best]] = d.best
  BY <1>1, HeightFacts
<1>3. CASE f = d.fin
  BY <1>2, <1>3 DEF AdvanceFinalized
<1>4. CASE f # d.fin
  <2>1. OnChain(f, d.best) /\ Height[d.fin] <= Height[f]
    BY <1>1, <1>4, WalkSucceeds DEF CanAdvance
  <2>2. OnChain(d.fin, d.best)
    BY <1>1, <1>2 DEF Known, ConnectedTo
  <2>3. OnChain(d.fin, f)
    BY <2>1, <2>2, <1>1, ChainOrder
  <2>4. f \in Known(d)
    <3>1. Height[d.fin] # Height[f]
      BY <2>3, <1>4, <1>2, HeightFacts DEF OnChain
    <3>2. d.best \in d.nodes
      BY <3>1, <2>1, <1>1, <1>2 DEF Known, OnChain
    <3>3. Height[f] \in Height[d.fin] + 1 .. Height[d.best] /\ Ancestor[d.best][Height[f]] = f
      BY <3>1, <2>1, <1>2 DEF OnChain
    <3> QED
      BY <3>2, <3>3, <1>1 DEF ConnectedTo, Known
  <2>5. ConnectedTo(f, S)
    <3> SUFFICES ASSUME NEW b \in S
                 PROVE  /\ Height[b] > Height[f] /\ OnChain(f, b)
                        /\ \A h \in Height[f] + 1 .. Height[b] : Ancestor[b][h] \in S
      BY DEF ConnectedTo
    <3>1. b \in d.nodes /\ b \in Block /\ b \in Known(d) /\ Height[b] > Height[f]
      BY <1>1 DEF Known
    <3>2. OnChain(f, b) /\ Height[b] \in Nat
      BY <3>1, WalkSucceeds, HeightFacts
    <3>3. ASSUME NEW h \in Height[f] + 1 .. Height[b]
          PROVE  Ancestor[b][h] \in S
      <4> DEFINE c == Ancestor[b][h]
      <4>1. h \in Height[d.fin] + 1 .. Height[b] /\ h \in 0 .. Height[b]
        BY <2>1, <3>2, <1>2
      <4>2. c \in d.nodes /\ c \in Known(d)
        BY <4>1, <3>1, <1>1 DEF ConnectedTo, Known
      <4>3. c \in Block /\ Height[c] = h /\ OnChain(c, b)
        BY <4>1, <3>1, AncestorFacts
      <4> HIDE DEF c
      <4>4. OnChain(f, c)
        BY <4>3, <3>1, <3>2, <1>2, ChainOrder
      <4>5. IsAncestor(d, f, c)
        BY <4>2, <4>4, <2>1, WalkSucceeds
      <4>6. Height[c] > Height[f]
        BY <4>3, <1>2, <3>2
      <4> QED
        BY <4>2, <4>5, <4>6 DEF c
    <3> QED
      BY <3>1, <3>2, <3>3
  <2>6. (IF Height[d.best] <= Height[f] THEN f ELSE d.best) = d.best
    BY <2>1, <1>2 DEF OnChain
  <2>7. d.best \in S \cup {f}
    <3>1. CASE d.best = f
      BY <3>1
    <3>2. CASE d.best # f
      <4>1. Height[d.best] > Height[f]
        BY <3>2, <2>1, <1>2 DEF OnChain
      <4>2. d.best \in d.nodes
        BY <4>1, <2>1, <1>1, <1>2 DEF Known
      <4>3. IsAncestor(d, f, d.best)
        BY <2>1, <1>1, WalkSucceeds
      <4> QED
        BY <4>1, <4>2, <4>3
    <3> QED
      BY <3>1, <3>2
  <2>8. BestOf(d.best, f, S)
    BY <2>4, <2>7, <1>1 DEF BestOf, Known
  <2>9. InvOK(Keep(d, S).inv)
    <3>1. TypeOf(Keep(d, S))
      BY <1>1, KeepType
    <3> QED
      BY <3>1 DEF TypeOf
  <2>10. AdvanceFinalized(d, f) = Dag(f, d.best, S, Keep(d, S).inv)
    BY <1>4, <2>6 DEF AdvanceFinalized, Rooted
  <2>11. S \subseteq Block
    BY <1>1
  <2> HIDE DEF S
  <2> QED
    BY <2>3, <2>5, <2>8, <2>9, <2>10, <2>11, <1>1, DagFields DEF Good, TypeOf
<1> QED
  BY <1>3, <1>4

------------------------------------------------------------------------------
(* The theorems *)

LEMMA InitGood == DagInit => Good(dag)
<1> SUFFICES ASSUME DagInit PROVE Good(dag)
  OBVIOUS
<1>1. Genesis \in Block
  BY TreeAssumption
<1>2. InvOK([b \in {} |-> {}])
  BY DEF InvOK
<1>3. ConnectedTo(Genesis, {}) /\ BestOf(Genesis, Genesis, {})
  BY <1>1, ChoiceOrder DEF ConnectedTo, BestOf
<1> QED
  BY <1>1, <1>2, <1>3, DagFields DEF DagInit, NewDag, Good, TypeOf

\* What one call may do to the finalized point and the best tip.
StepOK ==
    /\ OnChain(dag.fin, dag'.fin)
    /\ dag'.best # dag.best => ChooseByWork(dag'.best, dag.best)

LEMMA NextGood == Good(dag) /\ [DagNext]_dag => Good(dag)' /\ StepOK
<1> SUFFICES ASSUME Good(dag), [DagNext]_dag PROVE Good(dag)' /\ StepOK
  OBVIOUS
<1>0. OnChain(dag.fin, dag.fin)
  BY HeightFacts DEF Good, TypeOf
<1>1. ASSUME NEW b \in Block, Accepts(dag, b), dag' = Insert(dag, b)
      PROVE  Good(dag)' /\ StepOK
  BY <1>0, <1>1, InsertGood DEF StepOK
<1>2. ASSUME NEW p \in Peer, NEW S \in SUBSET dag.nodes, NEW r \in [S -> SUBSET Object],
             dag' = Advertise(dag, p, r)
      PROVE  Good(dag)' /\ StepOK
  <2>1. Good(Advertise(dag, p, r))
    BY AdvertiseGood
  <2>2. dag'.fin = dag.fin /\ dag'.best = dag.best
    BY <1>2 DEF Advertise, Dag
  <2> QED
    BY <1>0, <1>2, <2>1, <2>2 DEF StepOK
<1>3. ASSUME NEW p \in Peer, dag' = RemoveProvider(dag, p)
      PROVE  Good(dag)' /\ StepOK
  <2>1. Good(RemoveProvider(dag, p))
    BY RemoveGood
  <2>2. dag'.fin = dag.fin /\ dag'.best = dag.best
    BY <1>3 DEF RemoveProvider, Dag
  <2> QED
    BY <1>0, <1>3, <2>1, <2>2 DEF StepOK
<1>4. ASSUME NEW f \in Block, CanAdvance(dag, f), dag' = AdvanceFinalized(dag, f)
      PROVE  Good(dag)' /\ StepOK
  BY <1>4, AdvanceGood DEF StepOK
<1>5. CASE UNCHANGED dag
  BY <1>0, <1>5 DEF StepOK
<1> QED
  BY <1>1, <1>2, <1>3, <1>4, <1>5 DEF DagNext

\* Every retained header links down to the finalized point through retained
\* headers, whatever was inserted, evicted and pruned.
THEOREM DagStaysConnected == DagSpec => []DagConnected
<1>1. Good(dag) => DagConnected
  BY GoodDag
<1> QED
  BY <1>1, InitGood, NextGood, PTL DEF DagSpec

\* The best tip is known and maximal for fork choice at all times.
THEOREM DagBestSelected == DagSpec => [](DagTypeOK /\ BestSelected)
<1>1. Good(dag) => DagTypeOK /\ BestSelected
  BY GoodDag
<1> QED
  BY <1>1, InitGood, NextGood, PTL DEF DagSpec

\* Finality moves along the best chain, and the best tip only to one that fork
\* choice prefers.
THEOREM DagBestOnlyImproves == DagSpec => DagBestImproves
<1>1. Good(dag)' => OnChain(dag'.fin, dag'.best)
  BY HeightFacts DEF Good, TypeOf, BestOf, ConnectedTo
<1>2. Good(dag) /\ [DagNext]_dag =>
         [/\ OnChain(dag.fin, dag'.fin) /\ OnChain(dag'.fin, dag'.best)
          /\ dag'.best # dag.best => ChooseByWork(dag'.best, dag.best)]_dag
  BY <1>1, NextGood DEF StepOK
<1> QED
  BY <1>2, InitGood, NextGood, PTL DEF DagSpec, DagBestImproves

==============================================================================
