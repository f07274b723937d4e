---------------------------- MODULE BlockTreeFacts ----------------------------
(*****************************************************************************)
(* Facts about the block tree, fork choice and the finalized point of a tip. *)
(*****************************************************************************)
EXTENDS BlockTree, TLAPS

------------------------------------------------------------------------------
(* The block tree *)

\* The chain of an ancestor is a prefix of the chain.
LEMMA AncestorFacts ==
    ASSUME NEW b \in Block, NEW h \in 0 .. Height[b]
    PROVE  /\ Ancestor[b][h] \in Block
           /\ Height[Ancestor[b][h]] = h
           /\ OnChain(Ancestor[b][h], b)
           /\ \A k \in 0 .. h : Ancestor[Ancestor[b][h]][k] = Ancestor[b][k]
BY ChainAssumption, TreeAssumption, SMTT(30) DEF OnChain

\* A block ends its own chain, which starts at genesis.
LEMMA HeightFacts ==
    ASSUME NEW b \in Block
    PROVE  /\ Height[b] \in Nat /\ Work[b] \in Nat /\ HashRank[b] \in Nat
           /\ Ancestor[b] \in [0 .. Height[b] -> Block]
           /\ DOMAIN Ancestor[b] = 0 .. Height[b]
           /\ Ancestor[b][Height[b]] = b /\ Ancestor[b][0] = Genesis
           /\ OnChain(b, b)
           /\ OnChain(Genesis, b)
BY ChainAssumption, TreeAssumption DEF OnChain

\* Ancestry is transitive, and two blocks of one chain are on each other's.
LEMMA ChainOrder ==
    ASSUME NEW a \in Block, NEW b \in Block, NEW c \in Block, OnChain(b, c)
    PROVE  /\ OnChain(a, b) => OnChain(a, c)
           /\ OnChain(a, c) /\ Height[a] <= Height[b] => OnChain(a, b)
           /\ \A k \in 0 .. Height[b] : Ancestor[b][k] = Ancestor[c][k]
<1>1. /\ Height[a] \in Nat /\ Height[b] \in Nat /\ Height[c] \in Nat
  BY HeightFacts
<1>2. Height[b] \in 0 .. Height[c] /\ Ancestor[c][Height[b]] = b
  BY <1>1 DEF OnChain
<1>3. \A k \in 0 .. Height[b] : Ancestor[b][k] = Ancestor[c][k]
  BY <1>2, AncestorFacts
<1> QED
  BY <1>1, <1>2, <1>3 DEF OnChain

\* The parent is one lower, on the same chain, with less work.
LEMMA ParentFacts ==
    ASSUME NEW b \in Block, Height[b] > 0
    PROVE  /\ Parent(b) \in Block /\ Height[Parent(b)] = Height[b] - 1
           /\ OnChain(Parent(b), b)
           /\ Work[Parent(b)] < Work[b]
<1>1. Height[b] - 1 \in 0 .. Height[b]
  BY HeightFacts
<1>2. Work[Ancestor[b][Height[b] - 1]] < Work[b]
  BY <1>1, HeightFacts, WorkAssumption, SMTT(30)
<1> QED
  BY <1>1, <1>2, AncestorFacts DEF Parent

\* The next block of a chain.
LEMMA NextFacts ==
    ASSUME NEW b \in Block, NEW t \in Block, OnChain(b, t), Height[b] < Height[t]
    PROVE  LET n == Ancestor[t][Height[b] + 1] IN
           /\ n \in Block /\ Height[n] = Height[b] + 1
           /\ OnChain(n, t) /\ Parent(n) = b /\ OnChain(b, n)
<1> DEFINE n == Ancestor[t][Height[b] + 1]
<1>1. /\ Height[b] \in Nat /\ Height[t] \in Nat /\ Height[b] + 1 \in 0 .. Height[t]
  BY HeightFacts
<1>2. /\ n \in Block /\ Height[n] = Height[b] + 1 /\ OnChain(n, t)
      /\ \A k \in 0 .. Height[b] + 1 : Ancestor[n][k] = Ancestor[t][k]
  BY <1>1, AncestorFacts
<1>3. Ancestor[n][Height[b]] = b
  BY <1>1, <1>2 DEF OnChain
<1> QED
  BY <1>1, <1>2, <1>3 DEF Parent, OnChain

\* A fork point is a proper ancestor of both tips.
LEMMA ForkFacts ==
    ASSUME NEW a, NEW t, NEW b, ForkPoint(a, t, b)
    PROVE  /\ OnChain(a, t) /\ OnChain(a, b)
           /\ Height[a] < Height[t] /\ Height[a] < Height[b]
BY DEF ForkPoint

\* The checkpoint of a tip lies between the old checkpoint and the tip, at most
\* FinalityDepth below it.
LEMMA FinalizedFacts ==
    ASSUME NEW f \in Block, NEW b \in Block, OnChain(f, b)
    PROVE  LET g == FinalizedForTip(f, b) IN
           /\ g \in Block /\ OnChain(f, g) /\ OnChain(g, b)
           /\ Height[b] - Height[g] <= FinalityDepth
<1> DEFINE h == Height[b] - FinalityDepth
<1>1. /\ Height[b] \in Nat /\ Height[f] \in Nat /\ FinalityDepth \in Nat /\ Height[f] <= Height[b]
  BY HeightFacts, TreeAssumption DEF OnChain
<1>2. CASE h > Height[f]
  <2>1. h \in 0 .. Height[b]
    BY <1>1, <1>2
  <2>2. /\ Ancestor[b][h] \in Block /\ Height[Ancestor[b][h]] = h /\ OnChain(Ancestor[b][h], b)
    BY <2>1, AncestorFacts
  <2>3. OnChain(f, Ancestor[b][h])
    BY <2>2, <1>2, <1>1, ChainOrder
  <2> QED
    BY <1>1, <1>2, <2>2, <2>3 DEF FinalizedForTip
<1>3. CASE ~(h > Height[f])
  BY <1>1, <1>3, HeightFacts DEF FinalizedForTip
<1> QED
  BY <1>2, <1>3

\* More work wins, so an extension does.
LEMMA ExtensionWins ==
    ASSUME NEW a \in Block, NEW b \in Block, OnChain(a, b), Height[a] < Height[b]
    PROVE  ChooseByWork(b, a)
<1>1. Height[a] \in 0 .. Height[b] - 1 /\ Ancestor[b][Height[a]] = a
  BY HeightFacts DEF OnChain
<1>2. Work[a] < Work[b]
  BY <1>1, WorkAssumption
<1> QED
  BY <1>2, HeightFacts DEF ChooseByWork

==============================================================================
