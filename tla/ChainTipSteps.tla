---------------------------- MODULE ChainTipSteps ----------------------------
(*****************************************************************************)
(* The transactions that move the canonical tip (a commit, a reorganization, *)
(* a snapshot installation) preserve the inductive invariant of ChainStore.  *)
(*****************************************************************************)
EXTENDS ChainStoreSteps


------------------------------------------------------------------------------
(* Transactions that move the tip *)

\* A block is appended to the tip it was prepared for.
LEMMA CommitStep ==
    ASSUME IInv, CommitBlock
    PROVE  IInv'
<1> DEFINE b == op.block
           h == Height[op.block]
<1>1. /\ b \in Block /\ op.by \in Block /\ tip \in Block /\ fin \in Block
      /\ h \in Nat /\ Height[tip] \in Nat /\ Height[fin] \in Nat /\ pruned \in Nat
  BY OperationFacts, TypedFacts, HeightFacts DEF IInv, CommitBlock
<1>2. /\ hot = [tip |-> tip, fin |-> fin, state |-> b]
      /\ h = Height[tip] + 1 /\ Parent(b) = tip
      /\ op.by # b => /\ OnChain(b, op.by) /\ h < Height[op.by]
                      /\ \E r \in auth : r.to = op.by /\ Height[r.from] <= Height[tip]
  BY DEF IInv, WriterOK, CommitBlock
<1>3. /\ headers = Ancestor[tip] /\ OnChain(fin, tip)
  BY DEF IInv, TablesOK, CanonicalChain
<1>4. OnChain(tip, b) /\ OnChain(fin, b)
  BY <1>1, <1>2, <1>3, ParentFacts, ChainOrder
<1>5. /\ FinalizedForTip(fin, b) \in Block /\ OnChain(fin, FinalizedForTip(fin, b))
      /\ OnChain(FinalizedForTip(fin, b), b)
      /\ Height[b] - Height[FinalizedForTip(fin, b)] <= FinalityDepth
  BY <1>1, <1>4, FinalizedFacts
<1>6. /\ tip' = b /\ fin' = FinalizedForTip(fin, b) /\ state' = b
      /\ headers' = Put(headers, h, b) /\ undo' = Put(undo, h, b) /\ body' = Put(body, h, b)
      /\ term' = Put(term, h, [of |-> b, by |-> op.by])
      /\ auth' = IF op.by = b THEN {} ELSE auth
      /\ hot' = [tip |-> b, fin |-> fin', state |-> b]
      /\ op' = IF op.by = b THEN Idle ELSE [kind |-> "suffix", to |-> op.by]
      /\ maint' = "payloads" /\ pruned' = pruned
  BY <1>2 DEF CommitBlock, PersistTip, PersistObjects
<1>7. headers' = Ancestor[b]
  BY <1>1, <1>2, <1>3, <1>6, HeadersExtended, SMTT(30)
<1>8. /\ fin' \in Block /\ Height[fin'] \in Nat /\ Height[fin] <= Height[fin']
  BY <1>1, <1>5, <1>6, HeightFacts DEF OnChain
<1>9. \A k \in 0 .. Height[tip] : headers'[k] = headers[k]
  BY <1>1, <1>3, <1>4, <1>7, ChainOrder
<1>10. headers'[h] = b
  BY <1>1, <1>7, HeightFacts
<1>11. TypeOK'
  <2>1. Partial(txIndex', Tx, Nat)
    <3>1. Txs[b] \subseteq Tx /\ Partial(txIndex, Tx, Nat)
      BY <1>1, RetentionAssumption, SMTT(30) DEF IInv, TypeOK
    <3> QED
      BY <1>1, <3>1 DEF CommitBlock, IndexTransactions, Partial
  <2>2. /\ Partial(headers', Nat, Block) /\ Partial(undo', Nat, Block) /\ Partial(body', Nat, Block)
    BY <1>1, <1>6, SMTT(30) DEF IInv, TypeOK, Partial, Put
  <2>3. Partial(term', Nat, Row)
    BY <1>1, <1>6 DEF IInv, TypeOK, Partial, Put, Row
  <2>4. auth' \subseteq Record /\ hot' \in [tip : Block, fin : Block, state : Block] /\ op' \in Operation
    BY <1>1, <1>6, <1>8, SMTT(30) DEF IInv, TypeOK, Operation
  <2> QED
    BY <1>1, <1>6, <1>8, <2>1, <2>2, <2>3, <2>4, SMTT(30) DEF TypeOK
<1>12. CanonicalChain'
  BY <1>5, <1>6, <1>7 DEF CanonicalChain
<1>13. TipTerminalValid'
  <2>1. h \in DOMAIN term' /\ term'[h] = [of |-> b, by |-> op.by]
    BY <1>6, SMTT(30) DEF Put
  <2>2. CASE op.by = b
    BY <2>1, <2>2, <1>6, SMTT(30) DEF TipTerminalValid, IsMarker
  <2>3. CASE op.by # b
    <3>1. PICK r \in auth : r.to = op.by /\ Height[r.from] <= Height[tip]
      BY <2>3, <1>2
    <3>2. r \in Record
      BY DEF IInv, TypeOK
    <3>3. Height[r.from] < h /\ h < Height[r.to]
      BY <2>3, <3>1, <3>2, <1>1, <1>2, HeightFacts, SMTT(30) DEF Record
    <3> QED
      BY <2>1, <2>3, <3>1, <3>3, <1>6 DEF TipTerminalValid
  <2> QED
    BY <2>2, <2>3, SMTT(30)
<1>14. SuffixCovered'
  <2> SUFFICES ASSUME NEW k \in Height[fin'] + 1 .. h
               PROVE  /\ k \in DOMAIN undo' /\ undo'[k] = headers'[k]
                      /\ k \in DOMAIN body' /\ body'[k] = headers'[k]
    BY <1>6, SMTT(30) DEF SuffixCovered
  <2>1. CASE k = h
    BY <2>1, <1>6, <1>10 DEF Put
  <2>2. CASE k # h
    <3>1. k \in Height[fin] + 1 .. Height[tip] /\ k \in 0 .. Height[tip]
      BY <2>2, <1>1, <1>2, <1>8
    <3> QED
      BY <3>1, <2>2, <1>6, <1>9, ZenonT(30) DEF IInv, TablesOK, SuffixCovered, Put
  <2> QED
    BY <2>1, <2>2, SMTT(30)
<1>15. TerminalsCover'
  <2>1. pruned' = 0 \/ pruned' < Height[fin']
    BY <1>1, <1>6, <1>8, SMTT(30) DEF IInv, TablesOK, TerminalsCover
  <2> SUFFICES ASSUME NEW k \in pruned + 1 .. h
               PROVE  k \in DOMAIN term' /\ term'[k].of = headers'[k]
    BY <1>6, <2>1, SMTT(30) DEF TerminalsCover
  <2>2. CASE k = h
    BY <2>2, <1>6, <1>10, SMTT(30) DEF Put
  <2>3. CASE k # h
    <3>1. k \in pruned + 1 .. Height[tip] /\ k \in 0 .. Height[tip]
      BY <2>3, <1>1, <1>2
    <3> QED
      BY <3>1, <2>3, <1>6, <1>9, SMTT(30) DEF IInv, TablesOK, TerminalsCover, Put
  <2> QED
    BY <2>2, <2>3
<1>16. BodiesServed'
  <2> SUFFICES ASSUME NEW k \in pruned + 2 .. h
               PROVE  k \in DOMAIN body' /\ body'[k] = headers'[k]
    BY <1>6, SMTT(30) DEF BodiesServed
  <2>1. CASE k = h
    BY <2>1, <1>6, <1>10 DEF Put
  <2>2. CASE k # h
    <3>1. k \in pruned + 2 .. Height[tip] /\ k \in 0 .. Height[tip]
      BY <2>2, <1>1, <1>2
    <3> QED
      BY <3>1, <2>2, <1>6, <1>9, ZenonT(30) DEF IInv, TablesOK, BodiesServed, Put
  <2> QED
    BY <2>1, <2>2, SMTT(30)
<1>17. WriterOK'
  <2>1. hot' = HotFromTables'
    BY <1>6, SMTT(30) DEF HotFromTables
  <2>2. CASE op.by = b
    BY <2>1, <2>2, <1>6, SMTT(30) DEF WriterOK, Idle
  <2>3. CASE op.by # b
    <3>1. /\ OnChain(tip', op.by) /\ Height[tip'] < Height[op.by]
      BY <2>3, <1>2, <1>6, SMTT(30)
    <3>2. \E r \in auth' : r.to = op.by /\ Height[r.from] <= Height[tip']
      <4>1. PICK r \in auth : r.to = op.by /\ Height[r.from] <= Height[tip]
        BY <2>3, <1>2
      <4>2. Height[r.from] \in Nat
        BY <4>1, HeightFacts DEF IInv, TypeOK, Record
      <4> QED
        BY <4>1, <4>2, <2>3, <1>1, <1>2, <1>6, SMTT(30)
    <3> QED
      BY <2>1, <2>3, <3>1, <3>2, <1>6, SMTT(30) DEF WriterOK
  <2> QED
    BY <2>2, <2>3
<1> QED
  BY <1>11, <1>12, <1>13, <1>14, <1>15, <1>16, <1>17 DEF IInv, TablesOK

\* A table with a replaced suffix keeps its type.
LEMMA BranchTyped ==
    ASSUME NEW tbl, NEW a \in Block, NEW t \in Block, Partial(tbl, Nat, Block)
    PROVE  Partial(Branch(tbl, a, t), Nat, Block)
<1>1. Height[a] \in Nat /\ Height[t] \in Nat /\ \A k \in 0 .. Height[t] : Ancestor[t][k] \in Block
  BY HeightFacts, AncestorFacts
<1> QED
  BY <1>1 DEF Branch, Partial

\* The rewritten transaction index keeps its type.
LEMMA ReorgTxIndexTyped ==
    ASSUME NEW a \in Block, NEW t \in Block, Partial(txIndex, Tx, Nat)
    PROVE  Partial(ReorgTxIndex(a, t), Tx, Nat)
<1> DEFINE hs == Height[a] + 1 .. Height[t]
           reverted == UNION {Txs[undo[h]] : h \in Height[a] + 1 .. Height[tip]}
           kept == {x \in DOMAIN txIndex : ~(x \in reverted /\ txIndex[x] > Height[a])}
           added == UNION {Txs[Ancestor[t][h]] : h \in hs}
           Where(x) == CHOOSE h \in hs : x \in Txs[Ancestor[t][h]]
<1>1. hs \subseteq Nat /\ hs \subseteq 0 .. Height[t]
  BY HeightFacts
<1>2. \A h \in hs : Txs[Ancestor[t][h]] \subseteq Tx
  BY <1>1, AncestorFacts, RetentionAssumption
<1>3. added \subseteq Tx
  BY <1>2
<1>4. \A x \in added : Where(x) \in Nat
  <2> SUFFICES ASSUME NEW x \in added PROVE Where(x) \in hs
    BY <1>1
  <2>1. \E h \in hs : x \in Txs[Ancestor[t][h]]
    OBVIOUS
  <2> QED
    BY <2>1
<1>5. kept \subseteq DOMAIN txIndex
  OBVIOUS
<1>6. ReorgTxIndex(a, t) = [x \in kept \cup added |-> IF x \in added THEN Where(x) ELSE txIndex[x]]
  BY DEF ReorgTxIndex
<1> HIDE DEF added, kept, Where
<1> QED
  BY <1>3, <1>4, <1>5, <1>6 DEF Partial

\* A staged branch replaces the suffix above its base.
LEMMA ReorgStep ==
    ASSUME IInv, CommitReorg
    PROVE  IInv'
<1> DEFINE a == op.base
           t == op.to
<1>1. /\ a \in Block /\ t \in Block /\ tip \in Block /\ fin \in Block
      /\ Height[a] \in Nat /\ Height[t] \in Nat /\ Height[tip] \in Nat
      /\ Height[fin] \in Nat /\ pruned \in Nat
  BY OperationFacts, TypedFacts, HeightFacts DEF IInv, CommitReorg
<1>2. /\ hot.fin = fin /\ hot.state = t /\ hot.tip = t
      /\ OnChain(fin, a) /\ OnChain(a, tip) /\ OnChain(a, t) /\ Height[a] < Height[t]
  BY DEF IInv, WriterOK, CommitReorg
<1>3. headers = Ancestor[tip]
  BY DEF IInv, TablesOK, CanonicalChain
<1>4. OnChain(fin, t)
  BY <1>1, <1>2, ChainOrder
<1>5. /\ FinalizedForTip(fin, t) \in Block /\ OnChain(fin, FinalizedForTip(fin, t))
      /\ OnChain(FinalizedForTip(fin, t), t)
      /\ Height[t] - Height[FinalizedForTip(fin, t)] <= FinalityDepth
  BY <1>1, <1>4, FinalizedFacts
<1>6. /\ tip' = t /\ fin' = FinalizedForTip(fin, t) /\ state' = t
      /\ headers' = Branch(headers, a, t) /\ undo' = Branch(undo, a, t) /\ body' = Branch(body, a, t)
      /\ term' = ReorgTerminals(a, t) /\ auth' = {}
      /\ pruned' = IF pruned > Height[a] THEN Height[a] ELSE pruned
      /\ txIndex' = ReorgTxIndex(a, t)
      /\ hot' = [hot EXCEPT !.fin = fin'] /\ op' = Idle /\ maint' = "payloads"
  BY <1>2 DEF CommitReorg, PersistReorg
<1>7. headers' = Ancestor[t]
  BY <1>1, <1>2, <1>3, <1>6, HeadersReplaced, SMTT(30)
<1>8. /\ fin' \in Block /\ Height[fin'] \in Nat /\ Height[fin] <= Height[fin']
      /\ Height[fin] <= Height[a] /\ Height[a] <= Height[tip]
  BY <1>1, <1>2, <1>5, <1>6, HeightFacts DEF OnChain
<1>9. \A k \in 0 .. Height[a] : headers'[k] = headers[k]
  BY <1>1, <1>2, <1>3, <1>7, ChainOrder
<1>10. pruned' = pruned /\ (pruned = 0 \/ pruned < Height[fin])
  BY <1>1, <1>6, <1>8 DEF IInv, TablesOK, TerminalsCover
<1>11. hot' = HotFromTables'
  BY <1>2, <1>6, TypedFacts DEF IInv, HotFromTables
<1>12. TypeOK'
  <2>1. Partial(headers', Nat, Block) /\ Partial(undo', Nat, Block) /\ Partial(body', Nat, Block)
    BY <1>1, <1>6, BranchTyped, ZenonT(30) DEF IInv, TypeOK
  <2>2. Partial(term', Nat, Row)
    <3>1. \A k \in 0 .. Height[t] : Ancestor[t][k] \in Block
      BY <1>1, AncestorFacts
    <3>2. Partial(term, Nat, Row)
      BY DEF IInv, TypeOK
    <3>3. DOMAIN term' = {j \in DOMAIN term : j <= Height[a]} \cup (Height[a] + 1 .. Height[t])
      BY <1>6, SMTT(30) DEF ReorgTerminals
    <3>4. ASSUME NEW k \in DOMAIN term' PROVE term'[k] \in Row /\ k \in Nat
      BY <1>1, <1>6, <3>1, <3>2, <3>3, <3>4 DEF ReorgTerminals, Partial, Row
    <3> QED
      BY <3>4 DEF Partial
  <2>3. Partial(txIndex', Tx, Nat)
    BY <1>1, <1>6, ReorgTxIndexTyped DEF IInv, TypeOK
  <2> QED
    BY <1>1, <1>2, <1>6, <1>8, <1>10, <2>1, <2>2, <2>3 DEF IInv, TypeOK, Operation
<1>13. CanonicalChain'
  BY <1>5, <1>6, <1>7 DEF CanonicalChain
<1>14. TipTerminalValid'
  <2>1. Ancestor[t][Height[t]] = t /\ Height[t] \in Height[a] + 1 .. Height[t]
    BY <1>1, <1>2, HeightFacts, SMTT(30)
  <2>2. Height[t] \in DOMAIN term' /\ term'[Height[t]] = [of |-> t, by |-> t]
    BY <2>1, <1>1, <1>6, SMTT(30) DEF ReorgTerminals
  <2> QED
    BY <2>2, <1>6 DEF TipTerminalValid, IsMarker
<1>15. \A k \in Height[a] + 1 .. Height[t] :
          /\ k \in DOMAIN undo' /\ undo'[k] = headers'[k]
          /\ k \in DOMAIN body' /\ body'[k] = headers'[k]
          /\ k \in DOMAIN term' /\ term'[k].of = headers'[k]
  BY <1>1, <1>2, <1>6, <1>7 DEF Branch, ReorgTerminals
<1>16. SuffixCovered'
  <2> SUFFICES ASSUME NEW k \in Height[fin'] + 1 .. Height[t]
               PROVE  /\ k \in DOMAIN undo' /\ undo'[k] = headers'[k]
                      /\ k \in DOMAIN body' /\ body'[k] = headers'[k]
    BY <1>6 DEF SuffixCovered
  <2>1. CASE k > Height[a]
    BY <2>1, <1>1, <1>8, <1>15, SMTT(30)
  <2>2. CASE k <= Height[a]
    <3>1. k \in Height[fin] + 1 .. Height[tip] /\ k \in 0 .. Height[a]
      BY <2>2, <1>1, <1>8
    <3>2. k \in DOMAIN undo /\ undo[k] = headers[k] /\ k \in DOMAIN body /\ body[k] = headers[k]
      BY <3>1 DEF IInv, TablesOK, SuffixCovered
    <3> QED
      BY <3>1, <3>2, <2>2, <1>1, <1>2, <1>6, <1>9, SMTT(30) DEF Branch
  <2> QED
    BY <2>1, <2>2, <1>1, <1>8
<1>17. TerminalsCover'
  <2>1. pruned' = 0 \/ pruned' < Height[fin']
    BY <1>1, <1>8, <1>10
  <2> SUFFICES ASSUME NEW k \in pruned + 1 .. Height[t]
               PROVE  k \in DOMAIN term' /\ term'[k].of = headers'[k]
    BY <1>6, <1>10, <2>1 DEF TerminalsCover
  <2>2. CASE k > Height[a]
    BY <2>2, <1>1, <1>15
  <2>3. CASE k <= Height[a]
    <3>1. k \in pruned + 1 .. Height[tip] /\ k \in 0 .. Height[a]
      BY <2>3, <1>1, <1>8
    <3>2. k \in DOMAIN term /\ term[k].of = headers[k]
      BY <3>1 DEF IInv, TablesOK, TerminalsCover
    <3>3. term[k] \in Row
      BY <3>2, SMTT(30) DEF IInv, TypeOK, Partial
    <3>4. k \in DOMAIN term' /\ term'[k].of = term[k].of
      BY <2>3, <3>2, <3>3, <1>1, <1>6 DEF ReorgTerminals, Row
    <3> QED
      BY <3>1, <3>2, <3>4, <1>9, SMTT(30)
  <2> QED
    BY <2>2, <2>3, <1>1, SMTT(30)
<1>18. BodiesServed'
  <2> SUFFICES ASSUME NEW k \in pruned + 2 .. Height[t]
               PROVE  k \in DOMAIN body' /\ body'[k] = headers'[k]
    BY <1>6, <1>10 DEF BodiesServed
  <2>1. CASE k > Height[a]
    BY <2>1, <1>1, <1>15, SMTT(30)
  <2>2. CASE k <= Height[a]
    <3>1. k \in pruned + 2 .. Height[tip] /\ k \in 0 .. Height[a]
      BY <2>2, <1>1, <1>8
    <3>2. k \in DOMAIN body /\ body[k] = headers[k]
      BY <3>1 DEF IInv, TablesOK, BodiesServed
    <3> QED
      BY <3>1, <3>2, <2>2, <1>1, <1>2, <1>6, <1>9, SMTT(30) DEF Branch
  <2> QED
    BY <2>1, <2>2, <1>1
<1>19. WriterOK'
  BY <1>6, <1>11 DEF WriterOK, Idle
<1> QED
  BY <1>12, <1>13, <1>14, <1>16, <1>17, <1>18, <1>19 DEF IInv, TablesOK

\* A snapshot replaces all tables by those of one finalized block.
LEMMA SnapshotStep ==
    ASSUME IInv, NEW t \in Block, InstallSnapshot(t)
    PROVE  IInv'
<1>1. /\ Height[t] \in Nat /\ Height[t] > 0 /\ op = Idle /\ maint = "none"
  BY TypedFacts, HeightFacts, SMTT(30) DEF IInv, InstallSnapshot, InstallAccepts, Free
<1>2. /\ tip' = t /\ fin' = t /\ state' = t /\ headers' = Ancestor[t]
      /\ undo' = [h \in {} |-> t] /\ body' = [h \in {} |-> t]
      /\ term' = [h \in {Height[t]} |-> Full(t)] /\ auth' = {}
      /\ pruned' = Height[t] - 1 /\ txIndex' = [x \in {} |-> 0]
      /\ hot' = [tip |-> t, fin |-> t, state |-> t] /\ op' = Idle /\ maint' = "none"
  BY <1>1 DEF InstallSnapshot, PersistSnapshot, SnapshotWatermark
<1>3. /\ Ancestor[t] \in [0 .. Height[t] -> Block] /\ Ancestor[t][Height[t]] = t /\ OnChain(t, t)
  BY HeightFacts, SMTT(30)
<1>4. TypeOK'
  <2>1. Partial(headers', Nat, Block)
    BY <1>1, <1>2, <1>3, SMTT(30) DEF Partial
  <2>2. Partial(undo', Nat, Block) /\ Partial(body', Nat, Block) /\ Partial(txIndex', Tx, Nat)
    BY <1>2, SMTT(30) DEF Partial
  <2>3. Partial(term', Nat, Row)
    BY <1>1, <1>2, SMTT(30) DEF Partial, Row, Full
  <2> QED
    BY <1>1, <1>2, <2>1, <2>2, <2>3, SMTT(30) DEF TypeOK, Operation
<1>5. CanonicalChain'
  BY <1>1, <1>2, <1>3, TreeAssumption, SMTT(30) DEF CanonicalChain
<1>6. TipTerminalValid'
  BY <1>2, SMTT(30) DEF TipTerminalValid, IsMarker, Full
<1>7. SuffixCovered' /\ BodiesServed'
  BY <1>1, <1>2, SMTT(30) DEF SuffixCovered, BodiesServed
<1>8. TerminalsCover'
  BY <1>1, <1>2, <1>3, SMTT(30) DEF TerminalsCover, Full
<1>9. WriterOK'
  BY <1>2 DEF WriterOK, HotFromTables, Idle
<1> QED
  BY <1>4, <1>5, <1>6, <1>7, <1>8, <1>9, SMTT(30) DEF IInv, TablesOK
==============================================================================
