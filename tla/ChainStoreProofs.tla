-------------------------- MODULE ChainStoreProofs --------------------------
(*****************************************************************************)
(* The theorems about ChainStore, for every block tree and every value of the*)
(* retention constants.                                                      *)
(*****************************************************************************)
EXTENDS ChainTipSteps

\* Bodies go up to the finalized height at most, terminals stay below it.
LEMMA PrunePayloadsStep ==
    ASSUME IInv, PrunePayloads
    PROVE  IInv'
<1>0. /\ tip \in Block /\ Height[tip] \in Nat /\ Height[fin] \in Nat /\ pruned \in Nat
      /\ Height[fin] <= Height[tip] /\ ServingDepth \in Nat
  BY TypedFacts, RetentionAssumption DEF IInv, TablesOK, CanonicalChain, OnChain
<1>1. PruneCutoff \in Int /\ PruneCutoff <= Height[fin]
  BY <1>0 DEF PruneCutoff
<1>2. /\ maint' = "undo"
      /\ UNCHANGED <<tip, fin, state, headers, undo, auth, txIndex, hot, op>>
  BY DEF PrunePayloads
<1>3. CASE pruned + 1 > PruneCutoff
  <2>1. UNCHANGED tables
    BY <1>2, <1>3 DEF PrunePayloads, tables
  <2>2. TablesOK'
    BY <2>1, TablesKept, SMTT(30) DEF IInv
  <2>3. TypeOK' /\ WriterOK'
    BY <1>2, <2>1, OperationFacts DEF IInv, TypeOK, WriterOK, tables, HotFromTables, PrunePayloads
  <2> QED
    BY <2>2, <2>3 DEF IInv
<1>4. CASE ~(pruned + 1 > PruneCutoff)
  <2>1. PICK last \in pruned .. PruneCutoff - 1, bare \in pruned .. PruneCutoff :
              /\ bare = last \/ bare = last + 1
              /\ term' = Drop(term, pruned + 1 .. last)
              /\ body' = Drop(body, pruned + 1 .. bare)
              /\ pruned' = last
    BY <1>4, <1>0, <1>1 DEF PrunePayloads
  <2>2. /\ last \in Nat /\ bare \in Nat /\ pruned <= last /\ last < Height[fin]
        /\ bare <= Height[fin] /\ bare <= last + 1
    BY <2>1, <1>0, <1>1, SMTT(30)
  <2>3. TypeOK'
    BY <1>2, <2>1, <2>2, SMTT(30) DEF IInv, TypeOK, Partial, Drop
  <2>4. WriterOK'
    BY <1>2, SMTT(30) DEF IInv, WriterOK, HotFromTables, PrunePayloads
  <2>5. SuffixCovered'
    BY <1>0, <1>2, <2>1, <2>2, SMTT(30) DEF IInv, TablesOK, SuffixCovered, Drop
  <2>6. TerminalsCover'
    <3>1. TerminalsCover
      BY DEF IInv, TablesOK
    <3>2. ASSUME NEW h \in last + 1 .. Height[tip]
          PROVE  h \in DOMAIN term' /\ term'[h] = term[h]
      BY <1>0, <2>1, <2>2, <3>1, SMTT(30) DEF TerminalsCover, Drop
    <3>3. \A h \in last + 1 .. Height[tip] : h \in pruned + 1 .. Height[tip]
      BY <1>0, <2>2
    <3>4. \A h \in last + 1 .. Height[tip] : h \in DOMAIN term' /\ term'[h].of = headers[h]
      BY <3>1, <3>2, <3>3, ZenonT(30) DEF TerminalsCover
    <3>5. last = 0 \/ last < Height[fin]
      BY <2>2, SMTT(30)
    <3> QED
      BY <1>2, <2>1, <3>4, <3>5, SMTT(30) DEF TerminalsCover
  <2>7. BodiesServed'
    BY <1>0, <1>2, <2>1, <2>2, SMTT(30) DEF IInv, TablesOK, BodiesServed, Drop
  <2>8. TipTerminalValid'
    <3>1. tip # Genesis => Height[tip] \notin pruned + 1 .. last
      BY <1>0, <2>2
    <3>2. TipTerminalValid
      BY SMTT(30) DEF IInv, TablesOK
    <3>3. tip # Genesis => Height[tip] \in DOMAIN term' /\ term'[Height[tip]] = term[Height[tip]]
      BY <3>1, <3>2, <2>1 DEF TipTerminalValid, Drop
    <3> QED
      BY <3>2, <3>3, <1>2 DEF TipTerminalValid
  <2>9. CanonicalChain'
    BY <1>2 DEF IInv, TablesOK, CanonicalChain
  <2> QED
    BY <2>3, <2>4, <2>5, <2>6, <2>7, <2>8, <2>9, SMTT(30) DEF IInv, TablesOK
<1> QED
  BY <1>3, <1>4, SMTT(30)

------------------------------------------------------------------------------
(* What the store checks before it commits *)

\* The row below a block that extends the tip is the tip's, and authorized.
LEMMA CommitAccepted ==
    ASSUME IInv, op.kind = "commit"
    PROVE  CommitAccepts(op.block, op.by)
<1> DEFINE b == op.block
<1>1. /\ b \in Block /\ op.by \in Block /\ Height[b] = Height[tip] + 1 /\ Parent(b) = tip
      /\ Height[tip] \in Nat /\ Height[fin] \in Nat /\ pruned \in Nat /\ tip \in Block
  BY OperationFacts, TypedFacts DEF IInv, WriterOK
<1>2. /\ headers = Ancestor[tip] /\ OnChain(fin, tip)
      /\ Height[tip] \in DOMAIN headers /\ headers[Height[tip]] = tip
  BY <1>1, HeightFacts DEF IInv, TablesOK, CanonicalChain
<1>3. ParentBoundary(b, headers, term)
  <2>1. CASE Height[tip] = 0
    BY <2>1, <1>1, <1>2 DEF ParentBoundary
  <2>2. CASE Height[tip] # 0
    <3>1. Height[tip] \in pruned + 1 .. Height[tip]
      BY <2>2, <1>1, <1>2 DEF IInv, TablesOK, TerminalsCover, OnChain
    <3>2. Height[tip] \in DOMAIN term /\ term[Height[tip]].of = headers[Height[tip]]
      BY <3>1, SMTT(30) DEF IInv, TablesOK, TerminalsCover
    <3>3. ASSUME IsMarker(term[Height[tip]])
          PROVE  MarkerHasAuthority(Height[tip], term[Height[tip]].by, headers, term)
      <4>1. tip # Genesis
        BY <2>2, TreeAssumption
      <4>2. PICK r \in auth : /\ r.to = term[Height[tip]].by
                              /\ Height[r.from] < Height[tip] /\ Height[tip] < Height[r.to]
        BY <3>3, <4>1 DEF IInv, TablesOK, TipTerminalValid
      <4>3. Height[r.from] \in Nat /\ Height[r.to] \in Nat
        BY HeightFacts DEF IInv, TypeOK, Record
      <4> QED
        BY <4>2, <4>3, <1>1 DEF MarkerHasAuthority
    <3>4. Height[b] - 1 = Height[tip]
      BY <1>1
    <3> QED
      BY <1>1, <1>2, <3>2, <3>3, <3>4 DEF ParentBoundary
  <2> QED
    BY <2>1, <2>2
<1>4. ASSUME op.by # b
      PROVE  \E r \in auth : /\ r.to = op.by
                             /\ Height[r.from] < Height[b] /\ Height[b] < Height[op.by]
  <2>1. PICK r \in auth : r.to = op.by /\ Height[r.from] <= Height[tip]
    BY <1>4 DEF IInv, WriterOK
  <2>2. Height[r.from] \in Nat
    BY HeightFacts DEF IInv, TypeOK, Record
  <2>3. Height[b] < Height[op.by]
    BY <1>4 DEF IInv, WriterOK
  <2> QED
    BY <2>1, <2>2, <2>3, <1>1
<1> QED
  BY <1>1, <1>3, <1>4 DEF CommitAccepts

\* Each replacement block stands on a row of the new branch: a marker bound to
\* the new tip, whose full terminal is part of the same transaction.
LEMMA ReorgAccepted ==
    ASSUME IInv, op.kind = "reorg", hot.tip = op.to
    PROVE  ReorgAccepts(op.base, op.to)
<1> DEFINE a == op.base
           t == op.to
           hdr == Branch(headers, a, t)
           trm == ReorgTerminals(a, t)
<1>1. /\ a \in Block /\ t \in Block /\ tip \in Block
      /\ Height[a] \in Nat /\ Height[t] \in Nat /\ Height[tip] \in Nat
      /\ Height[fin] \in Nat /\ pruned \in Nat /\ FinalityDepth \in Nat
  BY OperationFacts, TypedFacts, HeightFacts DEF IInv
<1>2. /\ OnChain(fin, a) /\ OnChain(a, tip) /\ OnChain(a, t) /\ Height[a] < Height[t]
      /\ Height[tip] - Height[a] <= FinalityDepth
  BY DEF IInv, WriterOK
<1>3. headers = Ancestor[tip]
  BY DEF IInv, TablesOK, CanonicalChain
<1>4. hdr = Ancestor[t] /\ DOMAIN Ancestor[t] = 0 .. Height[t] /\ Ancestor[t][Height[t]] = t
  BY <1>1, <1>2, <1>3, HeadersReplaced, HeightFacts
<1>5. Height[a] <= Height[tip] /\ Height[fin] <= Height[a]
  BY <1>2 DEF OnChain
<1>6. \A k \in Height[a] + 1 .. Height[t] : k \in DOMAIN trm /\ trm[k] = [of |-> Ancestor[t][k], by |-> t]
  BY <1>1 DEF ReorgTerminals
<1>7. Height[t] \in DOMAIN trm /\ trm[Height[t]] = Full(t)
  BY <1>1, <1>2, <1>4, <1>6 DEF Full
<1>8. ASSUME NEW k \in 0 .. Height[t] - 1
      PROVE  MarkerHasAuthority(k, t, hdr, trm)
  BY <1>1, <1>4, <1>7, <1>8, SMTT(30) DEF MarkerHasAuthority
<1>9. ASSUME Height[a] # 0
      PROVE  /\ Height[a] \in DOMAIN trm /\ trm[Height[a]].of = hdr[Height[a]]
             /\ IsMarker(trm[Height[a]]) => trm[Height[a]].by = t
  <2>1. Height[a] \in pruned + 1 .. Height[tip] /\ Height[a] \in 0 .. Height[a]
    BY <1>1, <1>5, <1>9 DEF IInv, TablesOK, TerminalsCover
  <2>2. Height[a] \in DOMAIN term /\ term[Height[a]].of = headers[Height[a]]
    BY <2>1 DEF IInv, TablesOK, TerminalsCover
  <2>3. term[Height[a]] \in Row
    BY <2>2 DEF IInv, TypeOK, Partial
  <2>4. headers[Height[a]] = hdr[Height[a]]
    BY <1>1, <1>2, <1>3, <1>4, <2>1, ChainOrder, SMTT(30)
  <2>5. /\ Height[a] \in DOMAIN trm
        /\ trm[Height[a]] = IF IsMarker(term[Height[a]]) THEN [term[Height[a]] EXCEPT !.by = t]
                            ELSE term[Height[a]]
    BY <1>1, <2>2 DEF ReorgTerminals
  <2> QED
    BY <2>2, <2>3, <2>4, <2>5 DEF Row, IsMarker
<1>10. ASSUME NEW h \in Height[a] + 1 .. Height[t]
       PROVE  ParentBoundary(Ancestor[t][h], hdr, trm)
  <2> DEFINE b == Ancestor[t][h]
  <2>1. /\ h \in 0 .. Height[t] /\ h - 1 \in 0 .. Height[t] - 1 /\ h - 1 \in 0 .. h
        /\ h - 1 \in Nat /\ h - 1 >= Height[a]
    BY <1>1
  <2>2. Height[b] = h /\ Parent(b) = Ancestor[t][h - 1]
    BY <2>1, <1>1, AncestorFacts DEF Parent
  <2>3. h - 1 \in DOMAIN hdr /\ hdr[h - 1] = Parent(b)
    BY <1>1, <1>4, <2>1, <2>2, SMTT(30)
  <2>4. CASE h - 1 = Height[a]
    <3>1. ASSUME h - 1 # 0
          PROVE  /\ h - 1 \in DOMAIN trm /\ trm[h - 1].of = hdr[h - 1]
                 /\ IsMarker(trm[h - 1]) => MarkerHasAuthority(h - 1, trm[h - 1].by, hdr, trm)
      BY <3>1, <2>4, <2>1, <1>8, <1>9, SMTT(30)
    <3> QED
      BY <2>2, <2>3, <3>1, SMTT(30) DEF ParentBoundary
  <2>5. CASE h - 1 # Height[a]
    <3>1. h - 1 \in Height[a] + 1 .. Height[t]
      BY <2>5, <2>1, <1>1
    <3>2. h - 1 \in DOMAIN trm /\ trm[h - 1] = [of |-> Ancestor[t][h - 1], by |-> t]
      BY <3>1, <1>6
    <3>3. trm[h - 1].of = hdr[h - 1] /\ trm[h - 1].by = t
      BY <3>2, <1>4
    <3> QED
      BY <2>1, <2>2, <2>3, <3>2, <3>3, <1>8 DEF ParentBoundary
  <2> QED
    BY <2>4, <2>5
<1> QED
  BY <1>2, <1>5, <1>10 DEF ReorgAccepts

------------------------------------------------------------------------------
(* Every step *)

\* Every step of the store preserves the inductive invariant.
LEMMA NextIInv == IInv /\ [Next]_vars => IInv'
<1> SUFFICES ASSUME IInv, [Next]_vars PROVE IInv'
  OBVIOUS
<1>1. ASSUME NEW b \in Block, ApplyLocalBlock(b) PROVE IInv'
  BY <1>1, LocalBlockStep
<1>2. ASSUME NEW b \in Block, InstallSnapshot(b) PROVE IInv'
  BY <1>2, SnapshotStep
<1>3. ASSUME NEW a \in Block, NEW b \in Block, BeginSuffix(a, b) PROVE IInv'
  BY <1>3, BeginSuffixStep
<1>4. ASSUME NEW a \in Block, NEW b \in Block, StageReorg(a, b) PROVE IInv'
  BY <1>4, StageReorgStep
<1>5. CASE CommitBlock
  BY <1>5, CommitStep
<1>6. CASE RejectBlock
  BY <1>6, RejectStep, SMTT(30)
<1>7. CASE ApplySuffixBlock
  BY <1>7, SuffixBlockStep
<1>8. CASE StopSuffix
  BY <1>8, StopStep
<1>9. CASE StageBlock
  BY <1>9, StageBlockStep
<1>10. CASE AbortReorg
  BY <1>10, AbortStep
<1>11. CASE CommitReorg
  BY <1>11, ReorgStep
<1>12. CASE PrunePayloads
  BY <1>12, PrunePayloadsStep
<1>13. CASE PruneUndo
  BY <1>13, PruneUndoStep
<1>14. CASE PruneFails
  BY <1>14, PruneFailsStep
<1>15. CASE Crash
  BY <1>15, CrashStep
<1>16. CASE Open
  BY <1>16, OpenStep
<1>17. CASE UNCHANGED vars
  <2>1. UNCHANGED tables /\ UNCHANGED <<hot, op, maint>>
    BY <1>17 DEF vars, tables
  <2>2. TablesOK'
    BY <2>1, TablesKept DEF IInv
  <2> QED
    BY <2>1, <2>2 DEF IInv, TypeOK, WriterOK, HotFromTables, tables
<1> QED
  BY <1>1, <1>2, <1>3, <1>4, <1>5, <1>6, <1>7, <1>8, <1>9, <1>10, <1>11, <1>12, <1>13,
     <1>14, <1>15, <1>16, <1>17 DEF Next

------------------------------------------------------------------------------
(* Refinement *)

\* A step of the store is a step of the abstract chain, or leaves the canonical
\* tip and the checkpoint alone.
LEMMA StepRefines == IInv /\ [Next]_vars => [Abstract!Next]_<<tip, fin>>
<1> SUFFICES ASSUME IInv, [Next]_vars PROVE [Abstract!Next]_<<tip, fin>>
  OBVIOUS
<1>1. /\ tip \in Block /\ fin \in Block /\ Height[tip] \in Nat /\ Height[fin] \in Nat
      /\ FinalityDepth \in Nat /\ OnChain(fin, tip) /\ headers = Ancestor[tip]
  BY TypedFacts DEF IInv, TablesOK, CanonicalChain
<1>2. ASSUME NEW a \in Block, NEW b \in Block, OnChain(a, tip), OnChain(a, b), OnChain(fin, a),
             Height[tip] - Height[a] <= FinalityDepth, ChooseByWork(b, tip)
      PROVE  Abstract!Eligible(b)
  BY <1>2 DEF Abstract!Eligible, Abstract!OnChain, OnChain, Abstract!ChooseByWork, ChooseByWork
<1>3. ASSUME NEW b \in Block, OnChain(tip, b), Height[tip] < Height[b]
      PROVE  Abstract!Eligible(b)
  <2>1. OnChain(tip, tip) /\ Height[tip] - Height[tip] <= FinalityDepth
    BY <1>1, HeightFacts
  <2>2. ChooseByWork(b, tip)
    BY <1>1, <1>3, ExtensionWins
  <2> QED
    BY <1>1, <1>2, <1>3, <2>1, <2>2
<1>4. CASE CommitBlock
  <2> DEFINE b == op.block
  <2>1. /\ b \in Block /\ Height[b] = Height[tip] + 1 /\ Parent(b) = tip /\ hot.fin = fin
    BY <1>4, OperationFacts DEF IInv, WriterOK, CommitBlock
  <2>2. OnChain(tip, b)
    BY <2>1, <1>1, ParentFacts, SMTT(30)
  <2>3. tip' = b /\ fin' = FinalizedForTip(fin, b)
    BY <1>4, <2>1 DEF CommitBlock, PersistTip
  <2>4. Abstract!Eligible(b)
    BY <1>1, <1>3, <2>1, <2>2, SMTT(30)
  <2> QED
    BY <2>1, <2>3, <2>4, SMTT(30) DEF Abstract!Next, Abstract!Advance, Abstract!FinalizedForTip, FinalizedForTip
<1>5. CASE CommitReorg
  <2>1. /\ op.base \in Block /\ op.to \in Block /\ hot.fin = fin
        /\ OnChain(fin, op.base) /\ OnChain(op.base, tip) /\ OnChain(op.base, op.to)
        /\ Height[tip] - Height[op.base] <= FinalityDepth /\ ChooseByWork(op.to, tip)
    BY <1>5, OperationFacts DEF IInv, WriterOK, CommitReorg
  <2>2. tip' = op.to /\ fin' = FinalizedForTip(fin, op.to)
    BY <1>5, <2>1 DEF CommitReorg, PersistReorg
  <2>3. Abstract!Eligible(op.to)
    BY <1>2, <2>1
  <2> QED
    BY <2>1, <2>2, <2>3 DEF Abstract!Next, Abstract!Advance, Abstract!FinalizedForTip, FinalizedForTip
<1>6. ASSUME NEW t \in Block, InstallSnapshot(t)
      PROVE  [Abstract!Next]_<<tip, fin>>
  <2>1. tip' = t /\ fin' = t /\ Height[tip] < Height[t]
    BY <1>6 DEF InstallSnapshot, InstallAccepts, PersistSnapshot
  <2>2. Abstract!Eligible(t)
    <3>1. CASE OnChain(tip, t)
      BY <3>1, <2>1, <1>3
    <3>2. CASE ~OnChain(tip, t)
      <4>1. PICK a \in Block : /\ ForkPoint(a, tip, t) /\ Height[a] >= Height[fin]
                               /\ Height[tip] - Height[a] <= FinalityDepth /\ ChooseByWork(t, tip)
        BY <3>2, <1>6, SMTT(30) DEF InstallSnapshot, InstallAccepts
      <4>2. OnChain(a, tip) /\ OnChain(a, t) /\ Height[a] \in Nat
        BY <4>1, ForkFacts, HeightFacts, SMTT(30)
      <4>3. OnChain(fin, a)
        BY <4>1, <4>2, <1>1, ChainOrder, SMTT(30)
      <4> QED
        BY <4>1, <4>2, <4>3, <1>2, SMTT(30)
    <3> QED
      BY <3>1, <3>2
  <2>3. Height[t] > Height[tip]
    BY <2>1, <1>1, HeightFacts
  <2> QED
    BY <2>1, <2>2, <2>3, SMTT(30) DEF Abstract!Next, Abstract!Adopt
<1>7. CASE Open
  <2>1. Restorable
    BY InvRestorable
  <2> QED
    BY <1>7, <2>1 DEF Open, tables
<1>8. ASSUME NEW b \in Block, ApplyLocalBlock(b) PROVE UNCHANGED <<tip, fin>>
  BY <1>8 DEF ApplyLocalBlock, tables
<1>9. ASSUME NEW a \in Block, NEW b \in Block, BeginSuffix(a, b) \/ StageReorg(a, b)
      PROVE  UNCHANGED <<tip, fin>>
  BY <1>9 DEF BeginSuffix, StageReorg, tables
<1>10. CASE RejectBlock \/ ApplySuffixBlock \/ StopSuffix \/ StageBlock \/ AbortReorg
  BY <1>10, SMTT(30) DEF RejectBlock, ApplySuffixBlock, StopSuffix, StageBlock, AbortReorg, tables
<1>11. CASE PrunePayloads \/ PruneUndo \/ PruneFails \/ Crash
  BY <1>11 DEF PrunePayloads, PruneUndo, PruneFails, Crash, tables
<1>12. CASE UNCHANGED vars
  BY <1>12 DEF vars, tables
<1> QED
  BY <1>4, <1>5, <1>6, <1>7, <1>8, <1>9, <1>10, <1>11, <1>12 DEF Next

\* What an abstract step may do to the checkpoint and the tip.
LEMMA StepFinality ==
    ASSUME IInv, [Abstract!Next]_<<tip, fin>>
    PROVE  /\ OnChain(fin, fin') /\ OnChain(fin, tip')
           /\ tip' # tip => ChooseByWork(tip', tip)
<1>1. /\ tip \in Block /\ fin \in Block /\ OnChain(fin, tip)
  BY TypedFacts DEF IInv, TablesOK, CanonicalChain
<1>2. CASE UNCHANGED <<tip, fin>>
  BY <1>1, <1>2, HeightFacts, SMTT(30)
<1>3. ASSUME NEW b \in Block, Abstract!Eligible(b)
      PROVE  OnChain(fin, b) /\ ChooseByWork(b, tip)
  <2>1. PICK a \in Block : OnChain(a, b) /\ OnChain(fin, a)
    BY <1>3 DEF Abstract!Eligible, Abstract!OnChain, OnChain
  <2> QED
    BY <2>1, <1>1, <1>3, ChainOrder DEF Abstract!Eligible, Abstract!ChooseByWork, ChooseByWork
<1>4. ASSUME NEW b \in Block, Abstract!Advance(b)
      PROVE  OnChain(fin, fin') /\ OnChain(fin, tip') /\ ChooseByWork(tip', tip)
  <2>1. tip' = b /\ fin' = FinalizedForTip(fin, b) /\ Abstract!Eligible(b)
    BY <1>4 DEF Abstract!Advance, Abstract!FinalizedForTip, FinalizedForTip
  <2> QED
    BY <2>1, <1>1, <1>3, FinalizedFacts
<1>5. ASSUME NEW b \in Block, Abstract!Adopt(b)
      PROVE  OnChain(fin, fin') /\ OnChain(fin, tip') /\ ChooseByWork(tip', tip)
  BY <1>1, <1>3, <1>5 DEF Abstract!Adopt
<1> QED
  BY <1>2, <1>4, <1>5 DEF Abstract!Next

------------------------------------------------------------------------------
(* Theorems *)

\* The inductive invariant holds in every reachable state of the store.
THEOREM StoreInvariant == Spec => []IInv
BY InitIInv, NextIInv, PTL DEF Spec

\* Tables, resident context, writer and maintenance state stay well typed.
THEOREM StoreTypes == Spec => []TypeOK
<1>1. IInv => TypeOK
  BY DEF IInv
<1> QED
  BY <1>1, StoreInvariant, PTL

\* After every commit, reorganization, snapshot, failure and restart the header
\* tables hold exactly the chain of the tip, and the checkpoint lies on it.
THEOREM StoreCanonicalChain == Spec => []CanonicalChain
<1>1. IInv => CanonicalChain
  BY DEF IInv, TablesOK
<1> QED
  BY <1>1, StoreInvariant, PTL

\* A crash at any point leaves tables that the next open restores.
THEOREM StoreCrashSafe == Spec => []CrashSafe
<1>1. IInv => CrashSafe
  BY InvRestorable, SMTT(30) DEF CrashSafe
<1> QED
  BY <1>1, StoreInvariant, PTL

\* Between operations the context in RAM equals what a restart would rebuild.
THEOREM StoreHotMatches == Spec => []HotMatchesTables
<1>1. IInv => HotMatchesTables
  BY DEF IInv, WriterOK, HotMatchesTables
<1> QED
  BY <1>1, StoreInvariant, PTL

\* commit_block and commit_reorg never refuse what the context prepared.
THEOREM StoreAccepts == Spec => []StoreAcceptsPrepared
<1>1. IInv => StoreAcceptsPrepared
  BY CommitAccepted, ReorgAccepted DEF StoreAcceptsPrepared
<1> QED
  BY <1>1, StoreInvariant, PTL

\* Undo logs and bodies cover the non-final suffix, terminals and bodies every
\* height above the pruning watermark, which stays below the finalized block.
THEOREM StoreRetention == Spec => []RetentionCovers
<1>1. IInv => RetentionCovers
  BY DEF IInv, TablesOK, RetentionCovers
<1> QED
  BY <1>1, StoreInvariant, PTL

\* The checkpoint never leaves the canonical chain, whatever is reorganized,
\* installed or restored.
THEOREM StoreFinality == Spec => FinalityHolds
<1>1. IInv /\ [Next]_vars => [OnChain(fin, fin') /\ OnChain(fin, tip')]_vars
  BY StepRefines, StepFinality
<1> QED
  BY <1>1, StoreInvariant, PTL DEF Spec, FinalityHolds

\* The tip is replaced only by one that fork choice prefers.
THEOREM StoreTipImproves == Spec => TipImproves
<1>1. IInv /\ [Next]_vars => [tip' # tip => ChooseByWork(tip', tip)]_vars
  BY StepRefines, StepFinality
<1> QED
  BY <1>1, StoreInvariant, PTL DEF Spec, TipImproves

\* The store implements the abstract chain of one tip and one checkpoint.
THEOREM StoreImplementsFinalChain == Spec => ImplementsFinalChain
<1>1. Init => Abstract!Init
  BY DEF Init, Abstract!Init
<1> QED
  BY <1>1, StoreInvariant, StepRefines, PTL DEF Spec, ImplementsFinalChain, Abstract!Spec
==============================================================================
