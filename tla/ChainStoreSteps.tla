--------------------------- MODULE ChainStoreSteps ---------------------------
(*****************************************************************************)
(* The inductive invariant of ChainStore, and the steps that leave the       *)
(* canonical tip where it is.                                                *)
(*****************************************************************************)
EXTENDS ChainStore, BlockTreeFacts

\* What a writer has prepared, relative to the tables it started from.
WriterOK ==
    /\ op.kind \in {"idle", "suffix"} => hot = HotFromTables
    /\ op.kind = "suffix" =>
          /\ OnChain(tip, op.to) /\ Height[tip] < Height[op.to]
          /\ \E r \in auth : r.to = op.to /\ Height[r.from] <= Height[tip]
    /\ op.kind = "commit" =>
          /\ hot = [tip |-> tip, fin |-> fin, state |-> op.block]
          /\ Height[op.block] = Height[tip] + 1 /\ Parent(op.block) = tip
          /\ op.by # op.block =>
                /\ OnChain(op.block, op.by) /\ Height[op.block] < Height[op.by]
                /\ \E r \in auth : r.to = op.by /\ Height[r.from] <= Height[tip]
    /\ op.kind = "reorg" =>
          /\ hot.fin = fin /\ hot.state = hot.tip
          /\ OnChain(fin, op.base) /\ OnChain(op.base, tip)
          /\ Height[tip] - Height[op.base] <= FinalityDepth
          /\ OnChain(op.base, hot.tip) /\ OnChain(hot.tip, op.to)
          /\ Height[op.base] < Height[op.to]
          /\ ChooseByWork(op.to, tip)
          /\ maint = "none"

------------------------------------------------------------------------------
(* The header tables *)

\* Putting a block's header on its parent's chain gives the block's chain.
LEMMA HeadersExtended ==
    ASSUME NEW b \in Block, Height[b] > 0
    PROVE  Put(Ancestor[Parent(b)], Height[b], b) = Ancestor[b]
<1> DEFINE p == Parent(b)
<1>1. /\ p \in Block /\ Height[p] = Height[b] - 1 /\ OnChain(p, b) /\ Height[b] \in Nat
  BY ParentFacts, HeightFacts
<1>2. /\ DOMAIN Ancestor[p] = 0 .. Height[b] - 1
      /\ Ancestor[b] \in [0 .. Height[b] -> Block] /\ Ancestor[b][Height[b]] = b
  BY <1>1, HeightFacts
<1>3. \A k \in 0 .. Height[b] - 1 : Ancestor[p][k] = Ancestor[b][k]
  BY <1>1, ChainOrder
<1>4. DOMAIN Ancestor[p] \cup {Height[b]} = 0 .. Height[b]
  BY <1>1, <1>2
<1>5. \A k \in 0 .. Height[b] : (IF k = Height[b] THEN b ELSE Ancestor[p][k]) = Ancestor[b][k]
  BY <1>1, <1>2, <1>3
<1> QED
  BY <1>2, <1>4, <1>5, ZenonT(30) DEF Put

\* Replacing the rows above a common ancestor gives the other branch's chain.
LEMMA HeadersReplaced ==
    ASSUME NEW a \in Block, NEW t \in Block, NEW b \in Block, OnChain(a, t), OnChain(a, b)
    PROVE  Branch(Ancestor[t], a, b) = Ancestor[b]
<1>1. /\ Height[a] \in Nat /\ Height[b] \in Nat /\ Height[t] \in Nat
      /\ Height[a] <= Height[t] /\ Height[a] <= Height[b]
      /\ DOMAIN Ancestor[t] = 0 .. Height[t] /\ Ancestor[b] \in [0 .. Height[b] -> Block]
  BY HeightFacts DEF OnChain
<1>2. \A k \in 0 .. Height[a] : Ancestor[t][k] = Ancestor[b][k]
  BY ChainOrder
<1> DEFINE D == {j \in DOMAIN Ancestor[t] : j <= Height[a]} \cup (Height[a] + 1 .. Height[b])
<1>3. D = 0 .. Height[b]
  BY <1>1
<1>4. \A k \in D : (IF k <= Height[a] THEN Ancestor[t][k] ELSE Ancestor[b][k]) = Ancestor[b][k]
  BY <1>1, <1>2, <1>3
<1>5. Ancestor[b] = [k \in D |-> Ancestor[b][k]]
  BY <1>1, <1>3
<1>6. [k \in D |-> IF k <= Height[a] THEN Ancestor[t][k] ELSE Ancestor[b][k]]
        = [k \in D |-> Ancestor[b][k]]
  BY <1>4
<1> QED
  BY <1>5, <1>6 DEF Branch

------------------------------------------------------------------------------
(* The inductive invariant *)

TablesOK ==
    /\ CanonicalChain
    /\ TipTerminalValid
    /\ SuffixCovered
    /\ TerminalsCover
    /\ BodiesServed

IInv == TypeOK /\ TablesOK /\ WriterOK

\* The fields of an operation, by its kind.
LEMMA OperationFacts ==
    ASSUME TypeOK
    PROVE  /\ op.kind = "suffix" => op.to \in Block
           /\ op.kind = "commit" => op.block \in Block /\ op.by \in Block
           /\ op.kind = "reorg" => op.base \in Block /\ op.to \in Block
           /\ op.kind = "idle" => op = Idle
           /\ op.kind = "down" => op = Down
           /\ op.kind \in {"idle", "down", "suffix", "commit", "reorg"}
BY DEF TypeOK, Operation, Idle, Down

\* The facts about heights and the context that every step uses.
LEMMA TypedFacts ==
    ASSUME TypeOK
    PROVE  /\ tip \in Block /\ fin \in Block /\ Height[tip] \in Nat /\ Height[fin] \in Nat
           /\ pruned \in Nat /\ FinalityDepth \in Nat /\ FinalityDepth > 0
           /\ hot \in [tip : Block, fin : Block, state : Block]
BY HeightFacts, TreeAssumption, SMTT(30) DEF TypeOK

\* Steps that leave the tables alone keep what is known about them.
LEMMA TablesKept ==
    ASSUME TablesOK, UNCHANGED tables
    PROVE  TablesOK'
BY DEF TablesOK, tables, CanonicalChain, TipTerminalValid, SuffixCovered, TerminalsCover, BodiesServed

\* A fresh database holds the genesis chain.
LEMMA InitIInv == Init => IInv
<1> SUFFICES ASSUME Init PROVE IInv
  OBVIOUS
<1>1. Genesis \in Block /\ Height[Genesis] = 0
  BY TreeAssumption
<1>2. TypeOK
  BY <1>1 DEF Init, TypeOK, Partial, Operation, Idle
<1>3. CanonicalChain
  <2>1. Ancestor[Genesis] = [h \in {0} |-> Genesis]
    <3>1. Ancestor[Genesis] \in [0 .. 0 -> Block] /\ Ancestor[Genesis][0] = Genesis
      BY <1>1, HeightFacts, ZenonT(30)
    <3>2. 0 .. 0 = {0}
      OBVIOUS
    <3> QED
      BY <3>1, <3>2
  <2> QED
    BY <1>1, <2>1, TreeAssumption, HeightFacts DEF Init, CanonicalChain
<1>4. TipTerminalValid /\ SuffixCovered /\ TerminalsCover /\ BodiesServed
  BY <1>1 DEF Init, TipTerminalValid, SuffixCovered, TerminalsCover, BodiesServed
<1>5. WriterOK
  BY DEF Init, WriterOK, Idle, HotFromTables
<1> QED
  BY <1>2, <1>3, <1>4, <1>5 DEF IInv, TablesOK

------------------------------------------------------------------------------
(* Steps of a writer in RAM *)

\* Applying a local block changes only the resident state.
LEMMA LocalBlockStep ==
    ASSUME IInv, NEW b \in Block, ApplyLocalBlock(b)
    PROVE  IInv'
<1>1. TablesOK'
  BY TablesKept DEF IInv, ApplyLocalBlock
<1>2. TypeOK'
  BY DEF IInv, TypeOK, ApplyLocalBlock, tables, Operation
<1>3. hot = HotFromTables
  BY DEF IInv, WriterOK, ApplyLocalBlock, Free, Idle
<1>4. WriterOK'
  BY <1>3 DEF IInv, TypeOK, WriterOK, ApplyLocalBlock, tables, HotFromTables
<1> QED
  BY <1>1, <1>2, <1>4 DEF IInv

\* A rejected block is rolled back to the committed tip.
LEMMA RejectStep ==
    ASSUME IInv, RejectBlock
    PROVE  IInv'
<1>1. TablesOK'
  BY TablesKept DEF IInv, RejectBlock
<1>2. TypeOK'
  BY DEF IInv, TypeOK, RejectBlock, tables, Operation
<1>3. hot.tip = tip /\ hot.fin = fin /\ state = tip
  BY DEF IInv, WriterOK, RejectBlock, TablesOK, CanonicalChain
<1>4. WriterOK'
  BY <1>3 DEF IInv, TypeOK, WriterOK, RejectBlock, tables, HotFromTables, Idle
<1> QED
  BY <1>1, <1>2, <1>4 DEF IInv

\* The next block of a suffix extends the tip and is below the target.
LEMMA SuffixBlockStep ==
    ASSUME IInv, ApplySuffixBlock
    PROVE  IInv'
<1> DEFINE n == Ancestor[op.to][Height[hot.tip] + 1]
<1>1. TablesOK'
  BY TablesKept DEF IInv, ApplySuffixBlock
<1>2. /\ hot = HotFromTables /\ hot.tip = tip /\ OnChain(tip, op.to) /\ Height[tip] < Height[op.to]
      /\ \E r \in auth : r.to = op.to /\ Height[r.from] <= Height[tip]
  BY DEF IInv, WriterOK, ApplySuffixBlock, HotFromTables
<1>3. op.to \in Block /\ tip \in Block
  BY OperationFacts, TypedFacts, SMTT(30) DEF IInv, ApplySuffixBlock
<1>4. /\ n \in Block /\ Height[n] = Height[tip] + 1 /\ OnChain(n, op.to) /\ Parent(n) = tip
  BY <1>2, <1>3, NextFacts, SMTT(30)
<1>5. n # op.to => Height[n] < Height[op.to]
  BY <1>3, <1>4, HeightFacts DEF OnChain
<1> HIDE DEF n
<1>6. /\ hot' = [hot EXCEPT !.state = n]
      /\ op' = [kind |-> "commit", block |-> n, by |-> op.to]
      /\ UNCHANGED <<tables, maint>>
  BY DEF ApplySuffixBlock, n
<1>7. TypeOK'
  BY <1>3, <1>4, <1>6 DEF IInv, TypeOK, tables, Operation
<1>8. WriterOK'
  BY <1>2, <1>4, <1>5, <1>6 DEF WriterOK, tables, HotFromTables
<1> QED
  BY <1>1, <1>7, <1>8 DEF IInv

\* A stopped suffix leaves the committed blocks in place.
LEMMA StopStep ==
    ASSUME IInv, StopSuffix
    PROVE  IInv'
<1>1. TablesOK'
  BY TablesKept DEF IInv, StopSuffix
<1>2. TypeOK'
  BY DEF IInv, TypeOK, StopSuffix, tables, Operation
<1>3. WriterOK'
  BY DEF IInv, WriterOK, StopSuffix, tables, HotFromTables, Idle
<1> QED
  BY <1>1, <1>2, <1>3 DEF IInv

\* Beginning a suffix changes only the authority record; a marker tip keeps a
\* record that covers it.
LEMMA BeginSuffixStep ==
    ASSUME IInv, NEW base \in Block, NEW t \in Block, BeginSuffix(base, t)
    PROVE  IInv'
<1>1. /\ tip \in Block /\ Height[tip] \in Nat /\ tip = base /\ hot = HotFromTables
      /\ OnChain(tip, t) /\ Height[tip] < Height[t]
  BY TypedFacts DEF IInv, WriterOK, BeginSuffix, Free, Idle
<1>2. /\ auth' = SuffixRecords(t) /\ SuffixRecords(t) # {}
      /\ op' = [kind |-> "suffix", to |-> t]
      /\ UNCHANGED <<tip, fin, state, headers, undo, body, term, pruned, txIndex, hot, maint>>
  BY DEF BeginSuffix
<1>3. SuffixRecords(t) \subseteq Record
  BY <1>1 DEF IInv, TypeOK, SuffixRecords, Record
<1>4. \A r \in SuffixRecords(t) : r.to = t /\ Height[r.from] <= Height[tip]
  <2>1. \A r \in SuffixRecords(t) : r.to = t /\ (Height[r.from] < Height[tip] \/ r.from = tip)
    BY DEF SuffixRecords
  <2> QED
    BY <2>1, <1>1, <1>3, HeightFacts, SMTT(30) DEF Record
<1>5. TypeOK'
  BY <1>2, <1>3 DEF IInv, TypeOK, Operation
<1>6. TipTerminalValid'
  <2>1. CASE tip = Genesis
    BY <2>1, <1>2, SMTT(30) DEF TipTerminalValid
  <2>2. CASE tip # Genesis /\ ~IsMarker(term[Height[tip]])
    BY <2>2, <1>2 DEF TipTerminalValid, IInv, TablesOK
  <2>3. CASE tip # Genesis /\ IsMarker(term[Height[tip]])
    <3>1. Height[tip] \in DOMAIN term /\ term[Height[tip]].of = tip
      BY <2>3 DEF IInv, TablesOK, TipTerminalValid
    <3>2. \A r \in SuffixRecords(t) :
             /\ r.to = term[Height[tip]].by
             /\ Height[r.from] < Height[tip] /\ Height[tip] < Height[r.to]
      BY <2>3, <3>1 DEF SuffixRecords
    <3> QED
      BY <3>1, <3>2, <1>2 DEF TipTerminalValid
  <2> QED
    BY <2>1, <2>2, <2>3
<1>7. TablesOK'
  BY <1>2, <1>6 DEF IInv, TablesOK, CanonicalChain, SuffixCovered, TerminalsCover, BodiesServed
<1>8. WriterOK'
  BY <1>1, <1>2, <1>4 DEF WriterOK, HotFromTables
<1> QED
  BY <1>5, <1>7, <1>8 DEF IInv

\* Staging reverts the resident context to the fork point only.
LEMMA StageReorgStep ==
    ASSUME IInv, NEW a \in Block, NEW t \in Block, StageReorg(a, t)
    PROVE  IInv'
<1>1. TablesOK'
  BY TablesKept DEF IInv, StageReorg
<1>2. TypeOK'
  BY ZenonT(30) DEF IInv, TypeOK, StageReorg, tables, Operation
<1>3. hot = HotFromTables /\ hot.tip = tip /\ hot.fin = fin /\ maint = "none"
  BY DEF IInv, WriterOK, StageReorg, Free, Idle, HotFromTables
<1>4. /\ OnChain(a, tip) /\ OnChain(a, t) /\ Height[a] < Height[t]
      /\ Height[tip] - Height[a] <= FinalityDepth
      /\ Height[fin] <= Height[a] /\ ChooseByWork(t, tip)
  BY <1>3, TypedFacts, HeightFacts, ForkFacts DEF IInv, StageReorg, ReorgAuthorized, ReplacementWins
<1>5. OnChain(fin, a)
  BY <1>4, TypedFacts, ChainOrder DEF IInv, TablesOK, CanonicalChain
<1>6. OnChain(a, a)
  BY HeightFacts
<1>7. /\ hot' = [hot EXCEPT !.tip = a, !.state = a]
      /\ op' = [kind |-> "reorg", base |-> a, to |-> t]
      /\ UNCHANGED <<tables, maint>>
  BY DEF StageReorg
<1>8. WriterOK'
  BY <1>3, <1>4, <1>5, <1>6, <1>7, TypedFacts DEF IInv, WriterOK, tables
<1> QED
  BY <1>1, <1>2, <1>8 DEF IInv

\* Staging the next replacement block stays on the branch to the target.
LEMMA StageBlockStep ==
    ASSUME IInv, StageBlock
    PROVE  IInv'
<1> DEFINE n == Ancestor[op.to][Height[hot.tip] + 1]
<1>1. TablesOK'
  BY TablesKept DEF IInv, StageBlock
<1>2. /\ op.base \in Block /\ op.to \in Block /\ hot.tip \in Block
      /\ OnChain(op.base, hot.tip) /\ OnChain(hot.tip, op.to) /\ hot.tip # op.to
  BY OperationFacts, TypedFacts DEF IInv, WriterOK, StageBlock
<1>3. Height[hot.tip] < Height[op.to]
  BY <1>2, HeightFacts, SMTT(30) DEF OnChain
<1>4. n \in Block /\ OnChain(n, op.to) /\ OnChain(hot.tip, n)
  BY <1>2, <1>3, NextFacts, SMTT(30)
<1>5. OnChain(op.base, n)
  BY <1>2, <1>4, ChainOrder
<1> HIDE DEF n
<1>6. hot' = [hot EXCEPT !.tip = n, !.state = n] /\ UNCHANGED <<tables, op, maint>>
  BY DEF StageBlock, n
<1>7. TypeOK'
  BY <1>4, <1>6, ZenonT(30) DEF IInv, TypeOK, tables
<1>8. WriterOK'
  BY <1>4, <1>5, <1>6, TypedFacts, ZenonT(30) DEF IInv, WriterOK, StageBlock, tables
<1> QED
  BY <1>1, <1>7, <1>8 DEF IInv

\* An abandoned reorganization reloads the context from the tables.
LEMMA AbortStep ==
    ASSUME IInv, AbortReorg
    PROVE  IInv'
<1>1. TablesOK'
  BY TablesKept DEF IInv, AbortReorg
<1>2. TypeOK'
  BY DEF IInv, TypeOK, AbortReorg, tables, Operation, HotFromTables
<1>3. WriterOK'
  BY DEF WriterOK, AbortReorg, tables, HotFromTables, Idle
<1> QED
  BY <1>1, <1>2, <1>3 DEF IInv

\* A crash loses the context and no table.
LEMMA CrashStep ==
    ASSUME IInv, Crash
    PROVE  IInv'
<1>1. TablesOK'
  BY TablesKept, SMTT(30) DEF IInv, Crash
<1>2. TypeOK'
  BY TreeAssumption DEF IInv, TypeOK, Crash, tables, Operation
<1>3. WriterOK'
  BY DEF WriterOK, Crash, Down
<1> QED
  BY <1>1, <1>2, <1>3 DEF IInv

\* The tables can always be restored, so opening never clears them.
LEMMA InvRestorable ==
    ASSUME IInv
    PROVE  Restorable
<1>1. /\ tip \in Block /\ fin \in Block /\ headers = Ancestor[tip] /\ state = tip
      /\ OnChain(fin, tip) /\ TipTerminalValid
  BY TypedFacts DEF IInv, TablesOK, CanonicalChain
<1> QED
  BY <1>1, HeightFacts DEF Restorable, OnChain

\* Opening restores the context, since the tables are restorable.
LEMMA OpenStep ==
    ASSUME IInv, Open
    PROVE  IInv'
<1>1. op' = Idle /\ hot' = HotFromTables /\ UNCHANGED <<tables, maint>>
  BY InvRestorable DEF Open
<1>2. TablesOK'
  BY <1>1, TablesKept, SMTT(30) DEF IInv
<1>3. TypeOK'
  BY <1>1, SMTT(30) DEF IInv, TypeOK, tables, Operation, HotFromTables
<1>4. WriterOK'
  BY <1>1 DEF WriterOK, tables, HotFromTables, Idle
<1> QED
  BY <1>2, <1>3, <1>4 DEF IInv

------------------------------------------------------------------------------
(* Pruning *)

\* A failed pruning transaction changes no table.
LEMMA PruneFailsStep ==
    ASSUME IInv, PruneFails
    PROVE  IInv'
<1>1. TablesOK'
  BY TablesKept DEF IInv, PruneFails
<1>2. TypeOK'
  BY SMTT(30) DEF IInv, TypeOK, PruneFails, tables
<1>3. WriterOK'
  BY DEF IInv, WriterOK, PruneFails, tables, HotFromTables
<1> QED
  BY <1>1, <1>2, <1>3 DEF IInv

\* Undo logs are dropped only at or below the finalized height.
LEMMA PruneUndoStep ==
    ASSUME IInv, PruneUndo
    PROVE  IInv'
<1>1. TypeOK'
  BY SMTT(30) DEF IInv, TypeOK, PruneUndo, Partial, Drop
<1>2. WriterOK'
  BY SMTT(30) DEF IInv, WriterOK, PruneUndo, HotFromTables
<1>3. SuffixCovered'
  <2>1. Height[tip] - UndoRetention <= Height[fin]
    BY TypedFacts, RetentionAssumption DEF IInv, TablesOK, CanonicalChain
  <2>2. \A h \in Height[fin] + 1 .. Height[tip] : h \notin 0 .. Height[tip] - UndoRetention
    BY <2>1, TypedFacts, RetentionAssumption, SMTT(30) DEF IInv
  <2> QED
    BY <2>2 DEF IInv, TablesOK, SuffixCovered, PruneUndo, Drop
<1>4. TablesOK'
  BY <1>3 DEF IInv, TablesOK, PruneUndo, CanonicalChain, TipTerminalValid, TerminalsCover, BodiesServed
<1> QED
  BY <1>1, <1>2, <1>4, SMTT(30) DEF IInv

==============================================================================
