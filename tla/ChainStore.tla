------------------------------ MODULE ChainStore ------------------------------
(***************************************************************************)
(* The canonical chain of a node: the MDBX tables (durable), the chain      *)
(* context built from them (RAM), and the writers that change both.         *)
(*                                                                          *)
(* The context sits behind one RwLock, so one writer works at a time; `op`  *)
(* is what the writer is doing.  Every MDBX transaction is one step.  A     *)
(* writer may fail between two steps (bad body, I/O error), and the process *)
(* may crash between any two: RAM is lost, the tables stay.                 *)
(***************************************************************************)
EXTENDS BlockTree, FiniteSets

CONSTANTS
    Tx,             \* logical transaction ids
    Txs,            \* Txs[b]: the transactions of block b
    UndoRetention,  \* UNDO_RETENTION_DEPTH
    ServingDepth,   \* RETAINED_BLOCK_SERVING_DEPTH
    PruneLimit,     \* RETAINED_PAYLOAD_PRUNE_HEIGHT_LIMIT
    MaxReplacement  \* MAX_REORG_REPLACEMENT_BLOCKS

ASSUME RetentionAssumption ==
    /\ UndoRetention \in Nat /\ UndoRetention > FinalityDepth
    /\ ServingDepth \in Nat /\ PruneLimit \in Nat \ {0}
    /\ MaxReplacement \in Nat \ {0}
    /\ Txs \in [Block -> SUBSET Tx]

VARIABLES
    tip,      \* T_CHAIN_TIP and the tip of T_CONSENSUS_META
    fin,      \* the finalized checkpoint of T_CONSENSUS_META
    state,    \* T_SEGMENTS, T_STATE_META: the block whose post-state they hold
    headers,  \* T_HEADERS, T_HASH_TO_HEIGHT, T_CHAIN_WORK, T_HEADER_ANCHORS
    undo,     \* T_UNDO_LOGS: height -> the block whose undo log is kept
    body,     \* T_RECENT_BLOCKS: height -> the block whose body is kept
    term,     \* T_HISTORY_STEP_TERMINALS: height -> row, see Row
    auth,     \* KEY_VERIFIED_SUFFIX_AUTHORITY: at most one record, see Record
    pruned,   \* the retained payload prune watermark (0: none)
    txIndex,  \* T_TX_INDEX: transaction -> height
    hot,      \* MdbxChainContext: tip, finalized checkpoint, resident state
    op,       \* the operation of the writer that holds the lock
    maint     \* what is left of prune_after_commit

tables == <<tip, fin, state, headers, undo, body, term, auth, pruned, txIndex>>
vars == <<tip, fin, state, headers, undo, body, term, auth, pruned, txIndex, hot, op, maint>>

\* A terminal row belongs to block `of` and is covered by the recursive
\* terminal of `by`: its own full terminal, or in a local marker the terminal of
\* a later tip.
Row == [of : Block, by : Block]
Full(b) == [of |-> b, by |-> b]
IsMarker(r) == r.by # r.of

\* The record that a suffix from `from` to `to` has a verified terminal.
Record == [from : Block, to : Block]

Idle == [kind |-> "idle"]
Down == [kind |-> "down"]
Free == op = Idle /\ maint = "none"

Operation ==
    {Idle, Down}
      \cup [kind : {"suffix"}, to : Block]
      \cup [kind : {"commit"}, block : Block, by : Block]
      \cup [kind : {"reorg"}, base : Block, to : Block]

------------------------------------------------------------------------------
(* Tables *)

Put(tbl, h, v) == [k \in DOMAIN tbl \cup {h} |-> IF k = h THEN v ELSE tbl[k]]

Drop(tbl, hs) == [k \in DOMAIN tbl \ hs |-> tbl[k]]

\* Variant: the rows of a longer abandoned branch stay above b.
BranchKeepsSuffix(tbl, a, b) ==
    [k \in DOMAIN tbl \cup (Height[a] + 1 .. Height[b]) |->
        IF k <= Height[a] \/ k > Height[b] THEN tbl[k] ELSE Ancestor[b][k]]

\* The rows of tbl up to the ancestor a, then the rows of the branch to b.
Branch(tbl, a, b) ==
    [k \in {j \in DOMAIN tbl : j <= Height[a]} \cup (Height[a] + 1 .. Height[b]) |->
        IF k <= Height[a] THEN tbl[k] ELSE Ancestor[b][k]]

\* A marker is usable while the suffix that it belongs to is recorded as
\* verified, or once the full terminal of its authority is canonical.
MarkerHasAuthority(h, by, hdr, trm) ==
    /\ Height[by] > h
    /\ \/ \E r \in auth : r.to = by /\ h > Height[r.from] /\ h < Height[r.to]
       \/ /\ Height[by] \in DOMAIN hdr /\ hdr[Height[by]] = by
          /\ Height[by] \in DOMAIN trm /\ trm[Height[by]] = Full(by)

\* A block may follow its parent only on an authorized terminal row.
ParentBoundary(b, hdr, trm) ==
    LET p == Height[b] - 1 IN
    /\ p \in DOMAIN hdr /\ hdr[p] = Parent(b)
    /\ p = 0 \/ /\ p \in DOMAIN trm /\ trm[p].of = hdr[p]
                /\ IsMarker(trm[p]) => MarkerHasAuthority(p, trm[p].by, hdr, trm)

\* Opening the database accepts its contents.
TipTerminalValid ==
    \/ tip = Genesis
    \/ /\ Height[tip] \in DOMAIN term /\ term[Height[tip]].of = tip
       /\ \/ ~IsMarker(term[Height[tip]])
          \/ \E r \in auth : /\ r.to = term[Height[tip]].by
                             /\ Height[r.from] < Height[tip] /\ Height[tip] < Height[r.to]

Restorable ==
    /\ Height[tip] \in DOMAIN headers /\ headers[Height[tip]] = tip
    /\ Height[fin] <= Height[tip]
    /\ Height[fin] \in DOMAIN headers /\ headers[Height[fin]] = fin
    /\ state = tip
    /\ TipTerminalValid

HotFromTables == [tip |-> tip, fin |-> fin, state |-> state]

GenesisTables ==
    /\ tip' = Genesis /\ fin' = Genesis /\ state' = Genesis
    /\ headers' = [h \in {0} |-> Genesis]
    /\ undo' = [h \in {0} |-> Genesis]
    /\ body' = [h \in {} |-> Genesis]
    /\ term' = [h \in {} |-> Full(Genesis)]
    /\ auth' = {} /\ pruned' = 0
    /\ txIndex' = [t \in {} |-> 0]

Init ==
    /\ tip = Genesis /\ fin = Genesis /\ state = Genesis
    /\ headers = [h \in {0} |-> Genesis]
    /\ undo = [h \in {0} |-> Genesis]
    /\ body = [h \in {} |-> Genesis]
    /\ term = [h \in {} |-> Full(Genesis)]
    /\ auth = {} /\ pruned = 0
    /\ txIndex = [t \in {} |-> 0]
    /\ hot = [tip |-> Genesis, fin |-> Genesis, state |-> Genesis]
    /\ op = Idle /\ maint = "none"

------------------------------------------------------------------------------
(* One block on top of the tip *)

\* A locally proved block is applied to the resident state.
ApplyLocalBlock(b) ==
    /\ Free
    /\ Height[b] = Height[hot.tip] + 1 /\ Parent(b) = hot.tip
    /\ hot.state = hot.tip
    /\ hot' = [hot EXCEPT !.state = b]
    /\ op' = [kind |-> "commit", block |-> b, by |-> b]
    /\ UNCHANGED <<tables, maint>>

\* The checks that commit_block makes against the tables.
CommitAccepts(b, by) ==
    /\ tip = Parent(b)
    /\ ParentBoundary(b, headers, term)
    /\ by # b => \E r \in auth : /\ r.to = by
                                 /\ Height[r.from] < Height[b] /\ Height[b] < Height[by]

\* Header, indexes, consensus metadata and state of the new tip.
PersistTip(b) ==
    /\ tip' = b
    /\ fin' = FinalizedForTip(hot.fin, b)
    /\ state' = hot.state
    /\ headers' = Put(headers, Height[b], b)

\* Undo log, body and terminal row.  A full terminal ends a recorded suffix.
PersistObjects(b, by) ==
    /\ undo' = Put(undo, Height[b], b)
    /\ body' = Put(body, Height[b], b)
    /\ term' = Put(term, Height[b], [of |-> b, by |-> by])
    /\ auth' = IF by = b THEN {} ELSE auth

IndexTransactions(b) ==
    txIndex' = [t \in DOMAIN txIndex \cup Txs[b] |-> IF t \in Txs[b] THEN Height[b] ELSE txIndex[t]]

CommitBlock ==
    /\ op.kind = "commit" /\ maint = "none"
    /\ CommitAccepts(op.block, op.by)
    /\ PersistTip(op.block)
    /\ PersistObjects(op.block, op.by)
    /\ IndexTransactions(op.block)
    /\ hot' = [tip |-> op.block, fin |-> fin', state |-> hot.state]
    /\ op' = IF op.by = op.block THEN Idle ELSE [kind |-> "suffix", to |-> op.by]
    /\ maint' = "payloads"
    /\ UNCHANGED pruned

\* Variant: the resident state keeps the rejected block.
RejectBlockKeepsState ==
    /\ op.kind = "commit" /\ maint = "none"
    /\ op' = Idle
    /\ UNCHANGED <<tables, hot, maint>>

\* The block is rejected or its transaction fails: the resident state is rolled
\* back with the block's own undo data.
RejectBlock ==
    /\ op.kind = "commit" /\ maint = "none"
    /\ hot' = [hot EXCEPT !.state = hot.tip]
    /\ op' = Idle
    /\ UNCHANGED <<tables, maint>>

------------------------------------------------------------------------------
(* A verified suffix on top of the tip *)

\* Variant: a retry replaces the record of the interrupted suffix.
SuffixRecordsOverwritten(t) == {[from |-> tip, to |-> t]}

\* The record to keep for a suffix to t.  On a marker tip only a retry towards
\* the marker's own target is accepted, and the first record is kept.
SuffixRecords(t) ==
    IF Height[tip] \in DOMAIN term /\ tip # Genesis /\ IsMarker(term[Height[tip]])
    THEN {r \in auth : /\ r.to = t /\ term[Height[tip]].by = t
                       /\ Height[r.from] < Height[tip] /\ Height[tip] < Height[r.to]}
    ELSE {[from |-> tip, to |-> t]}

\* The terminal of t was verified before the lock was taken; the base of the
\* plan must still be the tip.
BeginSuffix(base, t) ==
    /\ Free
    /\ base = hot.tip /\ OnChain(base, t) /\ Height[base] < Height[t]
    /\ tip = base
    /\ SuffixRecords(t) # {}
    /\ auth' = SuffixRecords(t)
    /\ op' = [kind |-> "suffix", to |-> t]
    /\ UNCHANGED <<tip, fin, state, headers, undo, body, term, pruned, txIndex, hot, maint>>

\* The next body of the suffix is applied to the resident state.
ApplySuffixBlock ==
    /\ op.kind = "suffix" /\ maint = "none"
    /\ LET b == Ancestor[op.to][Height[hot.tip] + 1]
       IN /\ hot' = [hot EXCEPT !.state = b]
          /\ op' = [kind |-> "commit", block |-> b, by |-> op.to]
    /\ UNCHANGED <<tables, maint>>

\* A body is missing or wrong: what is committed stays.
StopSuffix ==
    /\ op.kind = "suffix" /\ maint = "none"
    /\ op' = Idle
    /\ UNCHANGED <<tables, hot, maint>>

------------------------------------------------------------------------------
(* A reorganization, staged in RAM and committed in one transaction *)

\* Reverting the blocks above a reaches the state of a: an undo log of another
\* block would not restore the parent's state root.
UndoRestores(a) == \A h \in Height[a] + 1 .. Height[hot.tip] : undo[h] = Ancestor[hot.tip][h]

\* The branch to t leaves the canonical chain at a, above finality.
ReorgAuthorized(a, t) ==
    /\ ForkPoint(a, hot.tip, t)
    /\ Height[hot.tip] - Height[a] <= FinalityDepth
    /\ Height[a] >= Height[hot.fin]
    /\ Height[a] = Height[hot.fin] => a = hot.fin

ReplacementWins(a, t) ==
    /\ Height[t] - Height[a] <= MaxReplacement
    /\ ChooseByWork(t, hot.tip)

\* All undo logs are present before anything is reverted.
UndoLogsPresent(a) ==
    /\ Height[a] # 0 => Height[a] \in DOMAIN undo
    /\ \A h \in Height[a] + 1 .. Height[hot.tip] : h \in DOMAIN undo

StageReorg(a, t) ==
    /\ Free
    /\ ReorgAuthorized(a, t)
    /\ ReplacementWins(a, t)
    /\ UndoLogsPresent(a)
    /\ UndoRestores(a)
    /\ hot' = [hot EXCEPT !.tip = a, !.state = a]
    /\ op' = [kind |-> "reorg", base |-> a, to |-> t]
    /\ UNCHANGED <<tables, maint>>

\* The next replacement block, with finality updates deferred.
StageBlock ==
    /\ op.kind = "reorg" /\ maint = "none" /\ hot.tip # op.to
    /\ LET b == Ancestor[op.to][Height[hot.tip] + 1]
       IN hot' = [hot EXCEPT !.tip = b, !.state = b]
    /\ UNCHANGED <<tables, op, maint>>

AbortReorg ==
    /\ op.kind = "reorg" /\ maint = "none"
    /\ hot' = HotFromTables
    /\ op' = Idle
    /\ UNCHANGED <<tables, maint>>

\* Variant: markers at or below the ancestor keep their old authority.
ReorgTerminalsUnbound(a, t) ==
    [k \in {j \in DOMAIN term : j <= Height[a]} \cup (Height[a] + 1 .. Height[t]) |->
        IF k > Height[a] THEN [of |-> Ancestor[t][k], by |-> t] ELSE term[k]]

\* The terminal rows after the reorganization to t above a: markers near the
\* ancestor are bound to the new tip, and the replaced heights hold markers
\* below the full terminal of t.
ReorgTerminals(a, t) ==
    [k \in {j \in DOMAIN term : j <= Height[a]} \cup (Height[a] + 1 .. Height[t]) |->
        IF k > Height[a] THEN [of |-> Ancestor[t][k], by |-> t]
        ELSE IF k >= Height[a] - FinalityDepth /\ IsMarker(term[k])
             THEN [term[k] EXCEPT !.by = t]
             ELSE term[k]]

\* The checks that commit_reorg makes against the tables and its own writes.
ReorgAccepts(a, t) ==
    /\ Height[a] <= Height[tip] /\ Height[tip] - Height[a] <= FinalityDepth
    /\ \A h \in Height[a] + 1 .. Height[t] :
          ParentBoundary(Ancestor[t][h], Branch(headers, a, t), ReorgTerminals(a, t))

\* Variant: the reverted transactions are removed last.
ReorgTxIndexLast(a, t) ==
    LET reverted == UNION {Txs[undo[h]] : h \in Height[a] + 1 .. Height[tip]}
        added == UNION {Txs[Ancestor[t][h]] : h \in Height[a] + 1 .. Height[t]}
    IN [x \in (DOMAIN txIndex \cup added) \ reverted |->
           IF x \in added
           THEN CHOOSE h \in Height[a] + 1 .. Height[t] : x \in Txs[Ancestor[t][h]]
           ELSE txIndex[x]]

\* Index entries of the reverted transactions go before the replacement's come.
ReorgTxIndex(a, t) ==
    LET reverted == UNION {Txs[undo[h]] : h \in Height[a] + 1 .. Height[tip]}
        kept == {x \in DOMAIN txIndex : ~(x \in reverted /\ txIndex[x] > Height[a])}
        added == UNION {Txs[Ancestor[t][h]] : h \in Height[a] + 1 .. Height[t]}
    IN [x \in kept \cup added |->
           IF x \in added
           THEN CHOOSE h \in Height[a] + 1 .. Height[t] : x \in Txs[Ancestor[t][h]]
           ELSE txIndex[x]]

\* The losing suffix is removed and the winning one written in one transaction.
PersistReorg(a, t) ==
    /\ tip' = t
    /\ fin' = FinalizedForTip(hot.fin, t)
    /\ state' = hot.state
    /\ headers' = Branch(headers, a, t)
    /\ undo' = Branch(undo, a, t)
    /\ body' = Branch(body, a, t)
    /\ term' = ReorgTerminals(a, t)
    /\ auth' = {}
    /\ pruned' = IF pruned > Height[a] THEN Height[a] ELSE pruned
    /\ txIndex' = ReorgTxIndex(a, t)

CommitReorg ==
    /\ op.kind = "reorg" /\ maint = "none" /\ hot.tip = op.to
    /\ ReorgAccepts(op.base, op.to)
    /\ PersistReorg(op.base, op.to)
    /\ hot' = [hot EXCEPT !.fin = fin']
    /\ op' = Idle
    /\ maint' = "payloads"

------------------------------------------------------------------------------
(* Installing a finalized snapshot *)

\* Variant: a longer chain is installed although it leaves the canonical chain
\* below the finalized block.
InstallAcceptsDeeper(t) ==
    /\ headers = Ancestor[tip]
    /\ Height[tip] < Height[t]
    /\ ChooseByWork(t, tip)

\* The staged header chain extends the tip, or leaves it inside the non-final
\* suffix and wins by work.
InstallAccepts(t) ==
    /\ headers = Ancestor[tip]
    /\ Height[tip] < Height[t]
    /\ \/ OnChain(tip, t)
       \/ \E a \in Block : /\ ForkPoint(a, tip, t)
                           /\ Height[a] >= Height[fin]
                           /\ Height[tip] - Height[a] <= FinalityDepth
                           /\ ChooseByWork(t, tip)

\* Variant: a watermark that is not kept at zero or above.
ServingWatermark(t) == Height[t] - ServingDepth

\* Only the terminal of the snapshot's own block is kept.
SnapshotWatermark(t) == Height[t] - 1

\* All tables are replaced in one transaction.
PersistSnapshot(t) ==
    /\ tip' = t /\ fin' = t /\ state' = t
    /\ headers' = Ancestor[t]
    /\ undo' = [h \in {} |-> t] /\ body' = [h \in {} |-> t]
    /\ term' = [h \in {Height[t]} |-> Full(t)]
    /\ auth' = {}
    /\ pruned' = SnapshotWatermark(t)
    /\ txIndex' = [x \in {} |-> 0]

InstallSnapshot(t) ==
    /\ Free
    /\ Height[t] > Height[hot.tip]
    /\ InstallAccepts(t)
    /\ PersistSnapshot(t)
    /\ hot' = [tip |-> t, fin |-> t, state |-> t]
    /\ UNCHANGED <<op, maint>>

------------------------------------------------------------------------------
(* Pruning after a commit: two transactions, whose failure is ignored *)

PruneCutoff ==
    IF Height[tip] - ServingDepth < Height[fin] THEN Height[tip] - ServingDepth ELSE Height[fin]

\* Heights below the cutoff lose body and terminal, in order and as many as the
\* budget allows; the cutoff itself then loses only its body, budget permitting.
PrunePayloads ==
    /\ maint = "payloads"
    /\ IF pruned + 1 > PruneCutoff
       THEN UNCHANGED <<body, term, pruned>>
       ELSE \E last \in pruned .. PruneCutoff - 1, bare \in pruned .. PruneCutoff :
              /\ last <= pruned + PruneLimit /\ (last = pruned => PruneCutoff = pruned + 1)
              /\ bare = last \/ (bare = last + 1 /\ bare = PruneCutoff)
              /\ \A h \in pruned + 1 .. last : h \in DOMAIN term
              /\ last + 1 = PruneCutoff => PruneCutoff \in DOMAIN term
              /\ term' = Drop(term, pruned + 1 .. last)
              /\ body' = Drop(body, pruned + 1 .. bare)
              /\ pruned' = last
    /\ maint' = "undo"
    /\ UNCHANGED <<tip, fin, state, headers, undo, auth, txIndex, hot, op>>

\* Variant: undo logs inside the reorganizable suffix are dropped.
PruneUndoEarly ==
    /\ maint = "undo"
    /\ undo' = Drop(undo, 0 .. Height[tip] - FinalityDepth + 1)
    /\ maint' = "none"
    /\ UNCHANGED <<tip, fin, state, headers, body, term, auth, pruned, txIndex, hot, op>>

PruneUndo ==
    /\ maint = "undo"
    /\ undo' = Drop(undo, 0 .. Height[tip] - UndoRetention)
    /\ maint' = "none"
    /\ UNCHANGED <<tip, fin, state, headers, body, term, auth, pruned, txIndex, hot, op>>

PruneFails ==
    /\ maint # "none"
    /\ maint' = "none"
    /\ UNCHANGED <<tables, hot, op>>

------------------------------------------------------------------------------
(* The process *)

Crash ==
    /\ op # Down
    /\ op' = Down /\ maint' = "none"
    /\ hot' = [tip |-> Genesis, fin |-> Genesis, state |-> Genesis]
    /\ UNCHANGED tables

\* A database that cannot be restored is cleared and starts again at genesis.
Open ==
    /\ op = Down
    /\ op' = Idle
    /\ IF Restorable
       THEN hot' = HotFromTables /\ UNCHANGED tables
       ELSE hot' = [tip |-> Genesis, fin |-> Genesis, state |-> Genesis] /\ GenesisTables
    /\ UNCHANGED maint

Next ==
    \/ \E b \in Block : ApplyLocalBlock(b) \/ InstallSnapshot(b)
    \/ \E a, b \in Block : BeginSuffix(a, b) \/ StageReorg(a, b)
    \/ CommitBlock \/ RejectBlock
    \/ ApplySuffixBlock \/ StopSuffix
    \/ StageBlock \/ AbortReorg \/ CommitReorg
    \/ PrunePayloads \/ PruneUndo \/ PruneFails
    \/ Crash \/ Open

Spec == Init /\ [][Next]_vars

------------------------------------------------------------------------------
(* Properties *)

Partial(tbl, K, V) == DOMAIN tbl \subseteq K /\ \A k \in DOMAIN tbl : tbl[k] \in V

TypeOK ==
    /\ tip \in Block /\ fin \in Block /\ state \in Block
    /\ Partial(headers, Nat, Block) /\ Partial(undo, Nat, Block)
    /\ Partial(body, Nat, Block) /\ Partial(term, Nat, Row)
    /\ auth \subseteq Record /\ pruned \in Nat
    /\ Partial(txIndex, Tx, Nat)
    /\ hot \in [tip : Block, fin : Block, state : Block]
    /\ op \in Operation
    /\ maint \in {"none", "payloads", "undo"}

\* The header tables hold exactly the chain of the tip (no row of an abandoned
\* branch survives a reorganization or a snapshot), the segments hold the tip's
\* state, and the finalized checkpoint is on that chain, at most FinalityDepth
\* below the tip.
CanonicalChain ==
    /\ headers = Ancestor[tip]
    /\ state = tip
    /\ OnChain(fin, tip) /\ Height[tip] - Height[fin] <= FinalityDepth

\* Whatever step a crash follows, the next open restores the tip instead of
\* clearing the database: the tip carries its full terminal, or a marker whose
\* verified suffix is still recorded.
CrashSafe == Restorable

\* Between operations the context in RAM is what a restart would rebuild: every
\* failed commit is rolled back and every abandoned reorganization reloaded.
HotMatchesTables == op.kind \in {"idle", "suffix"} => hot = HotFromTables

\* Undo logs and bodies of the canonical blocks cover the whole reorganizable
\* suffix, however pruning, reorganizations and shorter branches interleave.
SuffixCovered ==
    \A h \in Height[fin] + 1 .. Height[tip] :
        /\ h \in DOMAIN undo /\ undo[h] = headers[h]
        /\ h \in DOMAIN body /\ body[h] = headers[h]

\* The store never refuses what the context has prepared: a block that extends
\* the tip, or a staged reorganization, always finds an authorized parent row.
StoreAcceptsPrepared ==
    /\ op.kind = "commit" => CommitAccepts(op.block, op.by)
    /\ op.kind = "reorg" /\ hot.tip = op.to => ReorgAccepts(op.base, op.to)

\* Every height above the watermark keeps a terminal row of its canonical block,
\* so retention pruning never stalls on a missing row; the rows from the
\* finalized block on, which reorganizations build on, are never retired.
TerminalsCover ==
    /\ \A h \in pruned + 1 .. Height[tip] : h \in DOMAIN term /\ term[h].of = headers[h]
    /\ pruned = 0 \/ pruned < Height[fin]

\* Bodies are served for every canonical height above the snapshot or pruning
\* boundary.
BodiesServed ==
    \A h \in pruned + 2 .. Height[tip] : h \in DOMAIN body /\ body[h] = headers[h]

\* Retention: whatever commits, reorganizations, snapshots, pruning and crashes
\* interleave, the rows that rollback, parents and readers need are there.
RetentionCovers == SuffixCovered /\ TerminalsCover /\ BodiesServed

\* The transaction index names the canonical block of each transaction, also
\* when a transaction moves between branches.
TxIndexExact ==
    /\ \A x \in DOMAIN txIndex : /\ txIndex[x] \in DOMAIN headers
                                /\ x \in Txs[headers[txIndex[x]]]
    /\ \A h \in pruned + 2 .. Height[tip] : Txs[headers[h]] \subseteq DOMAIN txIndex

\* Finality: the finalized block stays on the canonical chain and only moves to
\* its own descendants.
FinalityHolds == [][OnChain(fin, fin') /\ OnChain(fin, tip')]_vars

\* The tip is only ever replaced by one that fork choice prefers.
TipImproves == [][tip' # tip => ChooseByWork(tip', tip)]_vars

\* The store implements the abstract chain: crashes, failed commits, staged and
\* abandoned work never show in the canonical tip and checkpoint.
Abstract == INSTANCE FinalChain WITH tip <- tip, fin <- fin
ImplementsFinalChain == Abstract!Spec

\* Documented coverage: the undo data lets every branch be adopted that leaves
\* the canonical chain at or above the finalized block.
AncestorUndoKept ==
    Free => \A h \in Height[fin] .. Height[tip] - 1 : h = 0 \/ h \in DOMAIN undo

==============================================================================
