------------------------------ MODULE Mempool ------------------------------
(***************************************************************************)
(* The transaction pool of a full node: noid_mempool (AsyncMempool, its    *)
(* chain view, fee floor and contract checks) over the synchronous core    *)
(* noid_chain/src/mempool.rs.                                              *)
(*                                                                         *)
(* A submission runs in two passes.  The cheap checks run under the pool   *)
(* lock, the lock is released while the wallet authorization is verified   *)
(* on a bounded set of workers, and the checks run again under the lock    *)
(* before the entry is inserted.  Meanwhile the chain moves: a writer that *)
(* holds the node's operation gate commits to the store and then tells the *)
(* pool, which replaces its view and evicts what no longer fits.           *)
(*                                                                         *)
(* Every step below is one critical section of the pool's mutex.  A        *)
(* transaction is one that passed the stateless checks of submit_inner     *)
(* (well formed, inputs and outputs disjoint, authorization present).      *)
(***************************************************************************)
EXTENDS Integers, FiniteSets, Sequences, Functions, Fees

CONSTANTS
    Tx,             \* logical transactions (PagedSpend groups)
    NoTx,           \* no transaction
    Slot,           \* physical UTXO slots
    Coin,           \* contents of a live slot
    Empty,          \* content of an empty slot
    AnchorId,       \* transaction-epoch anchors
    NoAnchor,       \* the all-zero anchor of an unresolved header
    Owner,          \* addresses
    Key,            \* contract authorities
    Inputs,         \* Tx -> slots it spends
    Outputs,        \* Tx -> slots it mints
    Spends,         \* Tx -> Slot -> the coin it expects in the slot
    Pays,           \* Tx -> Owner -> value sent to an owner other than its own
    Fee,            \* Tx -> fee
    Size,           \* Tx -> retained intent bytes
    Pages,          \* Tx -> physical pages
    EpochAnchor,    \* Tx -> anchor it is bound to
    Signed,         \* ordinary transactions whose authorization verifies
    Calls,          \* transactions that carry a contract opening
    CallHeights,    \* Tx -> heights at which check_call accepts the call
    Deadline,       \* Tx -> height from which the recovery branch holds
    ClaimAuthority, \* Tx -> authority before the deadline
    RecoveryAuthority,  \* Tx -> authority from the deadline on
    Signer,         \* Tx -> authority that signed the call
    View,           \* chain views: [height, anchor, range, slots, active, log]
    InitView,       \* view at start-up
    ChainStep,      \* commits: [from, to, confirmed, reclaimed]
    Submitter,      \* concurrent submit() calls
    Capacity, MaxBytes, FloorWindow, Workers,    \* MempoolConfig
    V2Budgets, PayoutHeights, MaxSpendInputs,    \* proof classes, v2
    V1_1Height, V2Height                         \* activation heights

ASSUME PoolAssumption ==
    /\ IsFiniteSet(Slot)
    /\ NoTx \notin Tx /\ NoAnchor \notin AnchorId /\ Empty \notin Coin
    /\ Inputs \in [Tx -> SUBSET Slot] /\ Outputs \in [Tx -> SUBSET Slot]
    /\ \A t \in Tx : Inputs[t] \cap Outputs[t] = {}
    /\ Spends \in [Tx -> [Slot -> Coin]]
    /\ Pays \in [Tx -> [Owner -> Nat]]
    /\ Fee \in [Tx -> Nat] /\ Size \in [Tx -> Nat] /\ Pages \in [Tx -> Nat]
    /\ EpochAnchor \in [Tx -> AnchorId \cup {NoAnchor}]
    /\ Calls \subseteq Tx /\ Signed \subseteq Tx
    /\ CallHeights \in [Calls -> SUBSET Nat] /\ Deadline \in [Calls -> Nat]
    /\ ClaimAuthority \in [Calls -> Key] /\ RecoveryAuthority \in [Calls -> Key]
    /\ Signer \in [Calls -> Key]

ASSUME ChainAssumption ==
    /\ View \subseteq [height : Nat, anchor : AnchorId \cup {NoAnchor},
                       range : SUBSET Slot, slots : [Slot -> Coin \cup {Empty}],
                       active : Nat, log : Nat]
    /\ InitView \in View
    /\ ChainStep \subseteq [from : View, to : View,
                            confirmed : SUBSET Tx, reclaimed : SUBSET Tx]

ASSUME ConfigAssumption ==
    /\ Capacity \in Nat /\ MaxBytes \in Nat
    /\ FloorWindow \in Nat \ {0} /\ Workers \in Nat \ {0}
    /\ V1_1Height \in Nat /\ V2Height \in Nat

VARIABLES
    entries,        \* admitted transactions
    admittedHeight, \* Tx -> tip height at admission
    spentInputs,    \* Slot -> transaction that spends it
    mintedOutputs,  \* Slot -> transaction that mints it
    incoming,       \* Owner -> pending value from others
    inputSlots,     \* AsyncMempool's own reservation sets
    outputSlots,
    floor,          \* [recent, current, pressure]
    view,           \* the chain view the pool checks against
    announced,      \* what a subscriber to the pool's events believes is in it
    sub,            \* Submitter -> [pc, tx, height]
    orphans,        \* verification workers whose submit was cancelled
    chain,          \* the view of the store's durable tip
    notices         \* calls of the gate holder that the pool has yet to process

poolVars == <<entries, admittedHeight, spentInputs, mintedOutputs, incoming,
              inputSlots, outputSlots, floor, announced>>
vars == <<poolVars, view, sub, orphans, chain, notices>>

NoCall == [pc |-> "idle", tx |-> NoTx, height |-> 0]

-----------------------------------------------------------------------------
(* Candidate-height checks. *)

NumCalls(t) == IF t \in Calls THEN 1 ELSE 0

V1_1Active(h) == h >= V1_1Height
V2Active(h) == h >= V2Height

(* MempoolConfig::check_resources: the whole intent fits one proof class.  *)
CheckResources(t, h) ==
    V2Active(h) =>
        /\ Cardinality(Inputs[t]) <= MaxSpendInputs
        /\ \E b \in V2Budgets :
              /\ Pages[t] <= b.pages - (IF h \in PayoutHeights THEN 1 ELSE 0)
              /\ NumCalls(t) <= b.calls
              /\ Cardinality(Inputs[t]) <= b.inputs

AuthorityAt(t, h) ==
    IF h < Deadline[t] THEN ClaimAuthority[t] ELSE RecoveryAuthority[t]

CheckCandidateCall(t, h) == V2Active(h) /\ h \in CallHeights[t]

(* The authorization verifier, run for candidate height h. *)
AuthorizationVerifies(t, h) ==
    IF t \in Calls THEN Signer[t] = AuthorityAt(t, h) ELSE t \in Signed

ConsensusFee(t, v) ==
    RequiredFee(Cardinality(Inputs[t]), Cardinality(Outputs[t]), v.active, v.log)

-----------------------------------------------------------------------------
(* ChainView::try_slot: a slot beyond the slot space reads as empty.  A    *)
(* segment read fails, and the check fails closed, when the store's tip is *)
(* no longer the view's; that outcome is a choice of the actions below.    *)

SlotOf(v, s) == IF s \in v.range THEN v.slots[s] ELSE Empty

InputsLive(t, v) ==
    \A s \in Inputs[t] : s \in v.range /\ SlotOf(v, s) = Spends[t][s]
OutputsFree(t, v) ==
    \A s \in Outputs[t] : s \in v.range /\ SlotOf(v, s) = Empty

-----------------------------------------------------------------------------
(* FeeFloor. *)

Median(recent) ==
    CHOOSE x \in Range(recent) :
        /\ 2 * Cardinality({i \in DOMAIN recent : recent[i] < x}) <= Len(recent)
        /\ 2 * Cardinality({i \in DOMAIN recent : recent[i] <= x}) > Len(recent)

ComputeFloor(recent) ==
    LET floor90 == (Median(recent) * 9) \div 10
    IN  IF floor90 > MIN_FEE_BASE THEN floor90 ELSE MIN_FEE_BASE

FloorRecord(f, fee) ==
    LET kept == IF Len(f.recent) >= FloorWindow THEN Tail(f.recent) ELSE f.recent
        recent == Append(kept, fee)
    IN  [f EXCEPT !.recent = recent, !.current = ComputeFloor(recent)]

FloorReset(pressure) ==
    [recent |-> << >>, current |-> MIN_FEE_BASE,
     pressure |-> IF pressure = "legacy" THEN "legacy" ELSE "off"]

(* Variant: the latch is never released while the pool is not empty. *)
UpdatePressureSticky(f, v11, count, bytes) ==
    IF count = 0 THEN FloorReset(IF v11 THEN "off" ELSE "legacy")
    ELSE [f EXCEPT !.pressure = IF v11 THEN "on" ELSE "legacy"]

UpdatePressure(f, v11, count, bytes) ==
    LET latch == IF f.pressure = "legacy" THEN "off" ELSE f.pressure
        low == count * 2 < Capacity /\ bytes * 2 < MaxBytes
        high == count * 5 >= Capacity * 4 \/ bytes * 5 >= MaxBytes * 4
    IN  CASE ~v11 /\ count = 0 -> FloorReset("legacy")
          [] ~v11 /\ count # 0 -> [f EXCEPT !.pressure = "legacy"]
          [] v11 /\ (count = 0 \/ low) -> FloorReset(latch)
          [] v11 /\ count # 0 /\ ~low /\ high -> [f EXCEPT !.pressure = "on"]
          [] OTHER -> [f EXCEPT !.pressure = latch]

CurrentFloor == IF floor.pressure = "off" THEN MIN_FEE_BASE ELSE floor.current

RetainedBytes(S) == SumFunctionOnSet(Size, S)

(* refresh_fee_floor: the policy follows the candidate block of view v. *)
Refreshed(f, v, S) ==
    UpdatePressure(f, V1_1Active(v.height + 1), Cardinality(S), RetainedBytes(S))

-----------------------------------------------------------------------------
(* The synchronous core: Mempool::admit and Mempool::remove. *)

OwnerSum(o, S) == SumFunctionOnSet([t \in Tx |-> Pays[t][o]], S)
Monus(a, b) == IF a > b THEN a - b ELSE 0

(* No input or output slot is reserved, by either kind of reservation. *)
NoSlotConflict(t) ==
    \A s \in Inputs[t] \cup Outputs[t] :
        spentInputs[s] = NoTx /\ mintedOutputs[s] = NoTx

Insert(t, height) ==
    /\ entries' = entries \cup {t}
    /\ admittedHeight' = [admittedHeight EXCEPT ![t] = height]
    /\ spentInputs' = [s \in Slot |-> IF s \in Inputs[t] THEN t ELSE spentInputs[s]]
    /\ mintedOutputs' =
          [s \in Slot |-> IF s \in Outputs[t] THEN t ELSE mintedOutputs[s]]
    /\ incoming' = [o \in Owner |-> incoming[o] + Pays[t][o]]

(* Variant: the per-owner totals are not reduced. *)
RemoveAllKeepsIncoming(gone) ==
    /\ entries' = entries \ gone
    /\ spentInputs' = [s \in Slot |-> IF spentInputs[s] \in gone THEN NoTx
                                      ELSE spentInputs[s]]
    /\ mintedOutputs' = [s \in Slot |-> IF mintedOutputs[s] \in gone THEN NoTx
                                        ELSE mintedOutputs[s]]
    /\ UNCHANGED <<incoming, admittedHeight>>

(* Removing the entries of `gone` clears the slots they name. *)
RemoveAll(gone) ==
    /\ entries' = entries \ gone
    /\ spentInputs' =
          [s \in Slot |-> IF \E t \in gone : s \in Inputs[t] THEN NoTx
                         ELSE spentInputs[s]]
    /\ mintedOutputs' =
          [s \in Slot |-> IF \E t \in gone : s \in Outputs[t] THEN NoTx
                         ELSE mintedOutputs[s]]
    /\ incoming' = [o \in Owner |-> Monus(incoming[o], OwnerSum(o, gone))]
    /\ UNCHANGED admittedHeight

(* Variant: only the input set is rebuilt. *)
RebuildInputSet(S) ==
    inputSlots' = UNION {Inputs[t] : t \in S} /\ UNCHANGED outputSlots

(* rebuild_slot_sets over the entries that remain. *)
RebuildSlotSets(S) ==
    /\ inputSlots' = UNION {Inputs[t] : t \in S}
    /\ outputSlots' = UNION {Outputs[t] : t \in S}

-----------------------------------------------------------------------------
(* run_admission_checks against the current view, floor and reservations. *)
RunAdmissionChecks(t) ==
    /\ CheckResources(t, view.height + 1)
    /\ Fee[t] >= CurrentFloor
    /\ Fee[t] >= ConsensusFee(t, view)
    /\ EpochAnchor[t] # NoAnchor
    /\ EpochAnchor[t] = view.anchor
    /\ Inputs[t] \cap inputSlots = {}
    /\ Outputs[t] \cap outputSlots = {}
    /\ InputsLive(t, view)
    /\ OutputsFree(t, view)

(* Variant: the byte limit is compared before the new bytes are added. *)
CheapChecksStaleBytes(t) ==
    /\ t \notin entries
    /\ RetainedBytes(entries) <= MaxBytes
    /\ RunAdmissionChecks(t)
    /\ t \in Calls => CheckCandidateCall(t, view.height + 1)

(* The checks both passes of submit_inner make under the lock. *)
CheapChecks(t) ==
    /\ t \notin entries
    /\ RetainedBytes(entries) + Size[t] <= MaxBytes
    /\ RunAdmissionChecks(t)
    /\ t \in Calls => CheckCandidateCall(t, view.height + 1)

(* Variant: the second pass trusts the authority the first one resolved. *)
AnyAuthority(t, authorized) == TRUE

(* The second pass also binds the contract authority that was verified. *)
SameAuthority(t, authorized) ==
    t \in Calls => AuthorityAt(t, view.height + 1) = AuthorityAt(t, authorized)

(* First pass: the pre-filter under the lock.  A rejection changes nothing. *)
Submit(s, t) ==
    /\ sub[s].pc = "idle"
    /\ CheapChecks(t)
    /\ sub' = [sub EXCEPT ![s] =
                  [pc |-> "queued", tx |-> t, height |-> view.height + 1]]
    /\ UNCHANGED <<poolVars, view, orphans, chain, notices>>

BusyWorkers == Cardinality({s \in Submitter : sub[s].pc = "verifying"}) + orphans

(* auth_verify_semaphore: a permit is needed to start a blocking worker. *)
AcquirePermit(s) ==
    /\ sub[s].pc = "queued"
    /\ BusyWorkers < Workers
    /\ sub' = [sub EXCEPT ![s].pc = "verifying"]
    /\ UNCHANGED <<poolVars, view, orphans, chain, notices>>

(* Variant: a failed verification is never reported to the waiting call. *)
WorkerExitsSilently(s) ==
    /\ sub[s].pc = "verifying"
    /\ AuthorizationVerifies(sub[s].tx, sub[s].height)
    /\ sub' = [sub EXCEPT ![s].pc = "verified"]
    /\ UNCHANGED <<poolVars, view, orphans, chain, notices>>

(* The worker exits, which drops the permit; a bad proof ends the call. *)
WorkerExits(s) ==
    /\ sub[s].pc = "verifying"
    /\ sub' = [sub EXCEPT ![s] =
                  IF AuthorizationVerifies(sub[s].tx, sub[s].height)
                  THEN [sub[s] EXCEPT !.pc = "verified"] ELSE NoCall]
    /\ UNCHANGED <<poolVars, view, orphans, chain, notices>>

(* The caller drops the future.  A running worker keeps its permit. *)
Cancel(s) ==
    /\ sub[s].pc # "idle"
    /\ sub' = [sub EXCEPT ![s] = NoCall]
    /\ orphans' = IF sub[s].pc = "verifying" THEN orphans + 1 ELSE orphans
    /\ UNCHANGED <<poolVars, view, chain, notices>>

(* Variant: the permit of a cancelled call is returned twice. *)
OrphanExitsTwice ==
    /\ orphans > 0
    /\ orphans' = orphans - 2
    /\ UNCHANGED <<poolVars, view, sub, chain, notices>>

OrphanExits ==
    /\ orphans > 0
    /\ orphans' = orphans - 1
    /\ UNCHANGED <<poolVars, view, sub, chain, notices>>

(* Variant: the final pass relies on the pre-filter's answer. *)
MayAdmitUnchecked(t, authorized) ==
    /\ t \notin entries
    /\ Cardinality(entries) < Capacity

(* What the final pass requires before the entry is inserted. *)
MayAdmit(t, authorized) ==
    /\ CheapChecks(t)
    /\ SameAuthority(t, authorized)
    /\ Cardinality(entries) < Capacity
    /\ NoSlotConflict(t)

(* Second pass: the final admission under the lock. *)
Admit(s) ==
    LET t == sub[s].tx IN
    /\ sub[s].pc = "verified"
    /\ MayAdmit(t, sub[s].height)
    /\ Insert(t, view.height)
    /\ inputSlots' = inputSlots \cup Inputs[t]
    /\ outputSlots' = outputSlots \cup Outputs[t]
    /\ floor' = Refreshed(FloorRecord(floor, Fee[t]), view, entries \cup {t})
    /\ announced' = announced \cup {t}
    /\ sub' = [sub EXCEPT ![s] = NoCall]
    /\ UNCHANGED <<view, orphans, chain, notices>>

(* The final pass fails: a check does, or a slot read does because the     *)
(* store has moved past the pool's view.                                   *)
Reject(s) ==
    /\ sub[s].pc = "verified"
    /\ ~MayAdmit(sub[s].tx, sub[s].height) \/ chain # view
    /\ sub' = [sub EXCEPT ![s] = NoCall]
    /\ UNCHANGED <<poolVars, view, orphans, chain, notices>>

-----------------------------------------------------------------------------
(* Variant: the writer releases the gate before it tells the pool. *)
ChainCommitsUngated(c) ==
    /\ c.from = chain
    /\ chain' = c.to
    /\ notices' = notices \cup {[stage |-> "block", view |-> c.to,
                                 confirmed |-> c.confirmed, reclaimed |-> c.reclaimed]}
    /\ UNCHANGED <<poolVars, view, sub, orphans>>

(* The chain moves.  The writer (miner, RPC submit, suffix or reorg apply, *)
(* snapshot install) takes the operation gate, commits, captures the view  *)
(* of the new tip, and keeps the gate until the pool has processed it.     *)
ChainCommits(c) ==
    /\ notices = {}
    /\ c.from = chain
    /\ chain' = c.to
    /\ notices' = {[stage |-> "block", view |-> c.to,
                    confirmed |-> c.confirmed, reclaimed |-> c.reclaimed]}
    /\ UNCHANGED <<poolVars, view, sub, orphans>>

(* contracts::eviction_reason at the candidate height of view v. *)
CallStale(t, v) ==
    \/ ~CheckCandidateCall(t, v.height + 1)
    \/ AuthorityAt(t, v.height + 1) # AuthorityAt(t, admittedHeight[t] + 1)

(* Variant: the growth price of the new occupancy is not applied. *)
ContextStaleOldPrice(t, v) ==
    \/ EpochAnchor[t] # v.anchor
    \/ ~CheckResources(t, v.height + 1)
    \/ t \in Calls /\ CallStale(t, v)

(* The eviction scans of on_new_block.  The local fee floor evicts nothing. *)
ContextStale(t, v) ==
    \/ EpochAnchor[t] # v.anchor
    \/ ~CheckResources(t, v.height + 1)
    \/ Fee[t] < ConsensusFee(t, v)
    \/ t \in Calls /\ CallStale(t, v)
OutputOccupied(t, v) == \E s \in Outputs[t] : SlotOf(v, s) # Empty
InputConsumed(t, v) == \E s \in Inputs[t] : SlotOf(v, s) # Spends[t][s]

Evicted(t, v) == ContextStale(t, v) \/ OutputOccupied(t, v) \/ InputConsumed(t, v)

(* on_new_block: drop the confirmed, replace the view, evict, rebuild the  *)
(* reservations, refresh the floor.  `unread` are entries evicted because  *)
(* a slot read failed, which takes a store that has moved past the view.   *)
OnNewBlock(n) ==
    \E unread \in SUBSET (entries \ n.confirmed) :
        LET gone == (entries \cap n.confirmed) \cup unread
                      \cup {t \in entries : Evicted(t, n.view)}
        IN  /\ n.stage = "block"
            /\ unread # {} => chain # n.view
            /\ RemoveAll(gone)
            /\ view' = n.view
            /\ RebuildSlotSets(entries \ gone)
            /\ floor' = Refreshed(floor, n.view, entries \ gone)
            /\ announced' = announced \ (gone \cup n.confirmed)
            /\ notices' = (notices \ {n}) \cup
                  (IF n.reclaimed = {} THEN {} ELSE {[n EXCEPT !.stage = "readmit"]})
            /\ UNCHANGED <<sub, orphans, chain>>

(* readmit_after_reorg: resubmitted copies of reclaimed transactions go.   *)
ReadmitAfterReorg(n) ==
    LET gone == entries \cap n.reclaimed IN
    /\ n.stage = "readmit"
    /\ notices' = notices \ {n}
    /\ \/ /\ gone # {}
          /\ RemoveAll(gone)
          /\ RebuildSlotSets(entries \ gone)
          /\ floor' = Refreshed(floor, view, entries \ gone)
       \/ /\ gone = {}
          /\ floor' = IF entries = {} THEN Refreshed(floor, view, {}) ELSE floor
          /\ UNCHANGED <<entries, admittedHeight, spentInputs, mintedOutputs,
                         incoming, inputSlots, outputSlots>>
    /\ UNCHANGED <<announced, view, sub, orphans, chain>>

-----------------------------------------------------------------------------
Init ==
    /\ entries = {} /\ admittedHeight = [t \in Tx |-> 0]
    /\ spentInputs = [s \in Slot |-> NoTx] /\ mintedOutputs = [s \in Slot |-> NoTx]
    /\ incoming = [o \in Owner |-> 0]
    /\ inputSlots = {} /\ outputSlots = {}
    /\ floor = UpdatePressure([recent |-> << >>, current |-> MIN_FEE_BASE,
                               pressure |-> "legacy"],
                              V1_1Active(InitView.height + 1), 0, 0)
    /\ view = InitView /\ chain = InitView /\ notices = {}
    /\ announced = {}
    /\ sub = [s \in Submitter |-> NoCall] /\ orphans = 0

Next ==
    \/ \E s \in Submitter :
          \/ \E t \in Tx : Submit(s, t)
          \/ AcquirePermit(s) \/ WorkerExits(s) \/ Cancel(s)
          \/ Admit(s) \/ Reject(s)
    \/ OrphanExits
    \/ \E c \in ChainStep : ChainCommits(c)
    \/ \E n \in notices : OnNewBlock(n) \/ ReadmitAfterReorg(n)

(* Blocking workers terminate, the tokio mutex and semaphore are FIFO, and *)
(* a gate holder goes on to notify the pool.                               *)
Fairness ==
    /\ \A s \in Submitter :
          /\ SF_vars(AcquirePermit(s)) /\ WF_vars(WorkerExits(s))
          /\ WF_vars(Admit(s) \/ Reject(s))
    /\ WF_vars(OrphanExits)
    /\ WF_vars(\E n \in notices : OnNewBlock(n) \/ ReadmitAfterReorg(n))

Spec == Init /\ [][Next]_vars
FairSpec == Spec /\ Fairness

-----------------------------------------------------------------------------
SubState == [pc : {"idle"}, tx : {NoTx}, height : {0}]
              \cup [pc : {"queued", "verifying", "verified"}, tx : Tx, height : Nat]
NoticeState == [stage : {"block", "readmit"}, view : View,
                confirmed : SUBSET Tx, reclaimed : SUBSET Tx]
FloorState == [recent : Seq(Nat), current : Nat,
               pressure : {"legacy", "off", "on"}]

(* The part of the type invariant that carries no running total. *)
PoolTypeOK ==
    /\ entries \subseteq Tx /\ announced \subseteq Tx
    /\ admittedHeight \in [Tx -> Nat]
    /\ spentInputs \in [Slot -> Tx \cup {NoTx}]
    /\ mintedOutputs \in [Slot -> Tx \cup {NoTx}]
    /\ inputSlots \subseteq Slot /\ outputSlots \subseteq Slot
    /\ view \in View /\ chain \in View
    /\ notices \subseteq NoticeState
    /\ sub \in [Submitter -> SubState] /\ orphans \in Nat

(* The type of every variable of the pool. *)
TypeOK ==
    /\ PoolTypeOK
    /\ incoming \in [Owner -> Nat]
    /\ floor \in FloorState

SlotsOf(t) == Inputs[t] \cup Outputs[t]

(* Two admitted transactions never touch a common slot, whether one spends *)
(* and the other mints it or both do the same: Mempool's first documented  *)
(* invariant, under concurrent submissions whose pre-filters both passed.  *)
NoSharedSlot ==
    \A t, u \in entries : t # u => SlotsOf(t) \cap SlotsOf(u) = {}

(* The core's slot maps and the async pool's own reservation sets, kept by *)
(* different code on admission, eviction and reorg, both name exactly the  *)
(* slots of the admitted entries: no slot leaks and none is forgotten.     *)
ReservationsMatch ==
    /\ inputSlots = UNION {Inputs[t] : t \in entries}
    /\ outputSlots = UNION {Outputs[t] : t \in entries}
    /\ \A s \in Slot :
          /\ spentInputs[s] # NoTx <=> s \in inputSlots
          /\ mintedOutputs[s] # NoTx <=> s \in outputSlots
          /\ spentInputs[s] # NoTx =>
                spentInputs[s] \in entries /\ s \in Inputs[spentInputs[s]]
          /\ mintedOutputs[s] # NoTx =>
                mintedOutputs[s] \in entries /\ s \in Outputs[mintedOutputs[s]]

(* Every admitted entry could go into the next block of the view the pool  *)
(* holds: anchor, resources, consensus fee, live inputs, free outputs.     *)
(* The view may have been replaced, by a block or by a reorg, between the  *)
(* two passes of the entry's submission and at any time since.             *)
EntriesIncludable ==
    \A t \in entries :
        /\ EpochAnchor[t] = view.anchor
        /\ CheckResources(t, view.height + 1)
        /\ Fee[t] >= ConsensusFee(t, view)
        /\ \A s \in Inputs[t] : SlotOf(view, s) = Spends[t][s]
        /\ \A s \in Outputs[t] : SlotOf(view, s) = Empty

(* The authorization of every admitted entry verifies for the candidate    *)
(* height of the current view, although it was verified once, at a height  *)
(* that may since have passed or been reorganised across a deadline.       *)
EntriesAuthorized ==
    \A t \in entries :
        /\ AuthorizationVerifies(t, view.height + 1)
        /\ t \in Calls => CheckCandidateCall(t, view.height + 1)

(* Neither the entry limit nor the byte limit is exceeded, although any    *)
(* number of submissions may pass the pre-filter before one is admitted,   *)
(* nor the number of workers, cancelled submissions included.              *)
LimitsHold ==
    /\ Cardinality(entries) <= Capacity
    /\ RetainedBytes(entries) <= MaxBytes
    /\ BusyWorkers <= Workers

(* An empty pool asks for no more than the base fee, and from v1.1 on the  *)
(* raised floor is in force only while a limit is at least half used.      *)
FloorFollowsPressure ==
    /\ entries = {} => CurrentFloor = MIN_FEE_BASE
    /\ V1_1Active(view.height + 1) /\ CurrentFloor > MIN_FEE_BASE =>
          \/ Cardinality(entries) * 2 >= Capacity
          \/ RetainedBytes(entries) * 2 >= MaxBytes

(* The incrementally kept per-owner totals are the sums over the entries.  *)
IncomingExact == \A o \in Owner : incoming[o] = OwnerSum(o, entries)

(* A subscriber that follows the events knows of every admitted entry. *)
EntriesAnnounced == entries \subseteq announced

(* Entries exclude each other, and what the pool keeps beside them follows *)
(* them through concurrent admissions, evictions, cancellations and        *)
(* reorgs: limits, fee floor, per-owner totals, the subscribers' picture.  *)
PoolSound ==
    /\ TypeOK /\ NoSharedSlot /\ LimitsHold
    /\ FloorFollowsPressure /\ IncomingExact /\ EntriesAnnounced

(* Once the gate is free the pool's view is the view of the durable tip:   *)
(* on_new_block installs whatever it is handed, so this rests on the gate. *)
ViewCurrent == notices = {} => view = chain

(* An entry leaves the pool only because it was confirmed, was reclaimed   *)
(* by a reorg, or cannot be included on the canonical tip: never because   *)
(* the pool looked at a view that the chain had left.                      *)
EvictionJustified ==
    [][\A t \in entries \ entries' :
          \E n \in notices :
             t \in n.confirmed \cup n.reclaimed \/ Evicted(t, chain)]_vars

(* Every submission past the pre-filter is answered. *)
SubmissionsResolve ==
    \A s \in Submitter : sub[s].pc # "idle" ~> sub[s].pc = "idle"
=============================================================================
