--------------------------- MODULE ExternalMining ---------------------------
(***************************************************************************)
(* Mining by an external worker: the one-attempt slot of noid_rpc's server *)
(* (ExternalMiningAttemptSlot, its leases and the invalidator the node     *)
(* holds) and the two detached tasks that own it in turn, one started by   *)
(* getBlockTemplate and one by submitBlock.  Around them the networking    *)
(* actor of noid_node/src/main.rs commits peers' blocks and snapshots.     *)
(*                                                                         *)
(* Template ids are the slot's own sequence numbers.  The tip is numbered  *)
(* in the order of the commits: it never returns to an earlier block.  A   *)
(* clock is a choice: a ready attempt may expire at any time.              *)
(***************************************************************************)
EXTENDS Naturals

CONSTANTS
  MaxTemplates, \* bound: getBlockTemplate requests that reserve the slot
  MaxTips,      \* bound: blocks committed
  MaxFlips      \* bound: changes of the network's permission to mine

ASSUME BoundsAssumption == {MaxTemplates, MaxTips, MaxFlips} \subseteq Nat

VARIABLES
  slot,     \* the attempt slot: state, template id, invalidated flag, parent
  prep,     \* prep[id]: the preparing task of template id
  parent,   \* parent[id]: the parent the task captured
  sub,      \* submissions between their read of the tip and begin_proving
  prove,    \* prove[id]: the proving task of template id
  next,     \* next_sequence
  tip,      \* the canonical tip
  tipWatch, \* canonical_tip_changes has a value the actor has not read
  suffix,   \* the exact suffix in flight: its state and the tip it committed
  gate,     \* the operation gate: "free", or "suffix", "snapshot" or "proving"
  network,  \* mining_network_ready
  flips

vars == <<slot, prep, parent, sub, prove, next, tip, tipWatch, suffix, gate, network, flips>>

Template == 1 .. MaxTemplates
Tip == 0 .. MaxTips
Idle == [st |-> "idle", id |-> 0, invalidated |-> FALSE, parent |-> 0]
Preparing(id, inv) == [st |-> "preparing", id |-> id, invalidated |-> inv, parent |-> 0]
Ready(id, p) == [st |-> "ready", id |-> id, invalidated |-> FALSE, parent |-> p]
Proving(id) == [st |-> "proving", id |-> id, invalidated |-> FALSE, parent |-> 0]
NoSuffix == [st |-> "idle", tip |-> 0]

Init ==
  /\ slot = Idle /\ prep = [id \in Template |-> "none"] /\ parent = [id \in Template |-> 0]
  /\ sub = {} /\ prove = [id \in Template |-> "none"] /\ next = 0
  /\ tip = 0 /\ tipWatch = FALSE /\ suffix = NoSuffix /\ gate = "free"
  /\ network = TRUE /\ flips = 0

-----------------------------------------------------------------------------
(* The slot.                                                               *)

(* cancel_preparation: only the owner of the preparation releases it.      *)
CancelPreparation(id) == IF slot.st = "preparing" /\ slot.id = id THEN Idle ELSE slot

(* Variant: a preparation invalidated meanwhile is published all the same. *)
InstallInvalidated(id, p) ==
  IF slot.st = "preparing" /\ slot.id = id THEN Ready(id, p) ELSE CancelPreparation(id)

(* Variant: a refused attempt leaves the slot to nobody. *)
InstallKeepsSlot(id, p) ==
  IF slot.st = "preparing" /\ slot.id = id /\ ~slot.invalidated THEN Ready(id, p) ELSE slot

(* install_ready, with the lease's drop when it refuses.                   *)
InstallReady(id, p) ==
  IF slot.st = "preparing" /\ slot.id = id /\ ~slot.invalidated
  THEN Ready(id, p) ELSE CancelPreparation(id)

(* finish_proving *)
FinishProving(id) == IF slot.st = "proving" /\ slot.id = id THEN Idle ELSE slot

(* Variant: an invalidated preparation frees the slot at once. *)
InvalidateFrees(t) ==
  IF slot.st = "preparing" \/ (slot.st = "ready" /\ slot.parent # t) THEN Idle ELSE slot

(* invalidate_except: a preparation is marked, a ready attempt on another  *)
(* parent dropped, a proving one kept.                                     *)
InvalidateExcept(t) ==
  CASE slot.st = "preparing" -> Preparing(slot.id, TRUE)
    [] slot.st = "ready" /\ slot.parent # t -> Idle
    [] OTHER -> slot

(* purge_expired and the timer of install_ready.                           *)
ExpireReady ==
  /\ slot.st = "ready"
  /\ slot' = Idle
  /\ UNCHANGED <<prep, parent, sub, prove, next, tip, tipWatch, suffix, gate, network, flips>>

-----------------------------------------------------------------------------
(* getBlockTemplate                                                        *)

(* The slot is reserved for a new template and a task takes the lease.     *)
GetBlockTemplate ==
  /\ network /\ slot.st = "idle" /\ next < MaxTemplates
  /\ next' = next + 1
  /\ slot' = Preparing(next', FALSE) /\ prep' = [prep EXCEPT ![next'] = "capture"]
  /\ UNCHANGED <<parent, sub, prove, tip, tipWatch, suffix, gate, network, flips>>

(* A task that returns an error drops its lease.                           *)
PrepareFails(id) ==
  /\ prep[id] \in {"capture", "prepare", "check", "install"}
  /\ prep' = [prep EXCEPT ![id] = "ended"] /\ slot' = CancelPreparation(id)
  /\ UNCHANGED <<parent, sub, prove, next, tip, tipWatch, suffix, gate, network, flips>>

(* The parent is captured under the gate.                                  *)
CaptureParent(id) ==
  /\ prep[id] = "capture" /\ network /\ gate = "free"
  /\ prep' = [prep EXCEPT ![id] = "prepare"] /\ parent' = [parent EXCEPT ![id] = tip]
  /\ UNCHANGED <<slot, sub, prove, next, tip, tipWatch, suffix, gate, network, flips>>

(* The proof is built off the reactor; the permission is read again.       *)
PreparationDone(id) ==
  /\ prep[id] = "prepare" /\ network
  /\ prep' = [prep EXCEPT ![id] = "check"]
  /\ UNCHANGED <<slot, parent, sub, prove, next, tip, tipWatch, suffix, gate, network, flips>>

(* The parent must still be the tip ...                                    *)
PreparedTipCheck(id) ==
  /\ prep[id] = "check" /\ parent[id] = tip
  /\ prep' = [prep EXCEPT ![id] = "install"]
  /\ UNCHANGED <<slot, parent, sub, prove, next, tip, tipWatch, suffix, gate, network, flips>>

(* ... and then, the read lock released, the attempt is installed.         *)
Install(id) ==
  /\ prep[id] = "install"
  /\ prep' = [prep EXCEPT ![id] = "ended"] /\ slot' = InstallReady(id, parent[id])
  /\ UNCHANGED <<parent, sub, prove, next, tip, tipWatch, suffix, gate, network, flips>>

-----------------------------------------------------------------------------
(* submitBlock                                                             *)

(* A worker submits a template it was given; the tip is read first ...     *)
SubmitBlock(id) ==
  /\ network /\ prep[id] = "ended"
  /\ sub' = sub \cup {[id |-> id, tip |-> tip]}
  /\ UNCHANGED <<slot, prep, parent, prove, next, tip, tipWatch, suffix, gate, network, flips>>

(* ... then begin_proving consumes the attempt, also when it is stale.     *)
BeginProving(s) ==
  /\ s \in sub /\ sub' = sub \ {s}
  /\ IF slot.st = "ready" /\ slot.id = s.id
     THEN IF slot.parent = s.tip
          THEN slot' = Proving(s.id) /\ prove' = [prove EXCEPT ![s.id] = "tip_check"]
          ELSE slot' = Idle /\ UNCHANGED prove
     ELSE UNCHANGED <<slot, prove>>
  /\ UNCHANGED <<prep, parent, next, tip, tipWatch, suffix, gate, network, flips>>

(* Every error of the proving task drops its lease.                        *)
ProvingFails(id) ==
  /\ prove[id] \in {"tip_check", "seal", "lock"} /\ (prove[id] = "lock" => gate = "free")
  /\ prove' = [prove EXCEPT ![id] = "ended"] /\ slot' = FinishProving(id)
  /\ UNCHANGED <<prep, parent, sub, next, tip, tipWatch, suffix, gate, network, flips>>

(* finalize_node_owned_template_after_nonce: permission and parent ...     *)
ProvingTipCheck(id) ==
  /\ prove[id] = "tip_check" /\ network /\ parent[id] = tip
  /\ prove' = [prove EXCEPT ![id] = "seal"]
  /\ UNCHANGED <<slot, prep, parent, sub, next, tip, tipWatch, suffix, gate, network, flips>>

(* ... the nonce and the seal, then the permission once more ...           *)
SealNonce(id) ==
  /\ prove[id] = "seal" /\ network
  /\ prove' = [prove EXCEPT ![id] = "lock"]
  /\ UNCHANGED <<slot, prep, parent, sub, next, tip, tipWatch, suffix, gate, network, flips>>

(* Variant: the commit trusts the check made before sealing. *)
CommitUnchecked(id) ==
  /\ prove[id] = "lock" /\ gate = "free" /\ tip < MaxTips
  /\ tip' = tip + 1 /\ tipWatch' = TRUE /\ gate' = "proving"
  /\ prove' = [prove EXCEPT ![id] = "update"]
  /\ UNCHANGED <<slot, prep, parent, sub, next, suffix, network, flips>>

(* ... and the commit under the gate, which the store refuses unless the   *)
(* parent is the tip; the watch is set before the write lock is released.  *)
CommitBlock(id) ==
  /\ prove[id] = "lock" /\ gate = "free" /\ tip < MaxTips
  /\ parent[id] = tip
  /\ tip' = tip + 1 /\ tipWatch' = TRUE /\ gate' = "proving"
  /\ prove' = [prove EXCEPT ![id] = "update"]
  /\ UNCHANGED <<slot, prep, parent, sub, next, suffix, network, flips>>

(* The pool follows and the gate is released ...                           *)
FinishBlock(id) ==
  /\ prove[id] = "update"
  /\ gate' = "free" /\ prove' = [prove EXCEPT ![id] = "announce"]
  /\ UNCHANGED <<slot, prep, parent, sub, next, tip, tipWatch, suffix, network, flips>>

(* ... then the block is announced, which may wait for a full command      *)
(* lane, and the lease dropped.                                            *)
AnnounceBlock(id) ==
  /\ prove[id] = "announce"
  /\ prove' = [prove EXCEPT ![id] = "ended"] /\ slot' = FinishProving(id)
  /\ UNCHANGED <<prep, parent, sub, next, tip, tipWatch, suffix, gate, network, flips>>

-----------------------------------------------------------------------------
(* The networking actor.                                                   *)

(* An exact suffix, one at a time, commits under the gate ...              *)
SuffixCommit ==
  /\ suffix.st = "idle" /\ gate = "free" /\ tip < MaxTips
  /\ tip' = tip + 1 /\ gate' = "suffix"
  /\ suffix' = [st |-> "committed", tip |-> tip']
  /\ UNCHANGED <<slot, prep, parent, sub, prove, next, tipWatch, network, flips>>

(* ... and sends its completion to the event loop ...                      *)
SuffixRelease ==
  /\ suffix.st = "committed"
  /\ gate' = "free" /\ suffix' = [st |-> "completed", tip |-> suffix.tip]
  /\ UNCHANGED <<slot, prep, parent, sub, prove, next, tip, tipWatch, network, flips>>

(* ... which invalidates with the tip the suffix had committed.            *)
HandleCompletion ==
  /\ suffix.st = "completed"
  /\ suffix' = NoSuffix /\ slot' = InvalidateExcept(suffix.tip)
  /\ UNCHANGED <<prep, parent, sub, prove, next, tip, tipWatch, gate, network, flips>>

(* A snapshot commits under the gate too ...                               *)
SnapshotCommit ==
  /\ gate = "free" /\ tip < MaxTips
  /\ tip' = tip + 1 /\ gate' = "snapshot"
  /\ UNCHANGED <<slot, prep, parent, sub, prove, next, tipWatch, suffix, network, flips>>

(* ... and invalidates before it releases it.                              *)
SnapshotRelease ==
  /\ gate = "snapshot"
  /\ gate' = "free" /\ slot' = InvalidateExcept(tip)
  /\ UNCHANGED <<prep, parent, sub, prove, next, tip, tipWatch, suffix, network, flips>>

(* A local commit reaches the event loop through the watch; it invalidates *)
(* with the tip of that moment.                                            *)
HandleTipChange ==
  /\ tipWatch
  /\ tipWatch' = FALSE /\ slot' = InvalidateExcept(tip)
  /\ UNCHANGED <<prep, parent, sub, prove, next, tip, suffix, gate, network, flips>>

(* The readiness the P2P loop publishes.                                   *)
FlipNetwork ==
  /\ flips < MaxFlips
  /\ network' = ~network /\ flips' = flips + 1
  /\ UNCHANGED <<slot, prep, parent, sub, prove, next, tip, tipWatch, suffix, gate>>

PrepareStep(id) ==
  \/ PrepareFails(id) \/ CaptureParent(id) \/ PreparationDone(id)
  \/ PreparedTipCheck(id) \/ Install(id)
ProveStep(id) ==
  \/ ProvingFails(id) \/ ProvingTipCheck(id) \/ SealNonce(id)
  \/ CommitBlock(id) \/ FinishBlock(id) \/ AnnounceBlock(id)
ActorStep == SuffixRelease \/ HandleCompletion \/ SnapshotRelease \/ HandleTipChange

Next ==
  \/ GetBlockTemplate \/ ExpireReady \/ FlipNetwork
  \/ SuffixCommit \/ SnapshotCommit \/ ActorStep
  \/ \E id \in Template : PrepareStep(id) \/ SubmitBlock(id) \/ ProveStep(id)
  \/ \E s \in sub : BeginProving(s)

Spec == Init /\ [][Next]_vars

(* Tasks and the event loop are polled, and the expiry timer fires.        *)
FairSpec ==
  /\ Spec /\ WF_vars(ActorStep) /\ WF_vars(ExpireReady)
  /\ \A id \in Template : WF_vars(PrepareStep(id)) /\ WF_vars(ProveStep(id))

-----------------------------------------------------------------------------
Slot == [st : {"idle", "preparing", "ready", "proving"}, id : 0 .. MaxTemplates,
         invalidated : BOOLEAN, parent : Nat]
TypeOK ==
  /\ slot \in Slot
  /\ prep \in [Template -> {"none", "capture", "prepare", "check", "install", "ended"}]
  /\ prove \in [Template -> {"none", "tip_check", "seal", "lock", "update", "announce", "ended"}]
  /\ parent \in [Template -> Nat] /\ next \in 0 .. MaxTemplates /\ tip \in Nat
  /\ sub \subseteq [id : Template, tip : Nat]
  /\ suffix \in [st : {"idle", "committed", "completed"}, tip : Nat]
  /\ gate \in {"free", "suffix", "snapshot", "proving"}
  /\ tipWatch \in BOOLEAN /\ network \in BOOLEAN /\ flips \in Nat

PrepareRuns(id) == prep[id] \in {"capture", "prepare", "check", "install"}
ProveRuns(id) == prove[id] \in {"tip_check", "seal", "lock", "update", "announce"}

(* The slot and the detached tasks agree: a task that still prepares or    *)
(* proves owns the slot, so at most one attempt is worked on, whatever the *)
(* node invalidates meanwhile; the slot is never occupied on behalf of a   *)
(* task that ended; and the template a worker may submit was never         *)
(* submitted before.                                                       *)
SlotOwned ==
  \A id \in Template :
    /\ PrepareRuns(id) <=> slot.st = "preparing" /\ slot.id = id
    /\ ProveRuns(id) <=> slot.st = "proving" /\ slot.id = id
    /\ slot.st = "ready" /\ slot.id = id => prep[id] = "ended" /\ prove[id] = "none"

(* An attempt a worker can fetch work for extends the canonical tip, or    *)
(* the event loop or the snapshot installer still has to invalidate it:    *)
(* no order of capture, commit, completion and installation leaves a       *)
(* template for a replaced parent that only its expiry would remove.       *)
ReadyCurrent ==
  slot.st = "ready" /\ slot.parent # tip =>
    tipWatch \/ gate = "snapshot" \/ (suffix.st # "idle" /\ suffix.tip = tip)

(* What the slot's template amounts to: the parent its task captured, from *)
(* the capture until the slot is free or only the announcement is left.    *)
Announcing == slot.st = "proving" /\ prove[slot.id] = "announce"
captured ==
  IF slot.st = "idle" \/ prep[slot.id] = "capture" \/ Announcing THEN {} ELSE {parent[slot.id]}

Attempt == INSTANCE BlockAttempt WITH
  tip <- tip, attempt <- captured, producing <- gate = "proving"

(* The slot, its leases and its two tasks implement one attempt at a time: *)
(* however submissions, expiry, invalidation and peers' commits interleave *)
(* a template leads to at most one block, on the parent it was captured    *)
(* for, and the next one starts only when it is over.                      *)
ImplementsAttempt == Attempt!Spec

(* The slot always becomes free again: no failed, invalidated, expired or  *)
(* stale attempt locks out the next worker.                                *)
SlotFreed == slot.st # "idle" ~> slot.st = "idle"

=============================================================================
