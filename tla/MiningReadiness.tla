-------------------------- MODULE MiningReadiness --------------------------
(***************************************************************************)
(* The permission to mine: MiningReadiness with its wrapper                *)
(* MiningPeerQuorum, and the branches of the P2P event loop that drive     *)
(* them (noid_node/src/networking/mining_readiness.rs, main.rs).  Commits  *)
(* happen in other tasks.  An exact suffix and a snapshot report when they *)
(* are done, a local block sets a watch; the loop handles these in any     *)
(* order, and its heartbeat reconciles what was missed.                    *)
(*                                                                         *)
(* Blocks are numbered as they are committed, and chain is the canonical   *)
(* chain.  Expiry is a choice of time.  A frontier lease is the block its  *)
(* peer confirmed; the code keeps instead the template parent, to which    *)
(* every commit that extends the chain moves it.  One failure domain is    *)
(* the quorum (MINING_PEER_QUORUM = 1), so domains are not told apart.  A  *)
(* fault of the header DAG, which closes the gate too, is in HeaderSync.   *)
(***************************************************************************)
EXTENDS Naturals, FiniteSets, Sequences, SequencesExt

CONSTANTS
  Peer,
  MaxBlocks,  \* bound: blocks committed after the first
  MaxEvents   \* bound: plans, snapshots, lapses, rejections and disconnections

ASSUME BoundsAssumption == IsFiniteSet(Peer) /\ MaxBlocks \in Nat /\ MaxEvents \in Nat

VARIABLES
  q,         \* the quorum's state (below)
  proof,     \* the watch proof_ready
  nonce,     \* the watch nonce_ready
  chain,     \* the canonical chain of the store
  blocks,    \* how many blocks exist
  tipWatch,  \* canonical_tip_changes has a value the loop has not read
  synced,    \* initial_sync_ready
  plan,      \* the exact suffix: its state, kind, and its base, later its tip
  snapshot,  \* the snapshot: its state, outcome and tip
  inventory, \* the header inventory the loop is looking at
  crossed,   \* history: a suffix was reported after a snapshot replaced it
  spent      \* how many bounded events have happened

netVars == <<tipWatch, synced, plan, snapshot, inventory, crossed>>
vars == <<q, proof, nonce, chain, blocks, netVars, spent>>

None == 0
State(st, kind, tip) == [st |-> st, kind |-> kind, tip |-> tip]
Idle == State("none", "none", None)
Tip == Last(chain)
Spend == spent < MaxEvents /\ spent' = spent + 1

-----------------------------------------------------------------------------
(* MiningPeerQuorum.  health is "none", "healthy" (compatible) or          *)
(* "rejected" (incompatible, blocks mining); frontier the block a peer     *)
(* confirmed; lapsed the leases whose time is over.                        *)

(* snapshot(): live leases only.                                           *)
Live(r, kind) == {p \in Peer : <<kind, p>> \notin r.lapsed}
Healthy(r) == {p \in Live(r, "health") : r.health[p] = "healthy"}
ProofReady(r) ==
  r.initial /\ ~r.unresolved /\ \A p \in Live(r, "health") : r.health[p] # "rejected"
NonceReady(r) ==
  ProofReady(r) /\ \E p \in Healthy(r) \cap Live(r, "frontier") : r.frontier[p] # None

(* publish_at *)
Store(r) == q' = r /\ proof' = ProofReady(r) /\ nonce' = NonceReady(r)

(* set_canonical_tip_state and set_committed_tip: a child keeps the        *)
(* frontier leases, anything else revokes them.                            *)
SetTip(r, b, extends, unresolved) ==
  [r EXCEPT !.committed = b, !.unresolved = unresolved,
            !.frontier = IF b = r.committed \/ extends THEN @ ELSE [p \in Peer |-> None]]

(* reconcile_canonical_tip: nothing if the tip is known; a direct child    *)
(* extends.                                                                *)
(* Variant: whatever the store reports is taken for a child.               *)
AnyChild(b) == Len(chain) > 1
DirectChild(b) == Len(chain) > 1 /\ chain[Len(chain) - 1] = b
Reconcile(r) ==
  IF r.committed = Tip THEN r ELSE SetTip(r, Tip, DirectChild(r.committed), FALSE)

(* renew_health; a rejection takes the frontier lease with it.             *)
Renew(r, p, health) ==
  [r EXCEPT !.health[p] = health, !.lapsed = @ \ {<<"health", p>>},
            !.frontier[p] = IF health = "rejected" THEN None ELSE @]

(* confirm_tip_at: only a connected peer, only the committed tip.          *)
Confirm(r, p, b) ==
  IF p \in r.connected /\ b = r.committed
  THEN [Renew(r, p, "healthy") EXCEPT !.frontier[p] = b, !.lapsed = @ \ {<<"frontier", p>>}]
  ELSE r
ConfirmAll(r, S, b) == FoldSet(LAMBDA p, a : Confirm(a, p, b), r, S)

(* disconnect *)
Forget(r, S) ==
  [r EXCEPT !.health = [p \in Peer |-> IF p \in S THEN "none" ELSE @[p]],
            !.frontier = [p \in Peer |-> IF p \in S THEN None ELSE @[p]],
            !.lapsed = {l \in @ : l[2] \notin S}]

(* expire_stale: what is over is removed, a frontier with its health.      *)
Expired(r) ==
  LET lost == Peer \ Live(r, "health")
      late == Peer \ Live(r, "frontier")
      r1 == Forget(r, lost)
  IN  [r1 EXCEPT !.frontier = [p \in Peer |-> IF p \in late THEN None ELSE @[p]], !.lapsed = {}]

(* set_sync_state publishes only a change.                                 *)
SetSyncState(r, unresolved) ==
  IF r.initial = synced /\ r.unresolved = unresolved
  THEN r ELSE [r EXCEPT !.initial = synced, !.unresolved = unresolved]

Init ==
  /\ q = [connected |-> {}, health |-> [p \in Peer |-> "none"], frontier |-> [p \in Peer |-> None],
          lapsed |-> {}, committed |-> 1, initial |-> FALSE, unresolved |-> FALSE]
  /\ proof = FALSE /\ nonce = FALSE
  /\ chain = <<1>> /\ blocks = 1 /\ tipWatch = FALSE /\ synced = FALSE
  /\ plan = Idle /\ snapshot = Idle /\ inventory = [peer |-> None, tip |-> None]
  /\ crossed = FALSE /\ spent = 0

-----------------------------------------------------------------------------
(* Commits in other tasks.                                                 *)

(* The chain loses its last cut blocks and gains n new ones.               *)
Extend(cut, n) ==
  /\ blocks + n <= MaxBlocks + 1 /\ cut < Len(chain)
  /\ blocks' = blocks + n
  /\ chain' = SubSeq(chain, 1, Len(chain) - cut) \o [i \in 1 .. n |-> blocks + i]

(* A locally mined or submitted block; the watch is set with it.           *)
LocalCommit ==
  /\ Extend(0, 1) /\ tipWatch' = TRUE
  /\ UNCHANGED <<q, proof, nonce, synced, plan, snapshot, inventory, crossed, spent>>

(* An exact suffix extends the tip if that still is its base, or replaces  *)
(* what follows its base by more, or fails.                                *)
SuffixCommit ==
  /\ plan.st = "applying"
  /\ \/ /\ plan.kind = "live" /\ plan.tip = Tip
        /\ \E n \in 1 .. 2 : Extend(0, n)
        /\ plan' = State("done", "live", Last(chain'))
     \/ /\ plan.kind = "reorg"
        /\ \E cut \in 1 .. Len(chain) - 1 : plan.tip = chain[Len(chain) - cut] /\ Extend(cut, cut + 1)
        /\ plan' = State("done", "reorg", Last(chain'))
     \/ plan' = State("done", "failed", None) /\ UNCHANGED <<chain, blocks>>
  /\ UNCHANGED <<q, proof, nonce, tipWatch, synced, snapshot, inventory, crossed, spent>>

(* A snapshot replaces blocks or goes beyond them; the wallet's reload may *)
(* fail after the commit, or the snapshot be superseded and its plan       *)
(* retired.  A failure before the commit ends the node.                    *)
SnapshotCommit(kind) ==
  /\ snapshot.st = "active"
  /\ IF kind = "superseded" THEN UNCHANGED <<chain, blocks>> ELSE \E cut \in 0 .. 1 : Extend(cut, 2)
  /\ snapshot' = State("done", kind, Last(chain'))
  /\ UNCHANGED <<q, proof, nonce, tipWatch, synced, plan, inventory, crossed, spent>>

-----------------------------------------------------------------------------
(* The event loop.  It handles nothing else while it awaits the validation *)
(* of a header inventory.                                                  *)
LoopFree == inventory.peer = None

(* PeerConnected, PeerDisconnected                                         *)
Connect(p) ==
  /\ LoopFree /\ p \notin q.connected
  /\ q' = [q EXCEPT !.connected = @ \cup {p}]
  /\ UNCHANGED <<proof, nonce, chain, blocks, netVars, spent>>
Disconnect(p) ==
  /\ LoopFree /\ p \in q.connected /\ Spend
  /\ Store([Forget(q, {p}) EXCEPT !.connected = @ \ {p}])
  /\ UNCHANGED <<chain, blocks, netVars>>

(* A validated header of a connected peer: observe_compatible.             *)
ObserveCompatible(p) ==
  /\ LoopFree /\ p \in q.connected
  /\ Store(Renew(q, p, "healthy"))
  /\ UNCHANGED <<chain, blocks, netVars, spent>>

(* A finalized divergence: reject_incompatible.                            *)
RejectIncompatible(p) ==
  /\ LoopFree /\ p \in q.connected /\ Spend
  /\ Store(Renew(q, p, "rejected"))
  /\ UNCHANGED <<chain, blocks, netVars>>

(* An announcement of our tip.                                             *)
AnnounceTip(p) ==
  /\ LoopFree
  /\ Store(Confirm(q, p, Tip))
  /\ UNCHANGED <<chain, blocks, netVars, spent>>

(* A header inventory that ends in our tip: the tip is read, and the peer  *)
(* confirmed after an await, unless a plan is active or a higher tip was   *)
(* announced.                                                              *)
InventoryArrives(p) ==
  /\ LoopFree
  /\ inventory' = [peer |-> p, tip |-> Tip]
  /\ UNCHANGED <<q, proof, nonce, chain, blocks, tipWatch, synced, plan, snapshot, crossed, spent>>
InventoryConfirmed ==
  /\ ~LoopFree
  /\ inventory' = [peer |-> None, tip |-> None]
  /\ \/ plan.st # "active" /\ synced' = TRUE /\ Store(Confirm(q, inventory.peer, inventory.tip))
     \/ UNCHANGED <<synced, q, proof, nonce>>
  /\ UNCHANGED <<chain, blocks, tipWatch, plan, snapshot, crossed, spent>>

(* An exact plan is admitted or changed, which closes the gate; later its  *)
(* objects are complete and the apply starts, or a heartbeat retires it.   *)
AdmitPlan(base) ==
  /\ LoopFree /\ plan.st \in {"none", "active"} /\ snapshot.st = "none" /\ Spend
  /\ plan' = State("active", IF base = Tip THEN "live" ELSE "reorg", base)
  /\ LET r == SetSyncState(q, TRUE) IN
       IF r = q THEN UNCHANGED <<q, proof, nonce>> ELSE Store(r)
  /\ UNCHANGED <<chain, blocks, tipWatch, synced, snapshot, inventory, crossed>>
StartApply ==
  /\ LoopFree /\ plan.st = "active"
  /\ plan' = State("applying", plan.kind, plan.tip)
  /\ UNCHANGED <<q, proof, nonce, chain, blocks, tipWatch, synced, snapshot, inventory, crossed, spent>>

(* The suffix completion.  A tip the header DAG still selects is resolved  *)
(* and confirmed by the peers S that supplied its objects; another one is  *)
(* progress, and no authority to mine.                                     *)
HandleCompletion(selected, S) ==
  /\ LoopFree /\ plan.st = "done"
  /\ plan' = Idle
  /\ crossed' = (crossed \/ (plan.kind # "failed" /\ plan.tip \notin ToSet(chain)))
  /\ LET extends == plan.kind = "live" IN
     CASE plan.kind = "failed" -> UNCHANGED <<q, proof, nonce, synced>>
       [] plan.kind # "failed" /\ selected ->
            /\ synced' = (synced \/ S # {})
            /\ Store(ConfirmAll(SetTip(q, plan.tip, extends, FALSE), S, plan.tip))
       [] OTHER -> Store(SetTip(q, plan.tip, extends, TRUE)) /\ UNCHANGED synced
  /\ UNCHANGED <<chain, blocks, tipWatch, snapshot, inventory, spent>>

(* A snapshot is selected, and its install, or its failure, reported.      *)
StartSnapshot ==
  /\ LoopFree /\ snapshot.st = "none" /\ Spend
  /\ snapshot' = State("active", "none", None)
  /\ UNCHANGED <<q, proof, nonce, chain, blocks, tipWatch, synced, plan, inventory, crossed>>
HandleSnapshot(p) ==
  /\ LoopFree /\ snapshot.st = "done"
  /\ snapshot' = Idle
  /\ LET r == SetTip(q, snapshot.tip, FALSE, FALSE) IN
     CASE snapshot.kind = "applied" -> Store(Confirm(r, p, snapshot.tip))
       [] snapshot.kind = "after_commit" -> Store(r)
       [] OTHER -> UNCHANGED <<q, proof, nonce>>
  /\ UNCHANGED <<chain, blocks, tipWatch, synced, plan, inventory, crossed, spent>>

(* The canonical_tip_changes branch.                                       *)
HandleTipChange ==
  /\ LoopFree /\ tipWatch
  /\ tipWatch' = FALSE
  /\ LET r == Reconcile(q) IN IF r = q THEN UNCHANGED <<q, proof, nonce>> ELSE Store(r)
  /\ UNCHANGED <<chain, blocks, synced, plan, snapshot, inventory, crossed, spent>>

(* Variant: the admission of a plan is the only place that closes the gate. *)
HeartbeatKeepsSync ==
  /\ LoopFree
  /\ Store(Expired(SetSyncState(Reconcile(q), q.unresolved)))
  /\ UNCHANGED <<chain, blocks, netVars, spent>>

(* The heartbeat: reconcile, set_sync_state, expire_stale.                 *)
Heartbeat ==
  /\ LoopFree
  /\ Store(Expired(SetSyncState(Reconcile(q), plan.st # "none" \/ snapshot.st # "none")))
  /\ UNCHANGED <<chain, blocks, netVars, spent>>

(* A heartbeat that finds the transport of the plan exhausted.             *)
RetirePlan ==
  /\ LoopFree /\ plan.st = "active"
  /\ plan' = Idle /\ Store(Expired(SetSyncState(Reconcile(q), TRUE)))
  /\ UNCHANGED <<chain, blocks, tipWatch, synced, snapshot, inventory, crossed, spent>>

(* Time: a frontier lease is over, or all leases of a peer.                *)
Lapse(p, kinds) ==
  /\ Spend /\ p \in q.connected /\ kinds \X {p} \subseteq ({"health", "frontier"} \X Peer) \ q.lapsed
  /\ q' = [q EXCEPT !.lapsed = @ \cup (kinds \X {p})]
  /\ UNCHANGED <<proof, nonce, chain, blocks, netVars>>

Next ==
  \/ InventoryConfirmed \/ HandleTipChange \/ Heartbeat
  \/ \E selected \in BOOLEAN, S \in SUBSET Peer : HandleCompletion(selected, S)
  \/ \E base \in ToSet(chain) : AdmitPlan(base)
  \/ LocalCommit \/ RetirePlan \/ StartApply \/ SuffixCommit \/ StartSnapshot
  \/ \E kind \in {"applied", "after_commit", "superseded"} : SnapshotCommit(kind)
  \/ \E p \in Peer : \/ Connect(p) \/ Disconnect(p) \/ ObserveCompatible(p) \/ RejectIncompatible(p)
                     \/ AnnounceTip(p) \/ InventoryArrives(p) \/ HandleSnapshot(p)
                     \/ \E kinds \in {{"frontier"}, {"health", "frontier"}} : Lapse(p, kinds)

Spec == Init /\ [][Next]_vars

(* The loop finishes what it awaits; its select chooses among the ready    *)
(* branches at random, so the timer's turn comes however often others are  *)
(* ready; and the probe lanes make connected peers confirm the tip again.  *)
FairSpec ==
  /\ Spec /\ SF_vars(Heartbeat) /\ WF_vars(InventoryConfirmed)
  /\ \A p \in Peer : SF_vars(AnnounceTip(p) /\ p \in q.connected)

-----------------------------------------------------------------------------
(* Nobody mines on the word of a peer from another branch: while readiness *)
(* is about the canonical tip, every peer that authorizes it confirmed a   *)
(* block of the canonical chain.  Extensions move the leases along and     *)
(* replacements revoke them, in whatever order completions, the watch and  *)
(* the heartbeat report the commits.  The exception is the report of a     *)
(* suffix that a snapshot has replaced meanwhile: it moves readiness back  *)
(* to a tip that is gone, and with it the leases.                          *)
AuthorizedByAncestor ==
  ~crossed /\ q.committed = Tip => \A p \in Peer : q.frontier[p] \in ToSet(chain) \cup {None}

(* Whatever reopened the gate under an active plan, and whatever expired,  *)
(* a heartbeat withdraws the permission, or its ground is back.            *)
Unfounded ==
  \/ plan.st \in {"active", "applying"}
  \/ \A p \in Peer : q.frontier[p] = None \/ <<"frontier", p>> \in q.lapsed
GateCloses == []<>~(nonce /\ Unfounded)

(* A node with nothing to resolve and a peer that answers may mine: no     *)
(* stale completion leaves readiness at a tip nobody can confirm.          *)
Quiet ==
  /\ synced /\ plan.st = "none" /\ snapshot.st = "none" /\ q.connected # {}
  /\ \A p \in Peer : q.health[p] # "rejected"

=============================================================================
