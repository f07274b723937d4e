----------------------------- MODULE BlockMiner -----------------------------
(***************************************************************************)
(* The internal miner: the loop of BlockMiner::run and apply_found_block   *)
(* (noid_miner/src/miner.rs) among the tasks it races with: the networking *)
(* actor of noid_node/src/main.rs, which commits peers' blocks and         *)
(* publishes readiness, the wallet RPC that switches the payout address,   *)
(* the pool, and the shutdown sequence.                                    *)
(*                                                                         *)
(* One step of the miner reads or writes one thing another task can see.   *)
(* The tip and the payout address are numbered in the order in which they  *)
(* become current: the canonical tip never returns to an earlier block.    *)
(* A watch channel is its value and whether the miner has seen it; the     *)
(* template_changes and mempool receivers are whether something is queued, *)
(* since the miner treats Lagged like a message and drains what is left    *)
(* before it captures again.                                               *)
(***************************************************************************)
EXTENDS Naturals

CONSTANTS
  MaxTips,   \* bound: blocks committed
  MaxEvents  \* bound: payout switches, readiness publications, admissions, failures

ASSUME BoundsAssumption == MaxTips \in Nat /\ MaxEvents \in Nat

VARIABLES
  pc,          \* where the miner is
  attempt,     \* the captured parent and payout, and whether users' pages are in
  tip,         \* the canonical tip
  tipWatch,    \* canonical_tip_changes has a value the actor has not read
  gate,        \* who holds the chain operation gate
  actor,       \* the networking actor's commit in flight
  payout,      \* the wallet's active address
  switching,   \* the address is switched and template_changes not yet sent
  changes,     \* template_changes has a message for the miner
  proof,       \* proof_network_ready: its value, and seen by the miner
  nonce,       \* nonce_network_ready: likewise
  publishing,  \* the actor has published proof and owes this nonce value
  pool,        \* an includable transaction is in the pool
  admitted,    \* an admission since the miner subscribed
  stopper,     \* the shutdown: the stop flag is set first, cancel_pow next
  cancel,      \* cancel_pow
  spent        \* how many bounded events have happened

netVars == <<tip, tipWatch, actor, publishing>>
walletVars == <<payout, switching>>
flagVars == <<stopper, cancel>>
poolVars == <<pool, admitted>>
watchVars == <<proof, nonce>>
sharedVars == <<gate, netVars, walletVars, flagVars, poolVars>>
vars == <<pc, attempt, changes, spent, watchVars, sharedVars>>

(* The permanent stop flag.                                                *)
stopped == stopper # "idle"

Watch == [value : BOOLEAN, seen : BOOLEAN]
Seen(w) == [w EXCEPT !.seen = TRUE]
(* Variant: the value changes and nobody is told. *)
ReplaceQuietly(w, v) == [w EXCEPT !.value = v]

(* watch::Sender::send_replace, skipped when the value is the same.        *)
Replace(w, v) == IF w.value = v THEN w ELSE [value |-> v, seen |-> FALSE]
Spend == spent < MaxEvents /\ spent' = spent + 1

Init ==
  /\ pc = "top" /\ attempt = [parent |-> 0, payout |-> 0, user |-> FALSE]
  /\ tip = 0 /\ tipWatch = FALSE /\ gate = "free" /\ actor = "idle"
  /\ payout = 0 /\ switching = FALSE /\ changes = FALSE
  /\ proof = [value |-> FALSE, seen |-> TRUE] /\ nonce = proof /\ publishing = "no"
  /\ pool = FALSE /\ admitted = FALSE /\ stopper = "idle" /\ cancel = FALSE
  /\ spent = 0

Goto(here, there) == pc = here /\ pc' = there
(* A step that only looks and moves on.                                    *)
Check(here, there) ==
  Goto(here, there) /\ UNCHANGED <<attempt, changes, spent, watchVars, sharedVars>>
-----------------------------------------------------------------------------
(* The miner, up to a prepared block.                                      *)

(* The stop check at the head of the loop.                                 *)
Top ==
  Check("top", IF stopped THEN "exited" ELSE "wait_proof")

(* wait_for_proof_network: ready at once, or a loop that ends with a       *)
(* change to ready, or at a poll that sees the stop flag.                  *)
WaitForProofNetwork == Check("wait_proof", IF proof.value THEN "drain" ELSE "proof_loop")
ProofLoop ==
  /\ pc = "proof_loop"
  /\ \/ stopped /\ pc' = "exited" /\ UNCHANGED proof
     \/ /\ ~proof.seen /\ proof' = Seen(proof)
        /\ pc' = IF proof.value THEN "drain" ELSE pc
  /\ UNCHANGED <<attempt, changes, spent, nonce, sharedVars>>

(* renew_template_mempool_notifications, then the template changes already *)
(* queued are dropped: the capture that follows reflects them.             *)
Drain ==
  /\ Goto("drain", "observe")
  /\ admitted' = FALSE /\ changes' = FALSE
  /\ UNCHANGED <<attempt, spent, watchVars, pool, gate, netVars, walletVars, flagVars>>

(* borrow_and_update on both watches.                                      *)
Observe ==
  /\ Goto("observe", "capture")
  /\ proof' = Seen(proof) /\ nonce' = Seen(nonce)
  /\ UNCHANGED <<attempt, changes, spent, sharedVars>>

(* The parent and the payout are captured under the gate.  A snapshot that *)
(* fails, or a launch that is not open, goes back to the head.             *)
Capture ==
  /\ pc = "capture" /\ gate = "free"
  /\ \/ /\ pc' = "build" /\ attempt' = [parent |-> tip, payout |-> payout, user |-> FALSE]
        /\ UNCHANGED spent
     \/ pc' = "top" /\ Spend /\ UNCHANGED attempt
  /\ UNCHANGED <<changes, watchVars, sharedVars>>

(* Variant: the template changes are drained after the capture. *)
BuildDrains ==
  /\ pc = "build" /\ pc' = "prepare" /\ attempt' = [attempt EXCEPT !.user = pool] /\ changes' = FALSE
  /\ UNCHANGED <<spent, watchVars, sharedVars>>

(* build_from_snapshot_with_limit selects from the pool as it is now.      *)
Build ==
  /\ pc = "build"
  /\ \/ /\ pc' = "prepare" /\ attempt' = [attempt EXCEPT !.user = pool]
        /\ UNCHANGED spent
     \/ pc' = "top" /\ Spend /\ UNCHANGED attempt
  /\ UNCHANGED <<changes, watchVars, sharedVars>>

(* The select around the proving worker.  A branch that leaves cancels the *)
(* worker and waits for it.                                                *)
Prepare ==
  /\ pc = "prepare"
  /\ \/ pc' = "prepared" /\ UNCHANGED <<changes, proof, spent>>
     \/ pc' = "top" /\ Spend /\ UNCHANGED <<changes, proof>>
     \/ changes /\ changes' = FALSE /\ pc' = "top" /\ UNCHANGED <<proof, spent>>
     \/ /\ ~proof.seen /\ proof' = Seen(proof)
        /\ pc' = IF proof.value THEN pc ELSE "top"
        /\ UNCHANGED <<changes, spent>>
     \/ stopped /\ pc' = "exited" /\ UNCHANGED <<changes, proof, spent>>
  /\ UNCHANGED <<attempt, nonce, sharedVars>>

(* Variant: the pool's events are renewed after proving. *)
PreparedRenews ==
  /\ Goto("prepared", IF stopped THEN "exited" ELSE IF proof.value THEN "tip_check" ELSE "top")
  /\ admitted' = FALSE
  /\ UNCHANGED <<attempt, changes, spent, watchVars, pool, gate, netVars, walletVars, flagVars>>

(* The checks of a completed preparation: stop and proof readiness ...     *)
Prepared ==
  Check("prepared", IF stopped THEN "exited" ELSE IF proof.value THEN "tip_check" ELSE "top")

(* ... then whether the parent is still the tip ...                        *)
TipCheck ==
  Check("tip_check", IF attempt.parent = tip THEN "change_check" ELSE "top")

(* ... then try_recv on the template changes ...                           *)
ChangeCheck ==
  /\ Goto("change_check", IF changes THEN "top" ELSE "nonce_check")
  /\ changes' = FALSE
  /\ UNCHANGED <<attempt, spent, watchVars, sharedVars>>

(* ... and the permission to search a nonce, which may be waited for.      *)
NonceCheck ==
  Check("nonce_check", IF nonce.value THEN "consume" ELSE "wait_nonce")

WaitNonce ==
  /\ pc = "wait_nonce"
  /\ \/ stopped /\ pc' = "exited" /\ UNCHANGED <<changes, watchVars>>
     \/ /\ ~nonce.seen /\ nonce' = Seen(nonce)
        /\ pc' = IF nonce.value THEN "recheck" ELSE pc
        /\ UNCHANGED <<changes, proof>>
     \/ /\ ~proof.seen /\ proof' = Seen(proof)
        /\ pc' = IF proof.value THEN pc ELSE "top"
        /\ UNCHANGED <<changes, nonce>>
     \/ changes /\ changes' = FALSE /\ pc' = "top" /\ UNCHANGED watchVars
  /\ UNCHANGED <<attempt, spent, sharedVars>>

(* After the wait the parent and the proof readiness are checked again.    *)
Recheck ==
  Check("recheck", IF attempt.parent = tip /\ proof.value THEN "consume" ELSE "top")

-----------------------------------------------------------------------------
(* The miner, from a prepared block to a committed one.                    *)

(* borrow_and_update on both watches, so that an old edge does not end the *)
(* search at once.                                                         *)
Consume ==
  /\ Goto("consume", "arm")
  /\ proof' = Seen(proof) /\ nonce' = Seen(nonce)
  /\ UNCHANGED <<attempt, changes, spent, sharedVars>>

(* The cancel flag is lowered ...                                          *)
Arm ==
  /\ Goto("arm", "stop_check")
  /\ cancel' = FALSE
  /\ UNCHANGED <<attempt, changes, spent, watchVars, gate, netVars, walletVars, poolVars, stopper>>
(* Variant: the stop flag is not read again. *)
StopUnchecked == Check("stop_check", "search")

(* ... and then the stop flag is read once more.                           *)
StopCheck ==
  /\ Goto("stop_check", IF stopped THEN "exited" ELSE "search")
  /\ cancel' = (cancel \/ stopped)
  /\ UNCHANGED <<attempt, changes, spent, watchVars, gate, netVars, walletVars, poolVars, stopper>>

(* The worker finds a nonce, or returns without one because of the cancel  *)
(* flag.                                                                   *)
Found == tip < MaxTips /\ Check("search", "found")
SearchCancelled == cancel /\ Check("search", "top")

(* The other branches of the select end the search and build again.        *)
SearchEnds ==
  /\ Goto("search", "top") /\ cancel' = TRUE
  /\ \/ changes /\ changes' = FALSE /\ UNCHANGED <<watchVars, admitted>>
     \/ ~nonce.seen /\ nonce' = Seen(nonce) /\ UNCHANGED <<changes, proof, admitted>>
     \/ ~proof.seen /\ proof' = Seen(proof) /\ UNCHANGED <<changes, nonce, admitted>>
     \/ ~attempt.user /\ admitted /\ admitted' = FALSE /\ UNCHANGED <<changes, watchVars>>
  /\ UNCHANGED <<attempt, spent, gate, netVars, walletVars, pool, stopper>>

(* A coinbase-only search is renewed by the heartbeat, and any search may  *)
(* be preempted by a local proof that needs the processor.                 *)
Heartbeat ==
  /\ ~attempt.user /\ Goto("search", "top") /\ cancel' = TRUE
  /\ UNCHANGED <<attempt, changes, spent, watchVars, gate, netVars, walletVars, poolVars, stopper>>
Preempted == Check("search", "top")

(* A nonce is sealed, and a sealed block applied, only if neither the stop *)
(* flag nor the readiness forbids it.                                      *)
MayProceed(next) == IF stopped THEN "exited" ELSE IF proof.value /\ nonce.value THEN next ELSE "top"
FoundCheck == Check("found", MayProceed("seal"))
Seal ==
  /\ pc = "seal"
  /\ \/ pc' = "sealed" /\ UNCHANGED spent
     \/ pc' = "top" /\ Spend
  /\ UNCHANGED <<attempt, changes, watchVars, sharedVars>>
SealedCheck == Check("sealed", MayProceed("apply"))

(* apply_found_block: under the gate the payout must still be the active   *)
(* address ...                                                             *)
ApplyLock ==
  /\ pc = "apply" /\ gate = "free"
  /\ IF attempt.payout = payout THEN pc' = "commit" /\ gate' = "miner"
                                ELSE pc' = "top" /\ UNCHANGED gate
  /\ UNCHANGED <<attempt, changes, spent, watchVars, netVars, walletVars, flagVars, poolVars>>

(* Variant: the store trusts the parent the miner checked. *)
CommitUnchecked ==
  /\ Goto("commit", "update") /\ tip' = tip + 1 /\ tipWatch' = TRUE
  /\ UNCHANGED <<attempt, changes, spent, watchVars, gate, actor, publishing, walletVars, flagVars, poolVars>>

(* ... the store commits the block only on its parent, and the hook tells  *)
(* the networking actor before the write lock is released ...              *)
Commit ==
  /\ pc = "commit"
  /\ IF attempt.parent = tip
     THEN pc' = "update" /\ tip' = tip + 1 /\ tipWatch' = TRUE /\ UNCHANGED gate
     ELSE pc' = "top" /\ gate' = "free" /\ UNCHANGED <<tip, tipWatch>>
  /\ UNCHANGED <<attempt, changes, spent, watchVars, actor, publishing, walletVars, flagVars, poolVars>>

(* ... the pool follows, which may confirm what it holds, and the gate is  *)
(* released.                                                               *)
Update ==
  /\ Goto("update", "top") /\ gate' = "free"
  /\ pool' \in {pool, FALSE}
  /\ UNCHANGED <<attempt, changes, spent, watchVars, netVars, walletVars, flagVars, admitted>>

-----------------------------------------------------------------------------
(* The tasks around the miner.                                             *)

(* A suffix, reorganization or snapshot of the actor takes the gate,       *)
(* commits or fails, updates the pool and reports; one at a time.          *)
ActorLock ==
  /\ actor = "idle" /\ gate = "free" /\ tip < MaxTips
  /\ actor' = "locked" /\ gate' = "actor"
  /\ UNCHANGED <<pc, attempt, changes, spent, watchVars, tip, tipWatch, publishing, walletVars, flagVars, poolVars>>
ActorCommit ==
  /\ actor = "locked"
  /\ \/ actor' = "committed" /\ tip' = tip + 1 /\ UNCHANGED <<gate, spent>>
     \/ actor' = "idle" /\ gate' = "free" /\ Spend /\ UNCHANGED tip
  /\ UNCHANGED <<pc, attempt, changes, watchVars, tipWatch, publishing, walletVars, flagVars, poolVars>>
ActorUpdate ==
  /\ actor = "committed"
  /\ actor' = "completed" /\ gate' = "free" /\ pool' \in {pool, FALSE}
  /\ UNCHANGED <<pc, attempt, changes, spent, watchVars, tip, tipWatch, publishing, walletVars, flagVars, admitted>>
HandleCompletion ==
  /\ actor = "completed"
  /\ actor' = "idle" /\ changes' = TRUE
  /\ UNCHANGED <<pc, attempt, spent, watchVars, gate, tip, tipWatch, publishing, walletVars, flagVars, poolVars>>

(* The canonical_tip_changes branch of the event loop.                     *)
HandleTipChange ==
  /\ tipWatch
  /\ tipWatch' = FALSE /\ changes' = TRUE
  /\ UNCHANGED <<pc, attempt, spent, watchVars, gate, tip, actor, publishing, walletVars, flagVars, poolVars>>

(* publish_at: the proof watch, then the nonce watch, which never permits  *)
(* more.                                                                   *)
PublishProof(p, n) ==
  /\ publishing = "no" /\ Spend
  /\ n => p
  /\ proof' = Replace(proof, p) /\ publishing' = IF n THEN "ready" ELSE "waiting"
  /\ UNCHANGED <<pc, attempt, changes, nonce, gate, tip, tipWatch, actor, walletVars, flagVars, poolVars>>
PublishNonce ==
  /\ publishing # "no"
  /\ nonce' = Replace(nonce, publishing = "ready") /\ publishing' = "no"
  /\ UNCHANGED <<pc, attempt, changes, spent, proof, gate, tip, tipWatch, actor, walletVars, flagVars, poolVars>>

(* Variant: the switch does not wait for the gate. *)
SwitchUngated ==
  /\ Spend
  /\ gate' = "wallet" /\ payout' = payout + 1 /\ switching' = TRUE
  /\ UNCHANGED <<pc, attempt, changes, watchVars, netVars, flagVars, poolVars>>

(* wallet_set_active_address: the new address is installed and announced   *)
(* under the gate.                                                         *)
SwitchPayout ==
  /\ gate = "free" /\ Spend
  /\ gate' = "wallet" /\ payout' = payout + 1 /\ switching' = TRUE
  /\ UNCHANGED <<pc, attempt, changes, watchVars, netVars, flagVars, poolVars>>
AnnounceSwitch ==
  /\ switching
  /\ switching' = FALSE /\ changes' = TRUE /\ gate' = "free"
  /\ UNCHANGED <<pc, attempt, spent, watchVars, netVars, payout, flagVars, poolVars>>

(* The pool admits a transaction and sends TxAdmitted.                     *)
PoolAdmits ==
  /\ Spend
  /\ pool' = TRUE /\ admitted' = TRUE
  /\ UNCHANGED <<pc, attempt, changes, watchVars, gate, netVars, walletVars, flagVars>>

(* The shutdown of the node: first the stop flag, then the cancel flag.    *)
Stop ==
  /\ stopper = "idle"
  /\ stopper' = "flagged"
  /\ UNCHANGED <<pc, attempt, changes, spent, watchVars, gate, netVars, walletVars, poolVars, cancel>>
StopCancels ==
  /\ stopper = "flagged"
  /\ stopper' = "done" /\ cancel' = TRUE
  /\ UNCHANGED <<pc, attempt, changes, spent, watchVars, gate, netVars, walletVars, poolVars>>

-----------------------------------------------------------------------------
(* The steps the loop takes by itself; the worker's luck, its preemption   *)
(* and the heartbeat are not among them.                                   *)
MinerStep ==
  \/ Top \/ WaitForProofNetwork \/ ProofLoop \/ Drain \/ Observe \/ Capture \/ Build \/ Prepare
  \/ Prepared \/ TipCheck \/ ChangeCheck \/ NonceCheck \/ WaitNonce \/ Recheck
  \/ Consume \/ Arm \/ StopCheck \/ SearchCancelled \/ SearchEnds
  \/ FoundCheck \/ Seal \/ SealedCheck \/ ApplyLock \/ Commit \/ Update

(* What the other tasks finish once they have begun it.                    *)
TaskStep ==
  \/ ActorCommit \/ ActorUpdate \/ HandleCompletion \/ HandleTipChange
  \/ PublishNonce \/ AnnounceSwitch \/ StopCancels

Next ==
  \/ MinerStep \/ Found \/ Heartbeat \/ Preempted
  \/ TaskStep \/ ActorLock \/ SwitchPayout \/ PoolAdmits \/ Stop
  \/ \E p, n \in BOOLEAN : PublishProof(p, n)

Spec == Init /\ [][Next]_vars

(* The runtime polls the miner's task, and every other task that holds the *)
(* gate or owes a message.  No luck of the search is assumed.              *)
FairSpec == Spec /\ WF_vars(MinerStep) /\ WF_vars(TaskStep)

-----------------------------------------------------------------------------
(* A captured template is held from its capture to its commit.             *)
Held == {"build", "prepare", "prepared", "tip_check", "change_check", "nonce_check", "wait_nonce",
         "recheck", "consume", "arm", "stop_check", "search", "found", "seal", "sealed", "apply", "commit"}

(* No template outlives its inputs unnoticed: while the miner holds one    *)
(* whose parent is no longer the tip, or whose payout is no longer the     *)
(* active address, a template change is queued or the task that made the   *)
(* change still owes it.  run() drains the queue before it captures, never *)
(* after.                                                                  *)
TemplateInvalidated ==
  pc \in Held =>
    /\ attempt.parent # tip => changes \/ tipWatch \/ actor \in {"committed", "completed"}
    /\ attempt.payout # payout => changes \/ switching

(* No admission is missed: a coinbase-only template that is being proved   *)
(* or searched while the pool holds an includable transaction has the      *)
(* TxAdmitted event queued.  renew_template_mempool_notifications comes    *)
(* before the capture for this reason.                                     *)
AdmissionNoticed ==
  pc \in Held \ {"build"} /\ ~attempt.user /\ pool => admitted

(* A mined block extends the tip it was built on and pays the address that *)
(* is active when it commits, whatever the actor and the wallet did while  *)
(* it was proved, searched and sealed: apply_found_block checks the payout *)
(* and the store the parent, under a gate that keeps both still.           *)
CommitsCurrent ==
  [][Commit /\ tip' # tip => attempt.parent = tip /\ attempt.payout = payout /\ ~switching]_vars

(* What the loop's iterations amount to.                                   *)
Attempt == INSTANCE BlockAttempt WITH
  tip <- tip,
  attempt <- IF pc \in Held \cup {"update"} THEN {attempt.parent} ELSE {},
  producing <- pc = "update"

(* The loop implements one attempt at a time: it mines a block only on the *)
(* parent it captured while that is still the tip, once per capture, and   *)
(* the actor does not commit between a mined block and the pool's update.  *)
ImplementsAttempt == Attempt!Spec

(* A shutdown ends the miner: whenever stop() sets its flags, also while   *)
(* the loop is about to lower the cancel flag, the loop exits.             *)
StopExits == stopped ~> pc = "exited"

(* A miner that may mine does: once both watches stay ready and nobody     *)
(* stops it, it searches again and again.  No edge of a watch is lost      *)
(* between the checks of the value and the waits for a change.             *)
ReadyMines ==
  <>[](proof.value /\ nonce.value /\ ~stopped) => []<>(pc = "search")

=============================================================================
