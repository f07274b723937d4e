------------------------------ MODULE HeaderSync ------------------------------
(***************************************************************************)
(* The node's event loop between headers and the canonical chain: header    *)
(* inventories and announcements enter the DAG, the DAG selects a target,   *)
(* the target becomes an exact-object plan or waits for a snapshot, a       *)
(* finished plan is applied by a task of its own, and a heartbeat brings    *)
(* the DAG in line with the chain.  The chain also moves by local blocks.   *)
(* The fetching of objects is SuffixSync; here a plan is fresh, has         *)
(* verified objects, or is complete.                                        *)
(***************************************************************************)
EXTENDS HeaderDag, SequencesExt

CONSTANTS
    MaxIncrementalAdvance,  \* MAX_INCREMENTAL_FINALITY_ADVANCE
    BoundaryInterval,       \* SNAPSHOT_BOUNDARY_INTERVAL
    ServingDepth,           \* RETAINED_BLOCK_SERVING_DEPTH
    MaxEvents               \* bound on network events

VARIABLES
    faulted,    \* header_dag_faulted
    synced,     \* header_dag_canonical_tip
    tip, fin,   \* the canonical chain
    plan,       \* active_suffix_sync
    apply,      \* exact_suffix_apply_inflight and the task's result
    snap,       \* the snapshot plan
    hint,       \* snapshot_rebase_hint
    tail,       \* post_snapshot_tail
    live,       \* manifest_peers
    rejected,   \* rejected_suffix_object_peers
    job,        \* a header inventory between reading the chain and its use
    events      \* network events so far

chain == <<tip, fin>>
data == <<plan, apply, snap, hint, tail>>
peers == <<live, rejected>>
vars == <<dag, faulted, synced, chain, data, peers, job, events>>

NoPlan == [base |-> Genesis, old |-> Genesis, target |-> Genesis, st |-> "none"]
NoSnap == [st |-> "none", boundary |-> Genesis, base |-> Genesis, rebase |-> {},
           anchor |-> {}, allow |-> FALSE]
NoTail == [boundary |-> {}, target |-> {}]
NoJob == [from |-> {}, to |-> Genesis, anchor |-> Genesis, old |-> Genesis,
          offer |-> {}, blocked |-> FALSE]

Idle == job = NoJob
NetworkEvent == Idle /\ events < MaxEvents /\ events' = events + 1

MoveTip(b) == tip' = b /\ fin' = FinalizedForTip(fin, b)

------------------------------------------------------------------------------
(* Reconciling the DAG with the chain *)

InsertNext(r, b) ==
    IF r.ok /\ Accepts(r.dag, b) THEN [ok |-> TRUE, dag |-> Insert(r.dag, b)]
    ELSE [r EXCEPT !.ok = FALSE]

\* The headers after a up to b are inserted in order, until one is refused.
Record(d, a, b) ==
    FoldLeft(InsertNext, [ok |-> TRUE, dag |-> d],
             [i \in 1 .. Height[b] - Height[a] |-> Ancestor[b][Height[a] + i]])

\* canonical_header_dag: the non-final window of the durable chain.
Rebuilt(t, f) == Record(NewDag(f), f, t)

\* Variant: nothing is pruned when finality advances.
ReconciledUnpruned(d, t, f) == Record(d, Ancestor[t][Height[d.fin]], t)

Reconciled(d, t, f) ==
    IF ~OnChain(d.fin, f) /\ Height[f] <= Height[d.fin] THEN [ok |-> FALSE, dag |-> d]
    ELSE IF Height[f] - Height[d.fin] > MaxIncrementalAdvance
         THEN IF Rebuilt(t, f).ok THEN Rebuilt(t, f) ELSE [ok |-> FALSE, dag |-> d]
    ELSE LET r == Record(d, Ancestor[t][Height[d.fin]], t)
         IN  IF r.ok /\ CanAdvance(r.dag, f)
             THEN [r EXCEPT !.dag = AdvanceFinalized(r.dag, f)]
             ELSE [r EXCEPT !.ok = FALSE]

------------------------------------------------------------------------------
(* Plans *)

Planned == plan.st # "none"
Applying == apply.st # "none"
SnapshotActive == snap.st # "none"
Staged == snap.st \in {"staged", "verified"}

\* Variant: the retired plan's base survives.
RetiredPartly == {[snap EXCEPT !.st = "none"]}

\* retire_snapshot_plan: a worker of the plan may still have to return.
Retired == {NoSnap, [NoSnap EXCEPT !.st = "draining"]}

\* A candidate may lose its last provider, or its use.
DropCandidate(s) == IF s.st = "candidate" THEN {s, NoSnap} ELSE {s}

\* Variant: the target is not compared with the selected tip.
ReadyAnyTarget(p, d, f) == ~Applying /\ ~f /\ p.st = "complete"

Ready(p, d, f) == ~Applying /\ ~f /\ p.st = "complete" /\ IsAncestor(d, p.target, d.best)

\* try_start_exact_suffix_apply on plan p.
StartOrKeep(p, d, f) ==
    IF Ready(p, d, f) THEN plan' = NoPlan /\ apply' = [p EXCEPT !.st = "running"]
    ELSE plan' = p /\ UNCHANGED apply

Offer(base, old, target) == [base |-> base, old |-> old, target |-> target, st |-> "fresh"]

SamePlan(p, q) == [p EXCEPT !.st = "fresh"] = [q EXCEPT !.st = "fresh"]

ContainsPoint(p, b) == b \in {p.base} \cup Path(p.base, p.target)

\* Variant: any new target replaces the active plan.
AdmitLatest(p, q) == IF p.st # "none" /\ SamePlan(p, q) THEN p ELSE q

\* admit_exact_suffix_offer: the plan kept when q is offered to active plan p.
Admit(p, q) ==
    IF p.st = "none" THEN q
    ELSE IF SamePlan(p, q) THEN p
    ELSE IF q.target # p.target /\ ContainsPoint(q, p.target)
         THEN IF p.st = "fresh" THEN q ELSE p
    ELSE IF ChooseByWork(q.target, p.target) THEN q ELSE p

\* terminal_provider and every_body_has_a_source.
HasTerminal(d, b) == Offers(d, b, "terminal") # {}
HasBodies(d, a, b) == \A x \in Path(a, b) : Offers(d, x, "body") # {}

------------------------------------------------------------------------------
(* Snapshot or suffix *)

SnapshotBoundaryBelow(h) ==
    LET f == IF h > FinalityDepth THEN h - FinalityDepth ELSE 0 IN f - (f % BoundaryInterval)

TailAllows(t, h, k) ==
    /\ t.boundary # {}
    /\ \A b \in t.boundary : /\ h >= Height[b] /\ k <= Height[b] + ServingDepth
                             /\ \A x \in t.target : Height[x] <= Height[b] + ServingDepth
    /\ k > h
    /\ \A x \in t.target : h < Height[x]

PinTail(t, old, b) ==
    IF t.target = {} /\ \E x \in t.boundary : /\ Height[old] >= Height[x]
                                              /\ Height[b] > Height[old]
                                              /\ Height[b] <= Height[x] + ServingDepth
    THEN [t EXCEPT !.target = {b}] ELSE t

RetireTail(t, h) ==
    IF (\E x \in t.boundary : h < Height[x]) \/ (\E x \in t.target : h >= Height[x])
    THEN NoTail ELSE t

NeedsSnapshot(base, old, b, t) ==
    IF base = old
    THEN /\ SnapshotBoundaryBelow(Height[b]) > Height[old]
         /\ ~TailAllows(t, Height[old], Height[b])
    ELSE \/ Height[old] - Height[base] > FinalityDepth
         \/ Height[b] - Height[base] > 2 * FinalityDepth

------------------------------------------------------------------------------
(* Header inventories *)

\* Variant: a response is taken from any peer.
TrustedAny == Peer

\* Peers whose object inventory is taken.
Trusted == live \ rejected

\* Variant: any recorded target is planned.
SelectedKnown(d, b) == b \in d.nodes

Selected(d, b) == d.best = b


\* The headers of a batch S that its validation may start from.
Anchors(S) ==
    LET canonical == {x \in S : OnChain(x, tip) /\ Height[x] >= Height[dag.fin]}
    IN  IF canonical # {} THEN canonical ELSE S \cap Known(dag)

\* The headers from height lo to b arrive with objects o from peer p.  Known
\* headers take the offer, a complete plan may start, the anchor is chosen
\* against the chain as it is now, and validation leaves the event loop; a
\* batch that only confirms the tip ends here, and a manifest round with it.
InventoryArrives(p, b, lo, o) ==
    LET S == {Ancestor[b][h] : h \in lo .. Height[b]}
        r == [x \in S \cap dag.nodes |-> o]
        highest == {a \in Anchors(S) : \A x \in Anchors(S) : Height[x] <= Height[a]}
        candidate == {a \in highest : a # b /\ a \in Known(dag)}
    IN  /\ NetworkEvent
        /\ IF p \in rejected THEN UNCHANGED <<plan, apply>> ELSE StartOrKeep(plan, dag, faulted)
        /\ dag' = IF p \in Trusted /\ o # {} /\ MayAdvertise(dag, p, r)
                  THEN Advertise(dag, p, r) ELSE dag
        /\ job' = IF candidate = {} THEN NoJob
                  ELSE [from |-> {p}, to |-> b, anchor |-> CHOOSE a \in candidate : TRUE,
                        old |-> tip, offer |-> o,
                        blocked |-> apply'.st # "none" \/ SnapshotActive]
        /\ snap' \in IF b = tip /\ b \in highest /\ plan'.st = "none" THEN DropCandidate(snap)
                     ELSE {snap}
        /\ UNCHANGED <<faulted, synced, chain, hint, tail, peers>>

\* The DAG selected job.to with common ancestor base: a plan is offered unless
\* the data plane is busy, a snapshot is needed, or an object has no source.
\* A snapshot staged on another base is given up.
Select(d, base) ==
    LET b == job.to
        rebase == IF base = job.old THEN {} ELSE {base}
        t == IF base = job.old THEN PinTail(tail, job.old, b) ELSE tail
        needs == NeedsSnapshot(base, job.old, b, t)
        stale == job.blocked /\ Staged /\ snap.rebase # rebase
        q == Offer(base, job.old, b)
    IN  \E s \in (IF stale THEN Retired ELSE {snap}) :
            LET blocked == IF stale THEN s # NoSnap \/ Applying ELSE job.blocked
            IN  /\ tail' = t /\ snap' = s
                /\ hint' = IF needs /\ ~blocked THEN {[base |-> x, target |-> b] : x \in rebase}
                           ELSE IF needs /\ stale THEN {[base |-> base, target |-> b]}
                           ELSE IF stale THEN {} ELSE hint
                /\ IF blocked \/ needs THEN UNCHANGED <<plan, apply>>
                   ELSE IF HasTerminal(d, b) /\ HasBodies(d, base, b)
                        THEN StartOrKeep(Admit(plan, q), d, faulted)
                   ELSE IF ~HasTerminal(d, b) /\ plan.base = base /\ plan.target = b
                        THEN StartOrKeep(plan, d, faulted)
                   ELSE UNCHANGED <<plan, apply>>

\* Validation returned: the headers enter the DAG, then the object inventory of
\* a peer that is still connected.
InventoryValidated ==
    LET r == Record(dag, job.anchor, job.to)
        offer == [x \in Path(job.anchor, job.to) |-> job.offer]
        sources == {p \in job.from \cap Trusted : MayAdvertise(r.dag, p, offer)}
        d == IF sources = {} THEN r.dag
             ELSE Advertise(r.dag, CHOOSE p \in sources : TRUE, offer)
        bases == CommonAncestors(d, job.old, job.to)
    IN  /\ ~Idle
        /\ job' = NoJob
        /\ IF ~r.ok THEN dag' = r.dag /\ faulted' = TRUE /\ UNCHANGED data
           ELSE /\ dag' = d
                /\ IF ~Selected(d, job.to) THEN UNCHANGED <<faulted, data>>
                   ELSE IF bases = {} THEN faulted' = TRUE /\ UNCHANGED data
                   ELSE \E base \in bases : Select(d, base) /\ UNCHANGED faulted
        /\ UNCHANGED <<synced, chain, peers, events>>

\* A child of the tip is announced, with its objects or by a mere forwarder.
Announced(p, b, o) ==
    LET r == Record(dag, tip, b)
    IN  /\ NetworkEvent
        /\ Height[b] = Height[tip] + 1 /\ Parent(b) = tip
        /\ dag' = r.dag
        /\ faulted' = (faulted \/ ~r.ok)
        /\ IF /\ r.ok /\ Selected(r.dag, b) /\ ~SnapshotActive /\ ~Applying
              /\ p \in Trusted /\ {"body", "terminal"} \subseteq o
           THEN StartOrKeep(Admit(plan, Offer(tip, tip, b)), r.dag, faulted)
           ELSE UNCHANGED <<plan, apply>>
        /\ UNCHANGED <<synced, chain, snap, hint, tail, peers, job>>

------------------------------------------------------------------------------
(* Objects and their application *)

ObjectVerified ==
    /\ Idle /\ plan.st = "fresh"
    /\ plan' = [plan EXCEPT !.st = "verified"]
    /\ UNCHANGED <<dag, faulted, synced, chain, apply, snap, hint, tail, peers, job, events>>

LastObjectVerified ==
    /\ Idle /\ plan.st \in {"fresh", "verified"}
    /\ StartOrKeep([plan EXCEPT !.st = "complete"], dag, faulted)
    /\ UNCHANGED <<dag, faulted, synced, chain, snap, hint, tail, peers, job, events>>

\* An invalid object: its source is never used again.
Quarantine(p) ==
    /\ NetworkEvent
    /\ Planned \/ SnapshotActive
    /\ dag' = RemoveProvider(dag, p)
    /\ rejected' = rejected \cup {p}
    /\ UNCHANGED <<faulted, synced, chain, data, live, job>>

\* No source is left for the unfinished objects, in spite of fresh probes.
RetirePlan ==
    /\ Idle /\ plan.st \in {"fresh", "verified"}
    /\ plan' = NoPlan
    /\ UNCHANGED <<dag, faulted, synced, chain, apply, snap, hint, tail, peers, job, events>>

\* The task holds the writer: a live suffix needs its base to be the tip still
\* and commits block by block, a reorganization is all or nothing.
ApplyLive ==
    /\ apply.st = "running" /\ apply.base = apply.old
    /\ IF tip # apply.base THEN apply' = [apply EXCEPT !.st = "failed"] /\ UNCHANGED chain
       ELSE \E h \in Height[apply.base] .. Height[apply.target] :
               /\ IF h = Height[tip] THEN UNCHANGED chain ELSE MoveTip(Ancestor[apply.target][h])
               /\ apply' = [apply EXCEPT !.st =
                               IF h = Height[apply.target] THEN "done" ELSE "failed"]
    /\ UNCHANGED <<dag, faulted, synced, plan, snap, hint, tail, peers, job, events>>

ReorgAllowed(a, b) ==
    /\ ForkPoint(a, tip, b) /\ OnChain(fin, a)
    /\ Height[tip] - Height[a] <= FinalityDepth
    /\ Height[b] - Height[a] <= 2 * FinalityDepth
    /\ ChooseByWork(b, tip)

ApplyReorg ==
    /\ apply.st = "running" /\ apply.base # apply.old
    /\ \/ /\ ReorgAllowed(apply.base, apply.target)
          /\ MoveTip(apply.target)
          /\ apply' = [apply EXCEPT !.st = "done"]
       \/ apply' = [apply EXCEPT !.st = "failed"] /\ UNCHANGED chain
    /\ UNCHANGED <<dag, faulted, synced, plan, snap, hint, tail, peers, job, events>>

\* The completion reaches the event loop; a failure may name its sources.
ApplyCompleted ==
    /\ Idle /\ apply.st \in {"done", "failed"}
    /\ apply' = NoPlan
    /\ \/ UNCHANGED <<dag, rejected>>
       \/ \E p \in Peer : /\ apply.st = "failed"
                          /\ dag' = RemoveProvider(dag, p) /\ rejected' = rejected \cup {p}
    /\ snap' \in IF apply.st = "done" /\ Staged /\ OnChain(snap.boundary, tip) THEN Retired
                 ELSE {snap}
    /\ tail' = RetireTail(tail, Height[tip])
    /\ UNCHANGED <<faulted, synced, chain, plan, hint, live, job, events>>

------------------------------------------------------------------------------
(* Snapshots *)

\* The boundary must be on the selected chain, or beat its tip.
BoundarySelected(b) ==
    IF Height[b] > Height[dag.best] THEN ChooseByWork(b, dag.best)
    ELSE IsAncestor(dag, b, dag.best)

\* A boundary for a replacement must also serve the branch that was selected.
Replaces(b) ==
    \A h \in hint : /\ IsAncestor(dag, h.target, dag.best)
                    /\ Height[b] > Height[h.base]
                    /\ BoundarySelected(b)

\* A manifest ahead of the tip becomes the candidate, or replaces it.  Peers
\* publish generations at boundary heights only.
ManifestArrives(b) ==
    /\ NetworkEvent /\ snap.st \in {"none", "candidate"}
    /\ Height[b] > Height[tip] /\ Height[b] % BoundaryInterval = 0
    /\ Replaces(b)
    /\ snap' = [NoSnap EXCEPT !.st = "candidate", !.boundary = b,
                              !.anchor = IF hint # {} /\ Height[b] > Height[dag.best]
                                         THEN {dag.best} ELSE {}]
    /\ tail' = RetireTail(tail, Height[tip])
    /\ UNCHANGED <<dag, faulted, synced, chain, plan, apply, hint, peers, job>>

\* The settled candidate is staged from the hinted base or the canonical tip.
Settled ==
    LET rebase == {h.base : h \in {k \in hint : Height[k.base] < Height[snap.boundary]}}
    IN  IF Height[snap.boundary] <= Height[tip] THEN NoSnap
        ELSE [snap EXCEPT !.st = "staged", !.rebase = rebase,
                          !.base = IF rebase = {} THEN tip ELSE CHOOSE x \in rebase : TRUE]

BaseCanonical == OnChain(snap.base, tip)

\* The staged headers are complete and checked: the base must be canonical still.
HeadersVerified ==
    /\ Idle /\ snap.st = "staged"
    /\ IF ~BaseCanonical THEN snap' \in Retired /\ hint' = {}
       ELSE /\ OnChain(snap.base, snap.boundary)
            /\ \A x \in snap.anchor : OnChain(x, snap.boundary)
            /\ snap' = [snap EXCEPT !.st = "verified",
                                    !.allow = \E h \in hint : h.base = snap.base]
            /\ UNCHANGED hint
    /\ UNCHANGED <<dag, faulted, synced, chain, plan, apply, tail, peers, job, events>>

\* The State segments are complete.
InstallStarts ==
    /\ Idle /\ snap.st = "verified"
    /\ IF Replaces(snap.boundary) /\ (hint = {} => BoundarySelected(snap.boundary))
       THEN snap' = [snap EXCEPT !.st = "installing"]
       ELSE snap' \in Retired
    /\ UNCHANGED <<dag, faulted, synced, chain, plan, apply, hint, tail, peers, job, events>>

\* Variant: a replacement needs no authority.
InstallAcceptsFork(s) ==
    /\ OnChain(s.base, tip)
    /\ \E a \in Block : ForkPoint(a, tip, s.boundary)

InstallAccepts(s) ==
    /\ OnChain(s.base, tip)
    /\ \/ OnChain(tip, s.boundary)
       \/ /\ s.allow
          /\ \E a \in Block : /\ ForkPoint(a, tip, s.boundary) /\ OnChain(fin, a)
                              /\ Height[tip] - Height[a] <= FinalityDepth
                              /\ ChooseByWork(s.boundary, tip)

\* The install holds the writer.
Install ==
    /\ snap.st = "installing"
    /\ \/ /\ Height[snap.boundary] <= Height[tip]
          /\ snap' = [snap EXCEPT !.st = "superseded"] /\ UNCHANGED chain
       \/ /\ Height[snap.boundary] > Height[tip] /\ InstallAccepts(snap)
          /\ snap' = [snap EXCEPT !.st = "installed"]
          /\ tip' = snap.boundary /\ fin' = snap.boundary
       \/ /\ Height[snap.boundary] > Height[tip] /\ ~InstallAccepts(snap)
          /\ snap' = [snap EXCEPT !.st = "refused"] /\ UNCHANGED chain
    /\ UNCHANGED <<dag, faulted, synced, plan, apply, hint, tail, peers, job, events>>

InstallCompleted ==
    /\ Idle /\ snap.st \in {"installed", "superseded"}
    /\ snap' = NoSnap /\ hint' = {}
    /\ tail' = IF snap.st = "installed" THEN [boundary |-> {snap.boundary}, target |-> {}] ELSE tail
    /\ UNCHANGED <<dag, faulted, synced, chain, plan, apply, peers, job, events>>

\* The boundary is rejected or has lost its sources, or a retired plan's last
\* worker returns, or a hint without a plan expires.
RetireSnapshot ==
    /\ Idle
    /\ \/ Staged /\ snap' \in Retired /\ UNCHANGED hint
       \/ snap.st = "draining" /\ snap' = NoSnap /\ UNCHANGED hint
       \/ snap = NoSnap /\ hint # {} /\ hint' = {} /\ UNCHANGED snap
    /\ UNCHANGED <<dag, faulted, synced, chain, plan, apply, tail, peers, job, events>>

------------------------------------------------------------------------------
(* Heartbeat, local blocks, connections *)

\* HeaderDAG knows a better tip, nothing works towards it, and the walk to the
\* common ancestor fails.
Lost(d, s) ==
    /\ ~Planned /\ ~Applying /\ s.st = "none" /\ ChooseByWork(d.best, tip)
    /\ CommonAncestors(d, tip, d.best) = {}

\* A faulted DAG is reconciled again, but not at every heartbeat; nor is every
\* one a search for object providers.
Heartbeat ==
    /\ Idle
    /\ \/ UNCHANGED snap
       \/ snap.st = "candidate" /\ snap' \in {Settled, NoSnap}
    /\ \E due \in {tip # synced, tip # synced \/ faulted}, probe \in BOOLEAN :
          LET r == IF due THEN Reconciled(dag, tip, fin) ELSE [ok |-> ~faulted, dag |-> dag]
          IN  /\ dag' = r.dag
              /\ synced' = IF r.ok THEN tip ELSE synced
              /\ faulted' = (~r.ok \/ (probe /\ Lost(r.dag, snap')))
    /\ tail' = RetireTail(tail, Height[tip])
    /\ UNCHANGED <<chain, plan, apply, hint, peers, job, events>>

\* A block mined here or submitted over RPC.
LocalBlock(b) ==
    /\ Height[b] = Height[tip] + 1 /\ Parent(b) = tip
    /\ MoveTip(b)
    /\ UNCHANGED <<dag, faulted, synced, data, peers, job, events>>

Connected(p) ==
    /\ Idle /\ p \notin live
    /\ live' = live \cup {p}
    /\ UNCHANGED <<dag, faulted, synced, chain, data, rejected, job, events>>

Disconnected(p) ==
    /\ NetworkEvent /\ p \in live
    /\ dag' = RemoveProvider(dag, p)
    /\ live' = live \ {p}
    /\ snap' \in DropCandidate(snap)
    /\ UNCHANGED <<faulted, synced, chain, plan, apply, hint, tail, rejected, job>>

\* The process ends, because an install was refused or for another reason, and
\* starts again from the durable chain.
Restart ==
    /\ events < MaxEvents /\ events' = events + 1
    /\ dag' = Rebuilt(tip, fin).dag /\ faulted' = FALSE /\ synced' = tip
    /\ plan' = NoPlan /\ apply' = NoPlan /\ snap' = NoSnap /\ hint' = {} /\ tail' = NoTail
    /\ live' = {} /\ rejected' = {}
    /\ job' = NoJob
    /\ UNCHANGED chain

------------------------------------------------------------------------------

Init ==
    /\ dag = NewDag(Genesis) /\ faulted = FALSE /\ synced = Genesis
    /\ tip = Genesis /\ fin = Genesis
    /\ plan = NoPlan /\ apply = NoPlan /\ snap = NoSnap /\ hint = {} /\ tail = NoTail
    /\ live = Peer /\ rejected = {}
    /\ job = NoJob /\ events = 0

\* Start heights the node asks for: the search floor, the tip, the plan's base.
StartHeights ==
    {IF Height[tip] > FinalityDepth THEN Height[tip] - FinalityDepth ELSE 0, Height[tip]}
    \cup (IF Planned THEN {Height[plan.base]} ELSE {})

FromNetwork ==
    \/ \E p \in Peer, b \in Block, o \in {{}, {"body", "terminal"}} :
          \/ \E lo \in StartHeights : lo <= Height[b] /\ InventoryArrives(p, b, lo, o)
          \/ Announced(p, b, o)
    \/ \E p \in Peer : Quarantine(p) \/ Connected(p) \/ Disconnected(p)
    \/ \E b \in Block : ManifestArrives(b)

Next ==
    \/ FromNetwork
    \/ InventoryValidated
    \/ ObjectVerified \/ LastObjectVerified \/ RetirePlan
    \/ ApplyLive \/ ApplyReorg \/ ApplyCompleted
    \/ HeadersVerified \/ InstallStarts \/ Install \/ InstallCompleted \/ RetireSnapshot
    \/ Heartbeat \/ (\E b \in Block : LocalBlock(b)) \/ Restart

Spec == Init /\ [][Next]_vars

------------------------------------------------------------------------------
(* Properties *)

PlanType(p, S) == p \in [base : Block, old : Block, target : Block, st : S]

SyncTypeOK ==
    /\ DagTypeOK
    /\ faulted \in BOOLEAN /\ synced \in Block /\ tip \in Block /\ fin \in Block
    /\ PlanType(plan, {"none", "fresh", "verified", "complete"})
    /\ PlanType(apply, {"none", "running", "done", "failed"})
    /\ snap \in [st : {"none", "candidate", "staged", "verified", "installing", "installed",
                       "superseded", "refused", "draining"},
                 boundary : Block, base : Block, rebase : SUBSET Block, anchor : SUBSET Block,
                 allow : BOOLEAN]
    /\ snap.st = "none" => snap = NoSnap
    /\ hint \subseteq [base : Block, target : Block]
    /\ live \subseteq Peer /\ rejected \subseteq Peer

\* Objects are only ever planned from peers that are connected and were never
\* caught with an invalid object: a late response or a disconnect that overtakes
\* it leaves no availability behind.
InventoryFromLivePeers ==
    \A b \in DOMAIN dag.inv : DOMAIN dag.inv[b] \subseteq live \ rejected

\* Graph and inventories stay sound through insertions at capacity, pruning,
\* rebuilds and disconnects.
DagSound == SyncTypeOK /\ DagConnected /\ DagBounded /\ InventoryFromLivePeers


\* The active plan is only given up for a target that fork choice prefers, and
\* verified objects are never thrown away for a mere extension of their target,
\* unless the target is on the chain already.
PlanKept ==
    [][plan.st # "none" /\ plan'.st # "none" /\ plan'.target # plan.target =>
          /\ ChooseByWork(plan'.target, plan.target)
          /\ \/ plan.st = "fresh" \/ OnChain(plan.target, tip)
             \/ ~OnChain(plan.target, plan'.target)]_vars

\* A suffix is only handed to the chain writer while it is on the best chain the
\* node knows.
StartsSelected ==
    [][apply.st = "none" /\ apply'.st = "running" =>
          OnChain(apply'.target, dag'.best) /\ ~faulted]_vars

\* Until the chain moves again, a heartbeat leaves a DAG that knows the whole
\* non-final chain, has its finalized point, and whose best tip is no worse.
HeartbeatAligns ==
    [][synced' = tip' /\ synced' # synced =>
          /\ dag'.fin = fin'
          /\ \A h \in Height[fin'] .. Height[tip'] : Ancestor[tip'][h] \in Known(dag')
          /\ ~ChooseByWork(tip', dag'.best)]_vars

\* Headers, plans, tasks and snapshots move the chain only as the abstract chain
\* allows: to a preferred tip that keeps the finalized block.
Abstract == INSTANCE FinalChain WITH tip <- tip, fin <- fin
KeepsFinalChain == Abstract!Spec

\* A commit that moves finality by no more than the incremental bound is taken
\* into the DAG in place.
ReconcileSucceeds ==
    tip # synced => Reconciled(dag, tip, fin).ok

\* A canonical tip that moves while a snapshot is staged never makes the install
\* fail: the plan is retired or superseded.
BaseMoveSurvived == snap.st # "refused"

==============================================================================
