----------------------------- MODULE SuffixSync -----------------------------
(***************************************************************************)
(* The exact-object runtime of one immutable suffix plan: SuffixSync of    *)
(* noid_node/src/networking/suffix_sync.rs, driven by the event handlers   *)
(* of noid_node/src/main.rs.  A plan names its claims once: the bodies     *)
(* 1..Bodies in block order and the tip's terminal, the last claim.        *)
(*                                                                         *)
(* A request is known by its token.  The network task answers each token   *)
(* exactly once (a response, a failure, Busy), and its events travel on    *)
(* several lanes (noid_p2p/src/event_dispatch.rs): a disconnect overtakes  *)
(* the answers still queued behind it.  So an answer is delivered here at  *)
(* any time while the token is pending, before or after the disconnect of  *)
(* its peer; an answer to a token already consumed changes nothing.        *)
(*                                                                         *)
(* pending is a bag of tokens: what tells two apart is the peer, the       *)
(* objects asked for, and whether the peer has disconnected since.  Clocks *)
(* are left out: whether a backoff, the hedge delay, the rotation delay or *)
(* the grace of a disconnected request has passed is a choice.             *)
(***************************************************************************)
EXTENDS ObjectFetcher, FiniteSetsExt, Bags

CONSTANTS
  Bodies,      \* bodies of the plan
  Inventories, \* Inventories[p]: what p may advertise, claim |-> encoding
  Connected,   \* peers that stay connected
  Reliable,    \* those of them that answer every request in full
  MaxFaults    \* bound: disconnects, unhelpful answers and refused requests

VARIABLES
  jobs,        \* the fetcher's job of every claim
  pending,     \* the tokens awaiting an answer
  received,    \* claim |-> the object and the peer it came from
  rotated,     \* terminal_hedge_rotation_used
  selected,    \* the target is on the best header chain, the DAG not faulted
  status,      \* active, applying (handed to the committer) or retired
  faults

vars == <<jobs, pending, received, rotated, selected, status, faults>>

Terminal == Bodies + 1
Claim == 1..Terminal
Object == UNION {Range(inv) : inv \in UNION Range(Inventories)}
Tokens == BagToSet(pending)
Verified(J, c) == J[c].st = "verified"

(* is_complete: every claim is verified and its bytes are owned.           *)
Complete(J, R) == \A c \in Claim : Verified(J, c) /\ c \in DOMAIN R

(* unfinished_transport_is_extinct *)
PlanExtinct ==
  /\ \E c \in Claim : ~Verified(jobs, c)
  /\ \A c \in Claim : ~Verified(jobs, c) => Extinct(jobs[c])

-----------------------------------------------------------------------------
(* add_offer and add_inventory *)
Merge(J, p, inv) ==
  [c \in Claim |-> IF c \in DOMAIN inv THEN Advertise(J[c], p, inv[c]) ELSE J[c]]

(* from_offer: the offer of a plan names the terminal.                     *)
Init ==
  /\ \E p \in Peer : \E inv \in Inventories[p] :
       Terminal \in DOMAIN inv /\ jobs = Merge([c \in Claim |-> NewJob], p, inv)
  /\ pending = EmptyBag
  /\ received = <<>>
  /\ rotated = FALSE
  /\ selected = TRUE
  /\ status = "active"
  /\ faults = 0

-----------------------------------------------------------------------------
(* expire_disconnected_requests, for the tokens X whose grace is over      *)
Expired(J, X) ==
  [c \in Claim |->
     FoldSet(LAMBDA r, j : ForgetLate(j, r.peer, r.objs[c]), J[c],
             {r \in X : c \in DOMAIN r.objs})]

Started(J) == [c \in Claim |-> IF CanStart(J[c]) THEN StartPrimary(J[c]) ELSE J[c]]

Hedged(J, H) == [c \in Claim |-> IF c \in H THEN StartHedge(J[c]) ELSE J[c]]

(* The terminal's hedge may be rotated once per plan, and only when it was *)
(* asked for by a request of its own.                                      *)
MayRotate(J, P) ==
  /\ ~rotated
  /\ CanRotate(J[Terminal])
  /\ \E r \in BagToSet(P) :
       r.peer = J[Terminal].legs[2] /\ DOMAIN r.objs = {Terminal}

NewLegs(old, new) == Range(new.legs) \ Range(old.legs)

(* allocate_request *)
Ask(J, p, C) == [peer |-> p, objs |-> [c \in C |-> J[c].sel], gone |-> FALSE]

(* A terminal is requested alone, the bodies asked of one peer together.   *)
Requests(J, N) ==
  {Ask(J, p, {Terminal}) : p \in N[Terminal]} \cup
  {Ask(J, p, {c \in 1..Bodies : p \in N[c]}) : p \in UNION {N[c] : c \in 1..Bodies}}

(* A request the full command lane refused is undone without a penalty.    *)
Deferred(J, D) ==
  [c \in Claim |->
     FoldSet(LAMBDA r, j : ForgetLate(DeferSource(j, r.peer), r.peer, r.objs[c]), J[c],
             {r \in D : c \in DOMAIN r.objs})]

(* dispatch_exact_suffix_requests: schedule, then send.  X are the expired *)
(* tokens, H the claims whose primary made no progress for long enough, D  *)
(* the requests that found the command lane full.                          *)
Dispatch(J, P, f) ==
  /\ f <= MaxFaults
  /\ \E X \in SUBSET {r \in BagToSet(P) : r.gone} :
       LET Q == P (-) SetToBag(X)
           J0 == Expired(J, X)
           J1 == Started(J0)
       IN \E H \in SUBSET {c \in Claim : J0[c].st = "inflight" /\ CanHedge(J1[c])} :
            LET J2 == Hedged(J1, H)
            IN \E rotate \in {b \in BOOLEAN : b => MayRotate(J2, Q)} :
                 LET J3 == IF rotate THEN [J2 EXCEPT ![Terminal] = RotateHedge(@)] ELSE J2
                     N == [c \in Claim |-> NewLegs(J0[c], J2[c]) \cup NewLegs(J2[c], J3[c])]
                     R == Requests(J3, N)
                 IN \E D \in {S \in SUBSET R : f + Cardinality(S) <= MaxFaults} :
                      /\ faults' = f + Cardinality(D)
                      /\ jobs' = Deferred(J3, D)
                      /\ pending' = Q (+) SetToBag(R \ D)
                      /\ rotated' = (rotated \/ rotate)

(* Completeness is read before the response is applied.                    *)
TryStartApplyStale(J, R) ==
  status' = IF selected /\ Complete(jobs, received) THEN "applying" ELSE "active"

(* try_start_exact_suffix_apply: no other apply is in flight, because no   *)
(* plan is admitted while one is.                                          *)
TryStartApply(J, R) ==
  status' = IF selected /\ Complete(J, R) THEN "applying" ELSE "active"

-----------------------------------------------------------------------------
(* The heartbeat drives the retry and hedge timers.                        *)
Tick ==
  /\ status = "active"
  /\ Dispatch(jobs, pending, faults)
  /\ UNCHANGED <<received, selected, status>>

(* A backoff of one peer for one claim ends.                               *)
Elapse(c, p) ==
  /\ status = "active"
  /\ p \in jobs[c].parked
  /\ jobs' = [jobs EXCEPT ![c].parked = @ \ {p}]
  /\ UNCHANGED <<pending, received, rotated, selected, status, faults>>

(* An inventory or an offer for the pinned plan.                           *)
Advertises(p, inv) ==
  /\ status = "active"
  /\ Dispatch(Merge(jobs, p, inv), pending, faults)
  /\ TryStartApply(jobs, received)
  /\ UNCHANGED <<received, selected>>

(* PeerDisconnected *)
Disconnect(p) ==
  /\ status = "active" /\ p \notin Connected
  /\ Dispatch([c \in Claim |-> DisconnectSource(jobs[c], p)],
              BagOfAll(LAMBDA r : [r EXCEPT !.gone = @ \/ r.peer = p], pending),
              faults + 1)
  /\ UNCHANGED <<received, selected, status>>

(* The claims a handler reaches: it stops at the first one in Bad.         *)
Reached(r, Bad) == {c \in DOMAIN r.objs : \A b \in Bad : c < b}

(* accept_response of authentic payloads.  The claims in Has come with     *)
(* their bytes.  A claim already verified from these bytes is skipped, one *)
(* without bytes loses the source, and the first one whose bytes nobody    *)
(* asked for ends the handler with an error.                               *)
Duplicate(r, c) == Verified(jobs, c) /\ jobs[c].sel = r.objs[c]

Respond(r, Has) ==
  LET bad == {c \in Has : ~Duplicate(r, c) /\ ~CanReceive(jobs[c], r.peer, r.objs[c])}
      done == {c \in Reached(r, bad) : ~Duplicate(r, c)}
      J == [c \in Claim |->
              IF c \notin done THEN jobs[c]
              ELSE IF c \in Has THEN MarkVerified(Receive(jobs[c], r.peer))
              ELSE MarkUnavailable(jobs[c], r.peer)]
      R == [c \in done \cap Has |-> [object |-> r.objs[c], from |-> r.peer]] @@ received
  IN /\ Dispatch(J, pending (-) SetToBag({r}), IF Has = DOMAIN r.objs THEN faults ELSE faults + 1)
     /\ received' = R
     /\ IF bad = {} THEN TryStartApply(J, R) ELSE UNCHANGED status
     /\ UNCHANGED selected

(* Bytes that fail their content identity, or a malformed response, cost   *)
(* the peer every claim of the plan.                                       *)
Mismatch(r) ==
  /\ Dispatch([c \in Claim |-> Quarantine(jobs[c], r.peer)], pending (-) SetToBag({r}), faults + 1)
  /\ UNCHANGED <<received, selected, status>>

(* request_unavailable *)
Unavailable(r) ==
  /\ Dispatch([c \in Claim |-> IF c \in DOMAIN r.objs THEN MarkUnavailable(jobs[c], r.peer)
                               ELSE jobs[c]],
              pending (-) SetToBag({r}), faults + 1)
  /\ UNCHANGED <<received, selected, status>>

(* request_failed *)
Fail(r) ==
  /\ Dispatch([c \in Claim |->
                 IF c \in DOMAIN r.objs
                 THEN ForgetLate(FailSource(jobs[c], r.peer), r.peer, r.objs[c]) ELSE jobs[c]],
              pending (-) SetToBag({r}), faults + 1)
  /\ UNCHANGED <<received, selected, status>>

(* request_busy: the first claim the peer no longer advertises ends the    *)
(* handler with an error.                                                  *)
Busy(r) ==
  LET done == Reached(r, {c \in DOMAIN r.objs : r.peer \notin DOMAIN jobs[c].src})
  IN /\ Dispatch([c \in Claim |->
                    IF c \in done
                    THEN ForgetLate(BusySource(jobs[c], r.peer), r.peer, r.objs[c])
                    ELSE jobs[c]],
                 pending (-) SetToBag({r}), faults + 1)
     /\ UNCHANGED <<received, selected, status>>

(* defer_request: the network task had no room for the request.            *)
LocalCapacity(r) ==
  /\ Dispatch(Deferred(jobs, {r}), pending (-) SetToBag({r}), faults + 1)
  /\ UNCHANGED <<received, selected, status>>

(* Validated headers move the best tip to a branch without the target, or  *)
(* back; the DAG faults, or is reconciled with the canonical chain.  No    *)
(* handler that does so looks at the active plan.                          *)
HeadersMove ==
  /\ status = "active" /\ faults < MaxFaults
  /\ selected' = ~selected
  /\ faults' = faults + 1
  /\ UNCHANGED <<jobs, pending, received, rotated, status>>

(* The heartbeat retires a plan whose transport is extinct, once the       *)
(* rounds of provider discovery have found nobody.                         *)
Retire ==
  /\ status = "active" /\ PlanExtinct
  /\ status' = "retired"
  /\ UNCHANGED <<jobs, pending, received, rotated, selected, faults>>

Answer(r) ==
  /\ status = "active"
  /\ \/ \E Has \in SUBSET DOMAIN r.objs :
          (r.peer \in Reliable => Has = DOMAIN r.objs) /\ Respond(r, Has)
     \/ r.peer \notin Reliable /\ (Mismatch(r) \/ Unavailable(r) \/ Fail(r) \/ Busy(r))
     \/ LocalCapacity(r)

Next ==
  \/ Tick
  \/ Retire
  \/ HeadersMove
  \/ \E r \in Tokens : Answer(r)
  \/ \E p \in Peer : Disconnect(p) \/ \E inv \in Inventories[p] : Advertises(p, inv)
  \/ \E c \in Claim, p \in Peer : Elapse(c, p)

Spec == Init /\ [][Next]_vars

-----------------------------------------------------------------------------
(* Type correctness.                                                       *)
TypeOK ==
  /\ jobs \in [Claim -> Jobs(Object)]
  /\ IsABag(pending)
  /\ \A r \in Tokens : /\ r.peer \in Peer /\ r.gone \in BOOLEAN
                       /\ DOMAIN r.objs = {Terminal} \/ DOMAIN r.objs \in SUBSET (1..Bodies) \ {{}}
                       /\ \A c \in DOMAIN r.objs : r.objs[c] \in Object
  /\ DOMAIN received \subseteq Claim
  /\ \A c \in DOMAIN received : received[c] \in [object : Object, from : Peer]
  /\ rotated \in BOOLEAN /\ selected \in BOOLEAN
  /\ status \in {"active", "applying", "retired"}
  /\ faults \in 0..MaxFaults

(* A request and its hedge never depend on one failure domain, whatever    *)
(* the order of promotions, rotations and re-advertisements, and a claim   *)
(* in flight is pinned to one encoding (start_hedge, rotate_hedge).        *)
HedgesIndependent ==
  \A c \in Claim : jobs[c].st = "inflight" =>
    /\ jobs[c].sel # NoObject
    /\ Len(jobs[c].legs) = 2 => Domain[jobs[c].legs[1]] # Domain[jobs[c].legs[2]]

(* Verified bytes are never revoked: no later failure, disconnect,         *)
(* quarantine or duplicate response changes them or their origin.          *)
VerifiedKept ==
  [][\A c \in DOMAIN received :
       /\ Verified(jobs, c) /\ Verified(jobs', c)
       /\ jobs'[c].sel = received[c].object
       /\ c \in DOMAIN received' /\ received'[c] = received[c]]_vars

(* Once a peer is found to lack or to falsify a claim, no bytes of its are *)
(* accepted for it: not by a request still in flight, not as a late        *)
(* response, not after a new inventory (quarantine_source,                 *)
(* mark_unavailable).                                                      *)
QuarantineHolds ==
  [][\A c \in DOMAIN received' \ DOMAIN received :
       received'[c].from \notin jobs[c].banned]_vars

(* The failure budget of a source is spent once: a source that used it up  *)
(* is out for the plan and no reconnect brings it back (source_history,    *)
(* unavailable_sources).                                                   *)
BudgetHolds ==
  \A c \in Claim : \A p \in Peer :
    /\ jobs[c].fails[p] >= FailureLimit => p \in jobs[c].banned
    /\ p \in jobs[c].banned =>
         p \notin DOMAIN jobs[c].src \cup DOMAIN jobs[c].late \cup Range(jobs[c].legs)


(* The handler whose response completes a selected plan also hands it to   *)
(* the committer, and nothing else does: a plan that headers have          *)
(* abandoned is never applied (try_start_exact_suffix_apply).              *)
CompletionStarts ==
  [][/\ (Complete(jobs', received') /\ ~Complete(jobs, received) /\ selected)
           => status' = "applying"
     /\ (status' = "applying" /\ status = "active")
           => selected /\ Complete(jobs', received')]_vars

-----------------------------------------------------------------------------
(* A late correlation lasts no longer than its request: when the token is  *)
(* answered or its grace is over, the correlation is forgotten             *)
(* (forget_late_response).                                                 *)
LateAwaited ==
  \A c \in Claim : \A p \in DOMAIN jobs[c].late :
    \E r \in Tokens : r.peer = p /\ c \in DOMAIN r.objs


-----------------------------------------------------------------------------
(* Fairness.  The heartbeat runs, and a schedule that has something to do  *)
(* is carried out; a backoff ends; the network task answers every token,   *)
(* by its object deadline at the latest; the heartbeat's inventory probes  *)
(* are answered by a connected peer.  No answer to a request for objects   *)
(* is promised to be a helpful one.                                        *)
FairSpec ==
  /\ Spec
  /\ WF_vars(Tick)
  /\ WF_vars(\E c \in Claim, p \in Peer : Elapse(c, p))
  /\ WF_vars(\E r \in Tokens : Answer(r))
  /\ WF_vars(\E p \in Connected : \E inv \in Inventories[p] : Advertises(p, inv))

=============================================================================
