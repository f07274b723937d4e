--------------------------- MODULE ObjectFetcher ---------------------------
(***************************************************************************)
(* The transport state of one exact-object claim, the FetchJob of          *)
(* noid_node/src/networking/object_fetcher.rs, and the fetcher's           *)
(* operations on it.  Jobs never touch each other, so an operation that    *)
(* the code applies to every job (quarantine, disconnect) is given here    *)
(* for one job and applied to all of them by the callers.                  *)
(*                                                                         *)
(*   st      Wanted, InFlight, Received or Verified                        *)
(*   legs    the primary and the hedge of an InFlight job, the source of   *)
(*           a Received one                                                *)
(*   src     the peers that advertise the claim and the encoding each one  *)
(*           advertises (sources)                                          *)
(*   fails   transport failures of a peer (Source.failures, which          *)
(*           source_history keeps across a disconnect)                     *)
(*   parked  peers whose retry_after_ms has not passed; how long a backoff *)
(*           lasts is left out                                             *)
(*   late    requests retired while in flight whose response is still      *)
(*           welcome (late_responses)                                      *)
(*   banned  unavailable_sources                                           *)
(*   sel     the pinned encoding (selected_object), NoObject if none       *)
(*                                                                         *)
(* partial_bytes and busy_responses only size a resumption and a backoff   *)
(* and are left out.                                                       *)
(***************************************************************************)
EXTENDS Naturals, Sequences, Functions, TLC

CONSTANTS
  Peer,          \* providers
  Domain,        \* the failure domain of a peer
  Rank,          \* the order of the peers' identifiers
  FailureLimit,  \* SOURCE_TRANSPORT_FAILURE_LIMIT
  NoObject

NewJob ==
  [st |-> "wanted", legs |-> <<>>, src |-> <<>>, fails |-> [p \in Peer |-> 0],
   parked |-> {}, late |-> <<>>, banned |-> {}, sel |-> NoObject]

Jobs(Object) ==
  [st : {"wanted", "inflight", "received", "verified"},
   legs : {<<>>} \cup [1..1 -> Peer] \cup [1..2 -> Peer],
   src : UNION {[P -> Object] : P \in SUBSET Peer},
   fails : [Peer -> 0..FailureLimit],
   parked : SUBSET Peer,
   late : UNION {[P -> Object] : P \in SUBSET Peer},
   banned : SUBSET Peer,
   sel : Object \cup {NoObject}]

-----------------------------------------------------------------------------
Without(f, p) == Restrict(f, DOMAIN f \ {p})

(* active_source *)
Active(j, p) == p \in Range(j.legs)

(* Any claim that is left without a leg is wanted again.                   *)
RetractAny(j, p) ==
  LET rest == SelectSeq(j.legs, LAMBDA q : q # p)
  IN [j EXCEPT !.legs = rest, !.st = IF rest = <<>> THEN "wanted" ELSE @]

(* The leg of a peer ends: a hedge is promoted, the last leg's end returns *)
(* the claim to Wanted.                                                    *)
Retract(j, p) ==
  IF j.st = "inflight" /\ Active(j, p)
  THEN LET rest == SelectSeq(j.legs, LAMBDA q : q # p)
       IN [j EXCEPT !.legs = rest, !.st = IF rest = <<>> THEN "wanted" ELSE @]
  ELSE j

(* The pin of a claim nobody is asked for falls with its last provider.    *)
Unpinned(j) ==
  IF j.st = "wanted" /\ j.sel \notin Range(j.src)
  THEN [j EXCEPT !.sel = NoObject] ELSE j

(* A late response of a banned source stays welcome.                       *)
BanKeepsLate(j, p) ==
  Unpinned([j EXCEPT !.src = Without(@, p), !.banned = @ \cup {p}])

(* The source is out of the claim for the rest of the plan.                *)
Ban(j, p) ==
  Unpinned([j EXCEPT !.late = Without(@, p), !.src = Without(@, p), !.banned = @ \cup {p}])

-----------------------------------------------------------------------------

Advertise(j, p, o) ==
  IF p \in j.banned THEN j ELSE [j EXCEPT !.src = (p :> o) @@ @]

Eligible(j) ==
  {p \in DOMAIN j.src : p \notin j.parked /\ j.sel \in {NoObject, j.src[p]}}

(* choose_source: fewest failures first, then the smaller identifier.      *)
Best(j, P) ==
  CHOOSE p \in P : \A q \in P \ {p} :
    \/ j.fails[p] < j.fails[q]
    \/ j.fails[p] = j.fails[q] /\ Rank[p] < Rank[q]

CanStart(j) == j.st = "wanted" /\ Eligible(j) # {}

StartPrimary(j) ==
  LET p == Best(j, Eligible(j))
  IN [j EXCEPT !.st = "inflight", !.legs = <<p>>, !.sel = j.src[p]]

(* Any other provider will do, its failure domain aside.                   *)
IndependentAnyDomain(j) == Eligible(j) \ Range(j.legs)

(* Providers in no failure domain that a leg already depends on.           *)
Independent(j) ==
  {p \in Eligible(j) : \A q \in Range(j.legs) : p # q /\ Domain[p] # Domain[q]}

(* A second hedge beside the first.                                        *)
CanHedgeTwice(j) ==
  j.st = "inflight" /\ Range(j.legs) \subseteq DOMAIN j.src /\ Independent(j) # {}

CanHedge(j) ==
  /\ j.st = "inflight" /\ Len(j.legs) = 1
  /\ Range(j.legs) \subseteq DOMAIN j.src
  /\ Independent(j) # {}

StartHedge(j) == [j EXCEPT !.legs = Append(@, Best(j, Independent(j)))]

CanRotate(j) ==
  /\ j.st = "inflight" /\ Len(j.legs) = 2
  /\ Range(j.legs) \subseteq DOMAIN j.src
  /\ Independent(j) # {}

(* The stalled hedge is parked and stays a welcome late responder.         *)
RotateHedge(j) ==
  LET retired == j.legs[2]
  IN [j EXCEPT !.legs[2] = Best(j, Independent(j)),
               !.parked = @ \cup {retired},
               !.late = (retired :> j.sel) @@ @]

-----------------------------------------------------------------------------
(* validate_receive *)
CanReceive(j, p, o) ==
  /\ \/ Active(j, p)
     \/ /\ j.st \in {"wanted", "inflight"}
        /\ p \in DOMAIN j.late /\ j.late[p] = o
  /\ j.sel = o

(* finish_receive *)
Receive(j, p) ==
  [j EXCEPT !.st = "received", !.legs = <<p>>, !.late = <<>>,
            !.fails[p] = 0, !.parked = @ \ {p}]

MarkVerified(j) == [j EXCEPT !.st = "verified", !.legs = <<>>, !.late = <<>>]

(* fail_source_at *)
FailSource(j, p) ==
  IF p \notin DOMAIN j.src THEN Retract(j, p)
  ELSE LET k == [Retract(j, p) EXCEPT !.fails[p] = @ + 1, !.parked = @ \cup {p}]
       IN IF k.fails[p] >= FailureLimit /\ ~(k.st = "received" /\ Active(k, p))
          THEN Ban(k, p) ELSE k


(* defer_source *)
DeferSource(j, p) == Retract(j, p)

(* busy_source, of a peer that is still a source *)
BusySource(j, p) ==
  LET k == IF j.st = "received" /\ Active(j, p)
           THEN [j EXCEPT !.st = "wanted", !.legs = <<>>] ELSE Retract(j, p)
  IN [k EXCEPT !.parked = @ \cup {p}]

MarkUnavailable(j, p) == Ban(FailSource(j, p), p)

(* quarantine_source *)
Quarantine(j, p) == Ban(Retract(j, p), p)

(* disconnect: the source goes, a leg becomes a late response, and the pin *)
(* stays.                                                                  *)
DisconnectSource(j, p) ==
  [Retract(j, p) EXCEPT
     !.late = IF j.st = "inflight" /\ Active(j, p) THEN (p :> j.sel) @@ @ ELSE @,
     !.src = Without(@, p)]


(* forget_late_response *)
ForgetLate(j, p, o) ==
  LET k == IF p \in DOMAIN j.late /\ j.late[p] = o
           THEN [j EXCEPT !.late = Without(@, p)] ELSE j
  IN IF DOMAIN k.late = {} THEN Unpinned(k) ELSE k

(* What unfinished_transport_is_extinct asks of one unfinished job.        *)
Extinct(j) == j.st = "wanted" /\ DOMAIN j.src = {} /\ DOMAIN j.late = {}
=============================================================================
