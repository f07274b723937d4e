------------------------- MODULE MCMiningReadiness -------------------------
(****************************************************************************)
(* Readiness for TLC: one peer, whose leases are the quorum; three commits, *)
(* so that a suffix or a local block meets a snapshot or a reorganization;  *)
(* three bounded events.                                                    *)
(****************************************************************************)
EXTENDS MiningReadiness
CONSTANT p1
=============================================================================
