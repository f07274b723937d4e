---------------------------- MODULE BlockAttempt ----------------------------
(***************************************************************************)
(* What both producers of blocks promise, the internal miner and the       *)
(* external mining API: at any time at most one attempt, captured on the   *)
(* tip of that moment; an attempt leads to at most one block, and only     *)
(* while its parent is still the tip; and nobody moves the tip between the *)
(* commit of that block and the end of its attempt.  Proofs, permissions,  *)
(* failures, expiry and shutdown are invisible.  The canonical tip is      *)
(* numbered in the order of the commits.                                   *)
(***************************************************************************)
EXTENDS Naturals

VARIABLES
  tip,      \* the canonical tip
  attempt,  \* {} or {the parent of the attempt}
  producing \* the attempt's block is committed and not yet followed up

Init == tip = 0 /\ attempt = {} /\ producing = FALSE

Capture ==
  /\ attempt = {} /\ attempt' = {tip}
  /\ UNCHANGED <<tip, producing>>

Drop ==
  /\ ~producing /\ attempt' = {}
  /\ UNCHANGED <<tip, producing>>

Produce ==
  /\ ~producing /\ attempt = {tip}
  /\ tip' = tip + 1 /\ producing' = TRUE
  /\ UNCHANGED attempt

Finish ==
  /\ producing
  /\ producing' = FALSE /\ attempt' = {}
  /\ UNCHANGED tip

\* A block, branch or snapshot of the network becomes canonical.
Adopt ==
  /\ ~producing
  /\ tip' = tip + 1
  /\ UNCHANGED <<attempt, producing>>

Next == Capture \/ Drop \/ Produce \/ Finish \/ Adopt

Spec == Init /\ [][Next]_<<tip, attempt, producing>>

=============================================================================
