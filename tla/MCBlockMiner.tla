---------------------------- MODULE MCBlockMiner ----------------------------
(***************************************************************************)
(* The miner among its neighbours, for TLC.  Two commits let a block of a  *)
(* peer fall before and after a mined one; three bounded events (payout    *)
(* switches, publications, admissions, failures) fall anywhere in between. *)
(***************************************************************************)
EXTENDS BlockMiner

=============================================================================
