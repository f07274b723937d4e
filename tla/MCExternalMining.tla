-------------------------- MODULE MCExternalMining --------------------------
(***************************************************************************)
(* External mining on a small instance: two templates, so that a late task *)
(* or submission of one meets the next, three commits of any kind and two  *)
(* changes of the permission to mine.                                      *)
(***************************************************************************)
EXTENDS ExternalMining
=============================================================================
