---------------------------- MODULE MCSuffixSync ----------------------------
(***************************************************************************)
(* Instances of SuffixSync: named peers in the order of their identifiers, *)
(* one encoding of every claim.                                            *)
(***************************************************************************)
EXTENDS SuffixSync

CONSTANTS pa, pb, pc

MCRank == [x \in Peer |-> CASE x = pa -> 1 [] x = pb -> 2 [] OTHER -> 3]

MCDomain == [x \in Peer |-> MCRank[x]]

(* pa and pc share a host. *)
MCSharedDomain == [x \in Peer |-> IF x = pb THEN 2 ELSE 1]

(* Everybody has the terminal, pa and pc also the bodies. *)
OneEncoding ==
  [x \in Peer |-> IF x = pb THEN {[c \in {Terminal} |-> "e"], [c \in Claim |-> "e"]}
                 ELSE {[c \in Claim |-> "e"]}]

(* pa has everything, the others help with the terminal. *)
TerminalHelpers ==
  [x \in Peer |-> IF x = pa THEN {[c \in Claim |-> "e"]} ELSE {[c \in {Terminal} |-> "e"]}]
=============================================================================
