----------------------------- MODULE MCMempool -----------------------------
(***************************************************************************)
(* A small block tree for the pool: genesis G, and two branches.           *)
(*                                                                         *)
(*    G -- A1 -- A2        A1 confirms "pay", doubles the slot space;      *)
(*     \                   A2 moves the epoch anchor                       *)
(*      B1 -- B2           B1's coinbase lands on the slot "pay" chose;    *)
(*                         B2's occupancy doubles the growth price         *)
(*                                                                         *)
(* The B branch wins ties of work.  Contract calls and the v1.1 floor      *)
(* start at candidate height 2, the call's deadline is height 3, and       *)
(* height 3 reserves a page for the development payout.                    *)
(***************************************************************************)
EXTENDS Mempool, TLC

MCTx == {"pay", "rival", "rich", "call"}
MCSlot == 1 .. 7
MCInputs == ("pay" :> {1} @@ "rival" :> {1} @@ "rich" :> {2} @@ "call" :> {3})
MCOutputs == ("pay" :> {4} @@ "rival" :> {5, 7} @@ "rich" :> {5} @@ "call" :> {6})
MCSpends == [t \in MCTx |-> [s \in MCSlot |-> "genesis"]]
MCOwner == {"alice", "bob"}
MCPays ==
    ("pay" :> ("alice" :> 0 @@ "bob" :> 2) @@ "rival" :> ("alice" :> 0 @@ "bob" :> 3)
     @@ "rich" :> ("alice" :> 1 @@ "bob" :> 1) @@ "call" :> ("alice" :> 0 @@ "bob" :> 0))
MCFee == ("pay" :> 5800 @@ "rival" :> 9000 @@ "rich" :> 20000 @@ "call" :> 18000)
MCSize == ("pay" :> 2 @@ "rival" :> 2 @@ "rich" :> 3 @@ "call" :> 1)
MCPages == ("pay" :> 1 @@ "rival" :> 1 @@ "rich" :> 2 @@ "call" :> 1)
MCEpochAnchor == [t \in MCTx |-> "e0"]
MCSigned == {"pay", "rival", "rich"}
MCCalls == {"call"}
MCCallHeights == ("call" :> {2, 3})
MCDeadline == ("call" :> 3)
MCClaimAuthority == ("call" :> "claimer")
MCRecoveryAuthority == ("call" :> "recoverer")
MCSigner == ("call" :> "claimer")

Slots(taken) == [s \in MCSlot |-> IF s \in {1, 2, 3} \ taken.spent THEN "genesis"
                                  ELSE IF s \in taken.minted THEN "minted"
                                  ELSE "empty"]
Node(h, a, r, spent, minted, active) ==
    [height |-> h, anchor |-> a, range |-> r,
     slots |-> Slots([spent |-> spent, minted |-> minted]), active |-> active, log |-> 4]
G  == Node(0, "e0", {1, 2, 3, 4, 5, 7}, {}, {}, 3)
A1 == Node(1, "e0", 1 .. 7, {1}, {4}, 4)
A2 == Node(2, "e1", 1 .. 7, {1}, {4}, 5)
B1 == Node(1, "e0", {1, 2, 3, 4, 5, 7}, {}, {4}, 4)
B2 == Node(2, "e0", 1 .. 7, {}, {4}, 8)
MCView == {G, A1, A2, B1, B2}
Step(from, to, confirmed, reclaimed) ==
    [from |-> from, to |-> to, confirmed |-> confirmed, reclaimed |-> reclaimed]
MCChainStep ==
    {Step(G, A1, {"pay"}, {}), Step(A1, A2, {}, {}), Step(G, A2, {"pay"}, {}),
     Step(G, B1, {}, {}), Step(B1, B2, {}, {}), Step(G, B2, {}, {}),
     Step(A1, B1, {}, {"pay"}), Step(A1, B2, {}, {"pay"}), Step(A2, B2, {}, {"pay"})}
MCBudgets == {[pages |-> 2, inputs |-> 2, calls |-> 1]}
=============================================================================
