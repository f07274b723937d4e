----------------------------- MODULE MCChainStore -----------------------------
(***************************************************************************)
(* A small block tree.  The main chain m0 .. m6 carries two units of work   *)
(* per block; x leaves it at m1, y at m3 with one heavy block (a shorter    *)
(* branch that wins) and z at m5.  Transaction t moves between branches.    *)
(***************************************************************************)
EXTENDS ChainStore, TLC

MCParent ==
    "m1" :> "m0" @@ "m2" :> "m1" @@ "m3" :> "m2" @@ "m4" :> "m3" @@ "m5" :> "m4"
    @@ "m6" :> "m5"
    @@ "x2" :> "m1" @@ "x3" :> "x2" @@ "x4" :> "x3"
    @@ "y4" :> "m3" @@ "y5" :> "y4"
    @@ "z6" :> "m5"

MCBlock == {"m0"} \cup DOMAIN MCParent

MCWeight == [b \in MCBlock |-> CASE b = "m0" -> 1 [] b = "y4" -> 5 [] b = "x4" -> 3 [] OTHER -> 2]

HeightOf[b \in MCBlock] == IF b = "m0" THEN 0 ELSE 1 + HeightOf[MCParent[b]]
MCHeight == [b \in MCBlock |-> HeightOf[b]]

WorkOf[b \in MCBlock] == MCWeight[b] + IF b = "m0" THEN 0 ELSE WorkOf[MCParent[b]]
MCWork == [b \in MCBlock |-> WorkOf[b]]

ChainOf[b \in MCBlock] == IF b = "m0" THEN 0 :> b ELSE ChainOf[MCParent[b]] @@ MCHeight[b] :> b
MCAncestor == [b \in MCBlock |-> ChainOf[b]]

MCHashRank == [b \in MCBlock |-> IF b \in {"z6", "y5"} THEN 0 ELSE 1]

MCTxs == [b \in MCBlock |-> CASE b \in {"m4", "y5"} -> {"t"} [] b \in {"m2", "x3"} -> {"u"} [] OTHER -> {}]

==============================================================================
