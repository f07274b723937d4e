----------------------------- MODULE MCHeaderSync -----------------------------
(***************************************************************************)
(* A tree of eight headers: m is the long chain, x leaves it at genesis and *)
(* y at m1, each with one heavy header, so that a shorter branch can win.   *)
(***************************************************************************)
EXTENDS HeaderSync

MCParent ==
    "m1" :> "m0" @@ "m2" :> "m1" @@ "m3" :> "m2" @@ "m4" :> "m3"
    @@ "x1" :> "m0"
    @@ "y2" :> "m1" @@ "y3" :> "y2"

MCBlock == {"m0"} \cup DOMAIN MCParent

MCWeight == [b \in MCBlock |-> CASE b = "y2" -> 3 [] b = "x1" -> 7 [] OTHER -> 2]

HeightOf[b \in MCBlock] == IF b = "m0" THEN 0 ELSE 1 + HeightOf[MCParent[b]]
MCHeight == [b \in MCBlock |-> HeightOf[b]]

WorkOf[b \in MCBlock] == MCWeight[b] + IF b = "m0" THEN 0 ELSE WorkOf[MCParent[b]]
MCWork == [b \in MCBlock |-> WorkOf[b]]

ChainOf[b \in MCBlock] == IF b = "m0" THEN 0 :> b ELSE ChainOf[MCParent[b]] @@ MCHeight[b] :> b
MCAncestor == [b \in MCBlock |-> ChainOf[b]]

MCHashRank == "x1" :> 0 @@ "y2" :> 1 @@ "y3" :> 2 @@ "m0" :> 3 @@ "m1" :> 4
              @@ "m2" :> 5 @@ "m3" :> 6 @@ "m4" :> 7

==============================================================================
