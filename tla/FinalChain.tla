------------------------------ MODULE FinalChain ------------------------------
(***************************************************************************)
(* What the chain store promises its readers: one canonical tip and one     *)
(* finalized checkpoint.  The tip only moves to a chain that fork choice    *)
(* prefers and that keeps the checkpoint, giving up at most FinalityDepth   *)
(* blocks.  Failures, crashes and restarts are invisible.                   *)
(***************************************************************************)
EXTENDS BlockTree

VARIABLES tip, fin

Init == tip = Genesis /\ fin = Genesis

\* b may replace the tip: it wins, and it leaves the canonical chain at a block
\* that is neither below the checkpoint nor deeper than the finality depth.
Eligible(b) ==
    /\ ChooseByWork(b, tip)
    /\ \E a \in Block : /\ OnChain(a, tip) /\ OnChain(a, b)
                        /\ OnChain(fin, a)
                        /\ Height[tip] - Height[a] <= FinalityDepth

\* Blocks are appended, or a suffix is replaced.
Advance(b) ==
    /\ tip' = b
    /\ Eligible(b)
    /\ fin' = FinalizedForTip(fin, b)

\* A finalized snapshot ahead of the tip is installed.
Adopt(b) ==
    /\ tip' = b
    /\ Eligible(b) /\ Height[b] > Height[tip]
    /\ fin' = b

Next == \E b \in Block : Advance(b) \/ Adopt(b)

Spec == Init /\ [][Next]_<<tip, fin>>

==============================================================================
