------------------------------- MODULE MCChMtx -------------------------------
(* Model-checking instance of ChMtx *)
EXTENDS ChMtx, TLC
CONSTANTS m1, m2
MCRank == m1 :> 1 @@ m2 :> 2
MCTimes == {1}
MCSymmetry == Permutations(Threads \ {Main, Idle})
=============================================================================
