------------------------------ MODULE MCChComm ------------------------------
(* Model-checking instance of ChComm *)
EXTENDS ChComm
\* Messages and bytes are only stored, moved and compared.
MCSymmetry == Permutations(Msgs)
MCTimes == {Immediate, 1, Infinite}
=============================================================================
