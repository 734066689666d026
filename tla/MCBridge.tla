------------------------------- MODULE MCBridge -------------------------------
(* Symmetry for checking Bridge: nothing tells the two computers apart.      *)
EXTENDS Bridge, TLC

NodeSymmetry == Permutations(Nodes)
=============================================================================
