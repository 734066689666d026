------------------------------ MODULE MCReceiver ------------------------------
(* Model values and symmetry for checking Receiver.                         *)
EXTENDS Receiver, TLC

\* Codes are only compared for equality, so they can be permuted.
CodeSymmetry == Permutations(Codes)
=============================================================================
