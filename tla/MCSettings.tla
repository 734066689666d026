------------------------------- MODULE MCSettings -------------------------------
(***************************************************************************)
(* Checking Settings.  Edits are told apart only by what they do and by    *)
(* whether they edit the fields of the form.                               *)
(***************************************************************************)
EXTENDS Settings, TLC

EditSymmetry == Permutations(Edits \cap Forms) \cup Permutations(Edits \ Forms)
=============================================================================
