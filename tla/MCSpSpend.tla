----------------------------- MODULE MCSpSpend ------------------------------
(* SpSpend for model checking. *)
EXTENDS SpSpend, TLC

Symmetry == Permutations(Tx) \cup Permutations(Proc)
=============================================================================
