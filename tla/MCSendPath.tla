----------------------------- MODULE MCSendPath -----------------------------
(* TLC instances of SendPath: symmetry over transactions and coins.         *)
EXTENDS SendPath, TLC

Symmetry == Permutations(Tx) \cup Permutations(Coin)
=============================================================================
