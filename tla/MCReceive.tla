----------------------------- MODULE MCReceive ------------------------------
(* Instances of Receive.                                                    *)
EXTENDS Receive, TLC

Symmetry == Permutations(Buyer)
=============================================================================
