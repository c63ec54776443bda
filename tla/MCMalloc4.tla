----------------------------- MODULE MCMalloc4 -----------------------------
(* Malloc4 for TLC: the client's variables are interchangeable.            *)
EXTENDS Malloc4

Symmetry == Permutations(Vars)
=============================================================================
