----------------------------- MODULE MCMalloc3 -----------------------------
(* Malloc3 for TLC: the client's variables are interchangeable.            *)
EXTENDS Malloc3

Symmetry == Permutations(Vars)
=============================================================================
