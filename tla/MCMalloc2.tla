----------------------------- MODULE MCMalloc2 -----------------------------
(* Malloc2 for TLC: the client's variables are interchangeable.            *)
EXTENDS Malloc2, TLC

Symmetry == Permutations(Vars)
=============================================================================
