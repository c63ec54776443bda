------------------------------ MODULE MCServer ------------------------------
(* Server for TLC: descriptors and workers are interchangeable.            *)
EXTENDS Server, TLC

Symmetry == Permutations(Workers) \cup Permutations(Fds)
=============================================================================
