------------------------------ MODULE MCSmash ------------------------------
(* Smash for TLC.                                                          *)
EXTENDS Smash
=============================================================================
