----------------------------- MODULE MCHandover -----------------------------
(* The daemon generations on small instances.                              *)
EXTENDS Handover, TLC

Symm == Permutations(Daemons)

=============================================================================
