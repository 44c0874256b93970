------------------------------ MODULE MCWaits ------------------------------
(* Waits instantiated for TLC: two calls, at most one of them a library     *)
(* host's, one `wait`, at most one resume. Every constant is given in the   *)
(* cfg.                                                                     *)
EXTENDS Waits
=============================================================================
