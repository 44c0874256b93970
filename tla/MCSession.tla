----------------------------- MODULE MCSession -----------------------------
(* The session's turn machine on small instances.                          *)
EXTENDS Session, TLC

\* `try` and `queued` calls are interchangeable, and so are continuations
\* and permission requests; none of the properties names one.
Symm == Permutations(Calls) \cup Permutations(Resumes) \cup Permutations(Perms)

=============================================================================
