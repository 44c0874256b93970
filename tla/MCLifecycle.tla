---------------------------- MODULE MCLifecycle ----------------------------
(* Launching and ending one session id on small instances.                 *)
EXTENDS Lifecycle, TLC

\* Launches are interchangeable until they are called, and so are ends.
Symm == Permutations(Launches) \cup Permutations(Ends)

\* What no step and no property reads again is left out of the state that
\* TLC compares: the kind and duty of a call that returned, the launches
\* an end hit that are no longer in `live` or on their way there, the
\* flags of a Subagent whose launch failed and killed it.
Dead(l) == pc[l] = "failed" /\ ~alive[l]
View == <<live, reserved, boot, entry, disk, writer, pc, victim, alive,
          [a \in Actors |-> IF pc[a] \in Returned THEN "none" ELSE kind[a]],
          [a \in Actors |-> drops[a] /\ pc[a] \notin Returned],
          [l \in Launches |-> closing[l] /\ ~Dead(l)],
          [l \in Launches |-> IF Dead(l) THEN "live" ELSE status[l]],
          {l \in ended : live = l \/ Claiming(l)},
          {e \in since : pc[e] \notin Returned}, closed, forgot>>

=============================================================================
