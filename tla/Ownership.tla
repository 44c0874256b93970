----------------------------- MODULE Ownership -----------------------------
(* What the daemon generations promise of one session, whatever the locks, *)
(* reports and relays between them: it is with one daemon, on its way to   *)
(* the next, or at rest in the registry, and it is never in two places.    *)
CONSTANTS
    Daemons,     \* daemon processes
    Faults,      \* whether launches may fail and daemons may die
    None

VARIABLES
    where,       \* unborn, with a daemon, moving, resting or gone
    owner        \* the daemon it is with

vars == <<where, owner>>

Init == \/ where = "unborn" /\ owner = None
        \/ where = "with" /\ owner \in Daemons

\* A session that nothing runs. A death can undo a `forget` that the next
\* generation was not told of.
AtRest == where = "resting" \/ (Faults /\ where = "gone")

\* `spawn`, and `adopt` of a session at rest.
Begin == (where = "unborn" \/ AtRest) /\ where' = "with" /\ owner' \in Daemons

\* A settled session leaves its daemon, and arrives at the next or, refused,
\* where it was.
Ship == where = "with" /\ where' = "moving" /\ owner' = None
Land == where = "moving" /\ where' = "with" /\ owner' \in Daemons

\* `close` ends it, `forget` removes it: neither while it moves.
End    == where = "with" /\ where' = "resting" /\ owner' = None
Forget == where = "resting" /\ where' = "gone" /\ owner' = None

\* A launch fails or a daemon dies; a mark that was left resumes it later.
Fail   == /\ Faults /\ where \in {"with", "moving"} /\ where' \in {"resting", "gone"}
          /\ owner' = None
Resume == Faults /\ AtRest /\ where' = "moving" /\ owner' = None

Next == Begin \/ Ship \/ Land \/ End \/ Forget \/ Fail \/ Resume

Spec == Init /\ [][Next]_vars

=============================================================================
