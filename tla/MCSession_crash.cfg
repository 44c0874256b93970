CONSTANTS
    Calls = {c1, c2, c3}
    Resumes = {}
    Perms = {}
    Policies = {"try", "queued", "steer"}
    Folded = TRUE
    Offset = 0
    Events = {"die", "error", "close", "cancel"}
    None = None
SPECIFICATION Spec
SYMMETRY Symm
INVARIANTS ExitedSticks OwnAnswer NoStrandedQueue
CHECK_DEADLOCK FALSE
