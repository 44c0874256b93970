CONSTANTS
    Calls = {c1, c2, c3}
    Resumes = {r1}
    Perms = {}
    Policies = {"try", "queued", "steer"}
    Folded = FALSE
    Offset = 1
    Events = {"limit", "cancel", "log"}
    None = None
SPECIFICATION Spec
SYMMETRY Symm
INVARIANTS Numbering EndsRecorded
CHECK_DEADLOCK FALSE
