CONSTANTS
    Calls = {c1, c2, c3}
    Resumes = {}
    Perms = {p1}
    Policies = {"try", "queued"}
    Folded = FALSE
    Offset = 0
    Events = {"handover", "error", "close", "cancel"}
    None = None
SPECIFICATION Spec
SYMMETRY Symm
INVARIANTS PermissionBacked ShippedOnce
CHECK_DEADLOCK FALSE
