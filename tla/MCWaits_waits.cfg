CONSTANTS
    Calls = {c1, c2}
    Hosts = {}
    Resumes = {r1}
    Perms = {}
    Policies = {"try", "queued", "steer"}
    Folded = FALSE
    Offset = 0
    Events = {"limit"}
    Waiting = {w1}
    None = None
SPECIFICATION WaitSpec
INVARIANTS WaitTypeOK NoInternal
PROPERTIES EndOnRecord Tells
CHECK_DEADLOCK FALSE
