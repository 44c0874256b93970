CONSTANTS
    Calls = {c1, c2}
    Hosts = {}
    Resumes = {}
    Perms = {}
    Policies = {"try"}
    Folded = FALSE
    Offset = 0
    Events = {"close", "handover"}
    Waiting = {}
    None = None
SPECIFICATION WaitFairSpec
PROPERTIES Abandoned
CHECK_DEADLOCK FALSE
