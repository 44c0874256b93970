CONSTANTS
    Calls = {c1, c2}
    Hosts = {c1}
    Resumes = {}
    Perms = {}
    Policies = {"try", "steer"}
    Folded = FALSE
    Offset = 0
    Events = {"close", "error", "die"}
    Waiting = {}
    None = None
SPECIFICATION WaitFairSpec
PROPERTIES Abandoned Woken
CHECK_DEADLOCK FALSE
