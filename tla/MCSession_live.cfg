CONSTANTS
    Calls = {c1, c2}
    Resumes = {r1}
    Perms = {}
    Policies = {"try", "queued"}
    Folded = FALSE
    Offset = 0
    Events = {"limit", "close", "handover"}
    None = None
SPECIFICATION FairSpec
PROPERTIES QueueDrains TurnsFinish
CHECK_DEADLOCK FALSE
