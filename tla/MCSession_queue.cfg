CONSTANTS
    Calls = {c1, c2, c3}
    Resumes = {r1}
    Perms = {}
    Policies = {"try", "queued"}
    Folded = FALSE
    Offset = 2
    Events = {"limit", "close", "cancel"}
    None = None
SPECIFICATION Spec
SYMMETRY Symm
INVARIANTS StartRecorded NoLostPrompt QueueOrder NoResurrection ParkedQueueHasPrompt ParkedHasSchedule CancelReaches
CHECK_DEADLOCK FALSE
