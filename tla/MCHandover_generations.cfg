CONSTANTS
    Daemons = {d1, d2}
    Crashes = 2
    Attempts = 8
    Events = {"fail", "spawn", "call", "others", "cut"}
    None = None
SPECIFICATION FairSpec
INVARIANTS TypeOK OneOwner Registered
PROPERTIES Retires Arrives
CHECK_DEADLOCK FALSE
