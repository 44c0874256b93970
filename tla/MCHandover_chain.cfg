CONSTANTS
    Daemons = {d1, d2, d3}
    Crashes = 0
    Attempts = 8
    Events = {}
    None = None
SPECIFICATION FairSpec
PROPERTIES KeepsPromise Retires ForgetSticks
CHECK_DEADLOCK FALSE
