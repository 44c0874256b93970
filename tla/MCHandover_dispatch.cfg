CONSTANTS
    Daemons = {d1, d2, d3}
    Crashes = 0
    Attempts = 8
    Events = {"fail", "spawn", "call"}
    None = None
SPECIFICATION Spec
SYMMETRY Symm
INVARIANTS NoRefusal NoGap
CHECK_DEADLOCK FALSE
