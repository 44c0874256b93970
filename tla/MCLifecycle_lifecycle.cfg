CONSTANTS
    Launches = {l1, l2, l3}
    Ends = {e1, e2}
    Events = {"fail", "die", "crash", "limit"}
    None = None
SPECIFICATION Spec
VIEW View
SYMMETRY Symm
INVARIANTS TypeOK OneAgent ReservationHeld NoLeakedClaim EndNotOvertaken NoOrphan ClosedStaysClosed ForgottenGone
CHECK_DEADLOCK FALSE
