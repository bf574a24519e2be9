SPECIFICATION Spec
CONSTANTS
    Conns = {c1, c2, c3}
    MaxHistory = 4
    MaxChats = 2
SYMMETRY AnyConn
INVARIANTS
    FailedSendsAreSilent
CHECK_DEADLOCK FALSE
