SPECIFICATION Spec
CONSTANTS
    Conns = {c1, c2}
    SendQueue = 1
    Requests = {q1, q2}
    MaxTimers = 3
INVARIANTS
    RealtimeHolds
PROPERTIES
    RealtimeGoesOn
CHECK_DEADLOCK FALSE
