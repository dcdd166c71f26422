SPECIFICATION Spec
CONSTANTS
    Workers = {w1}
    Runs = {r1}
    None = None
    Faults = {"drop", "fail"}
    QueueSize = 3
    PageSize = 1
    MaxId = 3
    MaxFaults = 2
INVARIANTS NothingFallsBehind
CHECK_DEADLOCK FALSE
