SPECIFICATION Spec
CONSTANTS
    Parts = {"sync", "screen"}
    Workers = {w1, w2}
    Runs = {r1}
    None = None
    Faults <- MCDisturbed
    QueueSize = 1
    PageSize = 1
    MaxId = 3
    MaxFaults = 2
    Texts = {m1}
    Pages = {p1, p2}
    MaxTroubles = 2
    ann = ann
    bob = bob
    a1 = a1
    b1 = b1
    b2 = b2
    k1 = k1
    k2 = k2
    Devices = {a1, b1, b2}
    UserOf <- MCUserOf
    Calls = {k1, k2}
    Scenarios <- MCHard
SYMMETRY MCSymmetry
INVARIANTS
    ScreensHold
PROPERTIES
    CatchUpHolds
CHECK_DEADLOCK FALSE
