SPECIFICATION FairSpec
CONSTANTS
    Parts = {"sync", "outbox", "screen"}
    Workers = {w1}
    Runs = {r1, r2}
    None = None
    Faults = {"drop"}
    QueueSize = 3
    PageSize = 1
    MaxId = 3
    MaxFaults = 2
    Texts = {m1}
    Pages = {p1, p2}
    MaxTroubles = 2
    ann = ann
    bob = bob
    a1 = a1
    b1 = b1
    b2 = b2
    k1 = k1
    k2 = k2
    Devices = {a1, b1}
    UserOf <- MCUserOf
    Calls = {k1, k2}
    Scenarios <- MCFair
INVARIANTS
    TypeOK
    NothingFallsBehind
    ExactlyOnce
PROPERTIES
    NothingReturns
    MessagesGoOn
    CallsGoOn
CHECK_DEADLOCK FALSE
