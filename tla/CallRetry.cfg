CONSTANTS
    alice = alice
    bob = bob
    phoneA = phoneA
    phoneB = phoneB
    tabletB = tabletB
    CallIds = {c1}
    Conversations = {v1}
    Members <- MCMembers
    Sessions <- MCSessions
    Workers = {w1, w2}
    None = None
    RingTimeout = 1
    ConnectTimeout = 1
    MaximumDuration = 1
    MaxTime = 0
    LastStart = 0
    LastAccept = 0
    Events <- MCEvents
SPECIFICATION Spec
SYMMETRY MCSymmetry
PROPERTIES WinnerRetryIsIdempotent
CHECK_DEADLOCK FALSE
