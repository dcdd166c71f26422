SPECIFICATION WorkSpec
CONSTANTS
    Reminders = {1, 2}
    Instances = {i1, i2}
    Periods = {0, 1}
    BatchLimit = 2
    SkipLimit = 4
    MaxTime = 2
    MaxFaults = 1
    alice = alice
    bob = bob
    phoneA = phoneA
    phoneB = phoneB
    CallIds = {c1}
    Conversations = {v1}
    Members <- MCMembers
    Sessions <- MCSessions
    Workers = {w1}
    None = None
    RingTimeout = 1
    ConnectTimeout = 1
    MaximumDuration = 1
    LastCallTime = 4
    LastStart = 0
    LastAccept = 2
    Events <- MCEvents
INVARIANTS TypeOK SingleFiresOnce FiresOnce
PROPERTIES CanceledIsFinal EveryTimeIsAnnounced RepeatsGoOn EveryCallEnds
CHECK_DEADLOCK FALSE
