CONSTANTS
    alice = alice
    bob = bob
    phoneA = phoneA
    phoneB = phoneB
    tabletB = tabletB
    CallIds = {c1}
    Conversations = {v1}
    Members <- MCMembers
    Sessions <- MCSessions
    Workers = {w1, w2}
    None = None
    RingTimeout = 1
    ConnectTimeout = 1
    MaximumDuration = 1
    MaxTime = 2
    LastStart = 0
    LastAccept = 2
    Events <- MCEvents
SPECIFICATION Spec
SYMMETRY MCSymmetry
INVARIANTS
    TypeOK
    OutcomeFitsAnswer
    OneDeviceTakesTheCall
    CompletedWasConnected
    TalkTimeIsNotOverstated
    EachStepIsRelayedOnce
PROPERTIES
    EndedIsFinal
    ImplementsLifecycle
CHECK_DEADLOCK FALSE
