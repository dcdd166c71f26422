SPECIFICATION Spec
CONSTANTS
    ann = ann
    bob = bob
    Users = {ann, bob}
    Owner = ann
    ClientIds = {c1}
    Workers = {w1, w2}
    None = None
    Scenarios <- MCMembershipAndVoting
    MaxVersion = 1
SYMMETRY MCSymmetry
INVARIANTS
    UnreadIsNeverTooLow
    ReceiptsMatchCursors
    NoDeadlock
PROPERTIES
    CursorsNeverGoBack
CHECK_DEADLOCK FALSE
