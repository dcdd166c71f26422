SPECIFICATION Spec
CONSTANTS
    ann = ann
    bob = bob
    Users = {ann, bob}
    Owner = ann
    ClientIds = {c1}
    Workers = {w1, w2}
    None = None
    Scenarios <- MCChanging
    MaxVersion = 2
SYMMETRY MCSymmetry
INVARIANTS
    TypeOK
    UnreadIsExact
    OneMessagePerClientId
    EachChangeHasItsVersion
    NoDeadlock
