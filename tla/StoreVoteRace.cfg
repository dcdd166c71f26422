SPECIFICATION Spec
CONSTANTS
    ann = ann
    bob = bob
    Users = {ann, bob}
    Owner = ann
    ClientIds = {c1}
    Workers = {w1, w2}
    None = None
    Scenarios <- MCVoting
    MaxVersion = 1
SYMMETRY MCSymmetry
INVARIANTS
    UnreadIsExact
