SPECIFICATION Spec
CONSTANTS
    ann = ann
    bob = bob
    a1 = a1
    b1 = b1
    k1 = k1
    Pages = {a1, b1}
    UserOf <- MCUserOf
    Calls = {k1}
    None = None
    Scenarios <- MCRejected
INVARIANTS ReturnClosesEnded
CHECK_DEADLOCK FALSE
