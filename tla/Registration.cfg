SPECIFICATION Spec
CONSTANTS
    u1 = u1
    u2 = u2
    u3 = u3
    None = None
    Clients = {c1, c2, c3}
    UEs <- MCUEs
    Subscribers <- MCSubscribers
    K <- MCK
    MaxCrashes = 0
SYMMETRY MCSymmetry
INVARIANTS
    TypeOK
    KeyAgreement
    NatOnceBehindGtp
CHECK_DEADLOCK FALSE
