SPECIFICATION FairSpec
CONSTANTS
    MaxData = 3
    MaxTimers = 1
    MaxEscapes = 1
    ClientLimit = 1
    ServerLimit = 3
    Wrap = 8
INVARIANTS
    NeverDisconnected
    OnlyKexBetween
    NonceOnce
    StreamIntact
PROPERTIES
    ComesToRest
CHECK_DEADLOCK FALSE
