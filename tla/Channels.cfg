SPECIFICATION FairSpec
CONSTANTS
    Kinds = {"session", "forward"}
    WindowMax = 2
    MaxPacket = 1
    MaxBytes = 3
    MaxFaults = 1
INVARIANTS
    NeverDisconnected
    WindowAccounted
    NothingAfterClose
    ExitStatusBeforeClose
PROPERTIES
    StreamsImplemented
    BothFreed
CHECK_DEADLOCK FALSE
