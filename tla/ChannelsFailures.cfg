SPECIFICATION FairSpec
CONSTANTS
    Kinds = {"session"}
    WindowMax = 2
    MaxPacket = 1
    MaxBytes = 2
    MaxFaults = 2
PROPERTY
    FreedDespiteFailures
CHECK_DEADLOCK FALSE
