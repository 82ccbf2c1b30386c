SPECIFICATION MCSpec
CONSTANTS
    MBMS_BROADCAST_USERS = 3
    MBMS_MULTICAST_USERS = 2
    SIMULATION_RUNS = 3
    PACKET_SIZE_BYTES = 5
    NumResourceBlocks = 4
    GroupSize = 2
    NumUERange = {1, 3, 4}
    BitratesPerRB = {0, 1, 3}
    Bitrates = {1, 3}
INVARIANTS
    CoreAgreesWithUes
    ReceivedOnce
    FullCompensationBest
    NobodyLeftOut
    ServedGetTheirBitrate
    MulticastSaves
CHECK_DEADLOCK FALSE
