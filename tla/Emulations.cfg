SPECIFICATION MCSpec
CONSTANTS
    Ids <- MCIds
    Groups <- MCGroups
    MaxPackets = 6
    Routed = TRUE
INVARIANTS
    TypeOK
    MembersConnected
    OneSlotPerPacket
    AddressAfterRegistration
PROPERTIES
    GroupServed
    ServedWhenListening
CHECK_DEADLOCK FALSE
