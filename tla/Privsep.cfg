SPECIFICATION FairSpec
CONSTANTS
    Configs <- MCConfigs
    Users = {"alice", "root", "mallory"}
    Accounts = {"alice", "root"}
    PubKeys = {k1, k2}
    Offered = {k1, k2, k3}
    NoKey = NoKey
    MaxAuthTries = 3
    AttemptLimit = 6
    MaxRequests = 7
INVARIANTS
    GrantedOnlyIfCompleted
    HonestChildServed
    ProcessesAgree
PROPERTIES
    SuccessMeansSession
CHECK_DEADLOCK FALSE
