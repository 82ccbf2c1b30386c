SPECIFICATION Spec
CONSTANTS
    Configs <- MCEmptyPasswords
    Users = {"alice"}
    Accounts = {"alice"}
    PubKeys = {k1}
    Offered = {k1}
    NoKey = NoKey
    MaxAuthTries = 3
    AttemptLimit = 6
    MaxRequests = 7
INVARIANTS
    NeverShouldNotHappen
CHECK_DEADLOCK FALSE
