SPECIFICATION FairSpec
CONSTANTS
    u1 = u1
    u2 = u2
    u3 = u3
    None = None
    Clients = {c1, c2}
    UEs <- MCTwoUEs
    Subscribers <- MCSubscribers
    K <- MCK
    MaxCrashes = 1
INVARIANTS
    NothingBeforeAuthentication
    OnlySubscribersAuthenticated
    RegistrationAnswerTruthful
PROPERTIES
    EveryRequestAnswered
CHECK_DEADLOCK FALSE
