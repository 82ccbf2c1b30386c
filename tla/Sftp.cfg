SPECIFICATION FairSpec
CONSTANTS
    Ops = {"get", "put", "cross"}
    MaxLen = 4
    DownloadBuflen = 2
    UploadBuflen = 1
    MIN_READ_SIZE = 1
    NumRequests = 2
    MaxAttempts = 2
    MaxFaults = 2
INVARIANTS
    RequestsInStep
    SuccessMeansCopied
    FailureLeavesPrefix
    ResumableIfKilled
PROPERTIES
    TransferEnds
CHECK_DEADLOCK FALSE
