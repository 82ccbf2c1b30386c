SPECIFICATION Spec
CONSTANTS
    Ops = {"put"}
    MaxLen = 4
    DownloadBuflen = 2
    UploadBuflen = 1
    MIN_READ_SIZE = 1
    NumRequests = 2
    MaxAttempts = 1
    MaxFaults = 1
INVARIANTS
    GotEverything
CHECK_DEADLOCK FALSE
