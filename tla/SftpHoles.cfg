SPECIFICATION Spec
CONSTANTS
    Ops = {"get"}
    MaxLen = 4
    DownloadBuflen = 2
    UploadBuflen = 1
    MIN_READ_SIZE = 1
    NumRequests = 2
    MaxAttempts = 1
    MaxFaults = 2
INVARIANTS
    NoHoleAfterCut
CHECK_DEADLOCK FALSE
