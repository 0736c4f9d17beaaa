SPECIFICATION Spec
CONSTANTS
    c1 = c1
    Connections = {c1}
    TclThreads = {"tcl"}
    RetryCount = 2
    RetryDelay = 0
    RetrySleepDefault = 2
    RetrySleepMax = 3
    PanicThreshold = 3
    NoThreshold = NoThreshold
    Offsets = {0, 5}
    ErrorCodes = {0, 304}
    MaxVersion = 2
    MaxTcl = 1
INVARIANTS
    TypeOK
    EraseDefined
    Inductive
    NoHandleLeaks
    RecordedIsPublished
PROPERTIES
    QueryEnds
    UpdateArrives
    RefinesPolling
