SPECIFICATION Spec
CONSTANTS
    NumSessions = 1
    r1 = r1
    r2 = r2
    Streams = {r1}
    RwfVersions <- OneVersion
    MaxEvents = 3
    ValidationMayFail = TRUE
INVARIANT DirectoryBeforeData
