SPECIFICATION RefreshSpec
CONSTANTS
    NumSessions = 1
    Streams <- MCStreams
    RwfVersions <- OneVersion
    MaxEvents = 4
    ValidationMayFail = FALSE
    Resources = {"equities", "currencies"}
    Fields <- MCFields
    NameMap <- MCNameMap
    Responses <- MCResponses
INVARIANTS
    TableFaithful
    DirectoryBeforeData
PROPERTY
    ThreadsReturn
