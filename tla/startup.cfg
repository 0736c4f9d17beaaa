SPECIFICATION Spec
CONSTANTS
    Text <- MCText
    XmlDocuments <- MCXmlDocuments
    JsonDocuments <- MCJsonDocuments
    Day = 7
    ULongRange = 100
    MaxTime = 12
INVARIANTS
    DocumentDecides
    StreamsConfigured
    DueOnGrid
PROPERTIES
    StartupEnds
CHECK_DEADLOCK FALSE
