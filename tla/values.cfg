SPECIFICATION Spec
CONSTANTS
    Keys <- MCKeys
    Path <- MCPath
    Scalars <- MCScalars
    MaxNodes = 4
    MaxAddress = 5
INVARIANTS
    TypeOK
    OneOwner
PROPERTIES
    RefinesTrees
