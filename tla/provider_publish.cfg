SPECIFICATION Spec
CONSTANTS
    NumSessions = 2
    r1 = r1
    r2 = r2
    Streams = {r1, r2}
    RwfVersions <- TwoVersions
    MaxEvents = 3
    ValidationMayFail = TRUE
SYMMETRY StreamSymmetry
INVARIANTS
    TypeOK
    UnmutedHasTokens
    MutedWhenDown
    TokensDistinct
    NullTokenOnlyOnLoginRace
    AtMostOneLateMessage
    FanOut
    MinRwf
    DirectoryReadable
PROPERTIES
    UnmuteOnlyWithFreshTokens
