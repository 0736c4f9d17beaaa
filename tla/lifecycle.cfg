SPECIFICATION Spec
CONSTANTS
    a = a
    b = b
    Instances = {a, b}
    NumSessions <- Sizes
    NoInstance = NoInstance
    MaxCtrl = 2
INVARIANTS
    TypeOK
    SoloSafe
    CurlReady
    TimerAlive
    WalkMisses
PROPERTY CtrlEnds
