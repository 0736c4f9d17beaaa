SPECIFICATION Spec
CONSTANTS
    a = a
    b = b
    Instances = {a}
    NumSessions <- OneSize
    NoInstance = NoInstance
    MaxCtrl = 1
INVARIANT QueueUnshared
