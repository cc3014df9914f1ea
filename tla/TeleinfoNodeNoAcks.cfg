CONSTANTS
    BASE = BASE
    PAPP = PAPP
    Fields = {BASE, PAPP}
    NumMeters = 2
    RingSize = 3
    TeleQueueSize = 2
    MainQueueSize = 2
SPECIFICATION Spec
INVARIANT NoAcks
