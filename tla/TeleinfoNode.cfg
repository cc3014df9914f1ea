CONSTANTS
    BASE = BASE
    PAPP = PAPP
    Fields = {BASE, PAPP}
    NumMeters = 2
    RingSize = 3
    TeleQueueSize = 1
    MainQueueSize = 2
SPECIFICATION Spec
SYMMETRY FieldSymmetry
INVARIANTS
    TypeOK
    SharedUart
    ListensAwake
    ReportLabelled
    OneReportPerMeter
    HeapAccounted
    NeverBlocked
    HibernatesQuietly
    RadioReady
    PureFromClean
PROPERTIES
    ImplementsCycle
