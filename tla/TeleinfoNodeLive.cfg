\* Room for one report only at main: the thread blocks on its second report.
CONSTANTS
    BASE = BASE
    PAPP = PAPP
    Fields = {BASE, PAPP}
    NumMeters = 2
    RingSize = 2
    TeleQueueSize = 1
    MainQueueSize = 1
SPECIFICATION FairSpec
INVARIANTS
    HeapAccounted
PROPERTIES
    ImplementsCycle
    CyclesForever
    ReportsFreed
    ThreadWakes
