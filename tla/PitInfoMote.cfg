SPECIFICATION Spec
CONSTANTS
    NumMeters = 2
    Fields = {"base", "papp"}
    RingSize = 2
    ProcQueueSize = 8
    BlinkQueueSize = 8
    ReadDelay = 10
    CyclePause = 60
    CounterSize = 1
    BatteryPeriod = 1
INVARIANTS
    TypeOK HandoverQuiet FirstReportReal PureFromClean PauseQuiet
