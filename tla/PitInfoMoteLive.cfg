SPECIFICATION FairSpec
CONSTANTS
    NumMeters = 2
    Fields = {"base"}
    RingSize = 2
    ProcQueueSize = 2
    BlinkQueueSize = 2
    ReadDelay = 6
    CyclePause = 12
    CounterSize = 6
    BatteryPeriod = 5
INVARIANT BatteryRegular
PROPERTY RestsForever
