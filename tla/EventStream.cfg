SPECIFICATION FairSpec
CONSTANTS
    QueueCapacity = 2
    SensorCount = 2
    SegmentRecords = 3
    MaxEvents = 3
INVARIANTS
    TrailIsWhole
    DamageIsDetected
PROPERTIES
    ImplementsFifo
    SegmentsArePreserved
    RecordsReachDisk
