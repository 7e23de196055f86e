SPECIFICATION FairSpec
CONSTANTS
    Files = {f1}
    Modes = {"enforce"}
    Capacity = 1
    QueueLimit = 1
    MaxVersion = 1
    MaxRequests = 2
INVARIANTS
    AnalysisIsExclusive
PROPERTIES
    ReadersOpenVerified
    ScanReaches
