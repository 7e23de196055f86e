SPECIFICATION KernelSpec
CONSTANTS
    Files = {f1}
    Modes = {"audit", "enforce"}
    Capacity = 1
    QueueLimit = 1
    MaxVersion = 1
    MaxRequests = 1
INVARIANT
    RestoreOpensByCommit
PROPERTY
    EveryCleanupEnds
