SPECIFICATION Spec
CONSTANTS
    Files = {f1, f2}
    Modes = {"audit", "enforce"}
    Capacity = 1
    QueueLimit = 1
    MaxVersion = 0
    MaxRequests = 1
INVARIANT
    GateCoversUnverified
SYMMETRY Symmetry
