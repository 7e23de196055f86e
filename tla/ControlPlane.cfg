SPECIFICATION Spec
CONSTANTS
    MaxTime = 3
    Devices = {d1, d2}
    Serials = {s1, s2, s3}
    Keys = {k1, k2}
    Bindings = {b1, b2}
    MaxEpoch = 2
    CommandIds = {c1, c2, c3}
    Nonces = {n1, n2, n3}
    Actors = {p1, p2}
    MaxLease = 2
    GuardCapacity = 2
    MaxApprovals = 3
    MaxCommands = 4
    QueueCapacity = 2
    MaxBatches = 4
SYMMETRY Symmetry
CHECK_DEADLOCK FALSE
INVARIANTS
    CredentialsAreUnique
    CommandsAreFresh
    FourEyes
    LossIsHonest
PROPERTIES
    RefusedStaysRefused
