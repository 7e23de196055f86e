SPECIFICATION Spec
CONSTANTS
    FileIds = {f1, f2, f3, f4}
    NoId = noid
    Capacity = 3
    Components <- MCComponents
    Drivers <- MCDrivers
    SafeModeThreshold = 3
    MaxExponent = 3
    PassSeconds = 5
    MaxStops = 2
    MaxResets = 1
    MaxRestarts = 1
    MaxPackage = 3
    BadPackages = {2}
    Incomplete = incomplete
    Unreadable = unreadable
    NoTransaction = none
    Paths = {doc, canary}
    Contents = {plain, cipher}
    NoContent = nothing
    Canaries = {canary}
    HighEntropy = {cipher}
    VaultQuota = 2
    ChangeThreshold = 2
    DestructiveThreshold = 1
    EntropyThreshold = 1
    MaxUserSteps = 2
    MaxSnapshots = 2
    MaxIncidents = 1
    MaxDamage = 1
CHECK_DEADLOCK FALSE
PROPERTY
    SafeModeIsAuditOnly
