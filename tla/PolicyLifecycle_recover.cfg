SPECIFICATION PolicySpec
CONSTANTS
    MaxVersion = 2
    NoFile = NoFile
    Damaged = Damaged
    Driver = {wfp, minifilter}
    AuditPolicies = {1}
    MayDamage = {"current", "previous", "primary"}
INVARIANT
    RecoverUsesPrevious
