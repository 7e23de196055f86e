SPECIFICATION Spec
CONSTANTS
    MaxVersion = 2
    NoFile = NoFile
    Damaged = Damaged
    Driver = {wfp, minifilter}
    AuditPolicies = {1}
    MayDamage = {"current", "primary"}
    Paths = {"tool", "letter"}
    Home = {"tool"}
    CategoryOf <- MCCategories
    StoredPolicies <- MCContentPolicies
    PassLimit = 1
    MaxFiles = 2
    Brokers = {"service", "console"}
    InPlace = {"service"}
    ScannerIds = {"s1", "s2"}
    Apps = {"browser", "proxy"}
    Browsers = {"browser"}
    Ports = {443, 445}
    NetPolicies <- MCNetPolicies
    Processes = {"gateway", "app", "other"}
    System = "system"
    Launches <- MCLaunches
    GuardPolicies <- MCGuardPolicies
    MaxBoots = 1
    Flows = {f1, f2, f3}
    MaxPending = 2
    Budget = 2
    MaxReserved = 1
    BucketCapacity = 3
    BucketRate = 2
    Second = 3
    Word = 8
    CrashLimit = 2
    CrashWindow = 2
    MaxTime = 6
    Packages <- MCPackages
    Administrators = {"a1", "a2"}
    Names = {"a"}
    Sizes = {0, 1, 2, 3}
    MaxEntries = 2
    MaxDepth = 1
    MaxEntryBytes = 2
    MaxTotalBytes = 3
    MaxRatio = 2
    Files = {"f", "g"}
    FileContents = {"x", "y"}
    MaxRecorded = 3
CHECK_DEADLOCK FALSE
INVARIANTS
    SettledIsActive
    OutcomeIsTrue
    FaultsKeepPolicy
    StoreSurvivesOneFault
    ContentIsKept
    JournalIsTrue
    PolicyIsEnforced
    ExitIsTrue
    RateIsBounded
    CircuitIsEarned
    
    ArchiveIsBounded
    AllowedWasApproved
PROPERTIES
    ScannersAreCutOff
    AnswersAreInTime
    OwnActivationGoesForward
    FailedBootGoesBack
