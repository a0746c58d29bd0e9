SPECIFICATION ReadingsSpec
CONSTANTS
    Pids <- ThreePids
    Init1 = "1"
    Self = "atm"
    Settings <- NiceValues
    MaxBirths = 2
    Numbers = {1, 2}
    MaxForks = 2
    MaxWork = 1
    MaxScans = 2
    Inspectable = {"a", "b"}
    MaxRestarts = 2
    MaxIo = 1
    MaxReadings = 3
    Ids = {1, 2}
    Capacities = {1, 2}
    MaxListed = 2
    MaxRefreshes = 3
    Subjects = {"cpu"}
    RuleSubjects = {"eth0 receive rule"}
    Sources = {"cpu", "eth0 receive rule"}
    TypeOf <- CpuOnly
    HwCritical <- NoHardwareLimit
    Values = {2, 4, 5, 8}
    Configs <- EveryConfig
    KindSets <- SevereOrAll
    MaxHistory = 2
    MountPoints = {"home", "usb"}
    Answers <- Statistics
    Bytes = 8
    MaxSeriesKept = 1
    RingSizes = {1, 2}
    MaxMounts = 3
    MaxListings = 3
INVARIANTS
    ProtectedUntouched
    ChangeHitsCaptured
    CompleteReportOfOne
    UseIsReal
    SectionsOfInspected
    RateOverItsWindow
    SamplesOfTheirDevice
    SeriesFollowMounts
    ActiveMatchesHistory
    HysteresisSeparates
    OnePopupPerSource
    OncePerCooldown
CHECK_DEADLOCK FALSE
