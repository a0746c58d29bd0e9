SPECIFICATION PageSpec
CONSTANTS
    Names = {"sda", "sdb"}
    Disks = {"d1"}
    Identities = {"ata1"}
    IdentityOf <- OneAddress
    Clients = {"ui"}
    Failures = {"PermissionDenied"}
    None = None
    MaxMoves = 0
    Contents <- UserContents
    ThresholdPairs <- UserCategories
    RuleLists <- UserRules
    Packages <- NewAndOld
    Replaces <- NewForOld
    MaxVersion = 2
    MaxRecent = 2
    MaxChanges = 2
    Apps = {"app"}
    EditedTo <- EditedFiles
    MaxEdits = 2
    Services = {"sshd", "cron"}
    OtherUnits = {"home.mount"}
    MaxTurns = 1
    Sizes = {1, 2}
    MaxRefreshes = 4
INVARIANTS
    CleanReloads
    EntryFollowsPreference
    ChoiceLasts
    RowsAreOfTheirService
    ScreenAgrees
    CacheFollowsDevices
    ForcedCycleReadsAll
PROPERTIES OnlyConfirmedChanges
CHECK_DEADLOCK FALSE
