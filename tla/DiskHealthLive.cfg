SPECIFICATION FairSpec
CONSTANTS
    Names = {"sda"}
    Disks = {"d1", "d2"}
    Identities = {"ata1", "ata2"}
    IdentityOf <- TwoAddresses
    Clients = {"ui"}
    Failures = {"PermissionDenied", "DeviceUnavailable"}
    None = None
    MaxMoves = 1
INVARIANTS
    SuccessIsOfItsDisk
PROPERTIES
    LastSuccessKept
    ServesRefreshes
    WaitsReturn
