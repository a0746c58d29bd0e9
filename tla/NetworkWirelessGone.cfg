SPECIFICATION WatchedSpec
CONSTANTS
    eth = eth
    wlan = wlan
    idx2 = idx2
    idx3 = idx3
    Names = {eth, wlan}
    Indices = {idx2, idx3}
    LinkStates <- ThreeStates
    MaxTracked = 1
    MaxChanges = 2
    MaxFailures = 1
    Radios = {eth, wlan}
    Snapshots <- OneAtATime
    Readings <- FourReadings
    Steps <- SoonOrLate
    UnitSeconds = 10
    WirelessRooms = {3}
    MaxRadios = 1
    MaxLogged = 2
    Debounce = 2
    ResetGap = 3
    MinValid = 2
    MinFactor = 2
    MaxFeeds = 5
    MaxResizes = 1
    Cards = {eth, wlan}
    Reports <- SixReports
    MaxCards = 1
    MaxSnapshots = 4
    Nics = {eth, wlan}
    NicNames = {"a", "b"}
    Drivers = {"e1000"}
    Reread = 2
    MaxNics = 1
    MaxProbings = 3
    MaxEvents = 3
SYMMETRY Alike
INVARIANT GoneIsAnnounced
CHECK_DEADLOCK FALSE
