SPECIFICATION ConnectedSpec
CONSTANTS
    Subjects = {"cpu"}
    RuleSubjects = {"eth0 receive rule"}
    Sources = {"cpu", "eth0 receive rule"}
    TypeOf <- CpuOnly
    HwCritical <- NoHardwareLimit
    Values = {2, 4, 5, 8}
    Configs <- UsualConfig
    KindSets <- SevereOrAll
    MaxHistory = 1
PROPERTIES
    ReachesLiveDaemon
