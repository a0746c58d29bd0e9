SPECIFICATION ExportSpec
CONSTANTS
    Interfaces = {1, 2}
    Retained = 2
    MaxClock = 3
    Busy = {1}
    MaxBytes = 1
    MaxTransferred = 2
    Offsets = {0, 1}
    Formats = {"CSV", "JSON"}
    Known = {{"link", "hardware"}, {"link", "hardware", "link_stats"}}
INVARIANTS JsonIsValid
CHECK_DEADLOCK FALSE
