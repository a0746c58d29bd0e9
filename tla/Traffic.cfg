SPECIFICATION TrafficSpec
CONSTANTS
  Ifaces <- Two
  Loopback <- None
  Metrics <- Rx
  MaxSeries = 1
  MaxSamples = 2
  Wrap = 64
  MaxTraffic = 2
  Devices = {"eth"}
  BlockSectors = 1
  Word = 8
  MaxCount = 2
  MaxReads = 3
  Links = {1, 2}
  Rooms = {1, 2}
  MaxTracked = 1
  MaxEvents = 1
  MaxHappens = 2
  MaxUpdates = 3
  Interfaces = {1, 2}
  Retained = 2
  MaxClock = 3
  Busy = {1}
  MaxBytes = 1
  MaxTransferred = 2
  Offsets = {0, 1}
  Formats = {"CSV"}
  Known = {{"link"}}
INVARIANTS RatesAreTraffic CountsOfTheLink ExportIsTrue
PROPERTIES RatesAreOfTheWindow
CHECK_DEADLOCK FALSE
