SPECIFICATION LoopSpec
CONSTANTS
  Groups = {range}
  RangeGroup = range
  Probe = {}
  GroupModes <- BothModes
  HasModes = TRUE
  Vals = {0}
  Default = 0
  Retries = 1
  Firmwares <- GoodFirmware
  Faults = {"lose", "reject"}
  UserOps = {"mode", "factory"}
  Nil = Nil
INVARIANT SelectShowsMode
INVARIANT RadarRuns
PROPERTY OperationEnds
