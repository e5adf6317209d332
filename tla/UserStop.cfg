SPECIFICATION HistorySpec
CONSTANTS
  Groups = {range}
  RangeGroup = range
  Probe = {}
  GroupModes <- BothModes
  HasModes = FALSE
  Vals = {0}
  Default = 0
  Retries = 1
  Firmwares <- GoodFirmware
  Faults = {}
  UserOps = {"set", "run"}
  Nil = Nil
PROPERTY StoppedRadarStaysStopped
