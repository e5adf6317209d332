SPECIFICATION HistorySpec
CONSTANTS
  Groups = {range}
  RangeGroup = range
  Probe = {}
  GroupModes <- BothModes
  HasModes = FALSE
  Vals = {0, 1}
  Default = 0
  Retries = 1
  Firmwares <- GoodFirmware
  Faults = {"lose"}
  UserOps = {"set"}
  Nil = Nil
INVARIANT LateChangeNotSent
