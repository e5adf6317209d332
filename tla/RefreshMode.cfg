SPECIFICATION Spec
CONSTANTS
  Groups = {range}
  RangeGroup = range
  Probe = {}
  GroupModes <- BothModes
  HasModes = TRUE
  Vals = {0}
  Default = 0
  Retries = 1
  Firmwares <- GoodFirmware
  Faults = {}
  UserOps = {"mode", "refresh"}
  Nil = Nil
INVARIANT SelectShowsMode
