SPECIFICATION Spec
CONSTANTS
  Groups = {range, g1}
  RangeGroup = range
  Probe = {}
  GroupModes <- PresenceOnly
  HasModes = TRUE
  Vals = {0}
  Default = 0
  Retries = 1
  Firmwares <- GoodFirmware
  Faults = {"lose"}
  UserOps = {"set"}
  Nil = Nil
INVARIANT SetsReachRightApp
