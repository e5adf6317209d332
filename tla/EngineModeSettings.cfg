SPECIFICATION OneSettingSpec
CONSTANTS
  Groups = {range, g1}
  RangeGroup = range
  Probe = {}
  GroupModes <- PresenceOnly
  HasModes = TRUE
  Vals = {v0, v1}
  Default = v0
  Retries = 1
  Firmwares <- GoodFirmware
  Faults = {"mangle", "reject"}
  UserOps = {"mode", "set"}
  Nil = Nil
SYMMETRY ValueSymmetry
INVARIANT SetsReachRightApp
INVARIANT ShownIsReported
INVARIANT ShownIsRadars
