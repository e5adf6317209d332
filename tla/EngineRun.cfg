SPECIFICATION Spec
CONSTANTS
  Groups = {range}
  RangeGroup = range
  Probe = {}
  GroupModes <- BothModes
  HasModes = FALSE
  Vals = {0, 1}
  Default = 0
  Retries = 1
  Firmwares <- GoodFirmware
  Faults = {"lose", "mute", "short"}
  UserOps = {"set", "run", "power"}
  Nil = Nil
INVARIANT StatusTellsStopped
PROPERTY UserStopIsKept
