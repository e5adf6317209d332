SPECIFICATION Spec
CONSTANTS
  Groups = {range, g1}
  RangeGroup = range
  Probe = {}
  GroupModes <- SpeedOnly
  HasModes = TRUE
  Vals = {0}
  Default = 0
  Retries = 1
  Firmwares <- GoodFirmware
  Faults = {"lose"}
  UserOps = {"mode"}
  Nil = Nil
INVARIANT ModeSettingsRead
