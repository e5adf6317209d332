SPECIFICATION FairSpec
CONSTANTS
  Groups = {range, g1}
  RangeGroup = range
  Probe = {g1}
  GroupModes <- BothModes
  HasModes = FALSE
  Vals = {0}
  Default = 0
  Retries = 1
  Firmwares <- MixedFirmware
  Faults = {"lose", "mangle", "reject"}
  UserOps = {"set", "reboot"}
  Nil = Nil
PROPERTY OperationEnds
PROPERTY LinkRecovers
PROPERTY ChangeIsTaken
