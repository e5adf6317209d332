SPECIFICATION Spec
CONSTANTS
  Groups = {range}
  RangeGroup = range
  Probe = {}
  GroupModes <- BothModes
  HasModes = FALSE
  Vals = {0, 1}
  Default = 0
  Retries = 1
  Firmwares <- AnsweringFirmware
  Faults = {"lose", "mute", "clamp", "reject", "refuse"}
  UserOps = {"set", "refresh", "restart", "factory"}
  Nil = Nil
INVARIANT TypeOK
INVARIANT OperationHasEnd
INVARIANT QueueFits
INVARIANT SetsReachStoppedRadar
INVARIANT ShownIsRadars
INVARIANT RadarRuns
INVARIANT BeliefIsRight
INVARIANT CleanIsSaved
PROPERTY AppliedIsKept
