SPECIFICATION MCSpec
CONSTANTS
  Configurations <- MCConfigurations
  MAX_TARGETS = 3
  TARGET_TIMEOUT = 2
  Periods = {0, 2, 3}
  MAX_PERIOD = 2
  Values <- MCValues
  Dialects <- MCDialects
INVARIANTS OccupancyIsSources FramesAreWhole SensorsShowFrame
INVARIANTS TriggerReachable RequestsAreSent
PROPERTIES OccupancyExpires PresenceIsReported TargetsDecay ErrorsAreTrue
