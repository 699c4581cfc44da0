SPECIFICATION SystemASpec
CONSTANTS
  DUT_GROUP_B = FALSE
  Registered = {"SENSOR", "CONTROL_IN"}
  Script <- NoScript
  Tasks = {2, 3}
  Loops = 2
  Readings <- TwoReadings
  Targets <- OneTarget
  CreationMayFail = FALSE
  kWindowSize = 2
  kCoherenceWarmup = 1
PROPERTIES
  OnlyTornReadsCounted
  EveryTornReadCounted
