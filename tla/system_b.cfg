SPECIFICATION SystemBSpec
CONSTANTS
  DUT_GROUP_B = TRUE
  Registered = {"SENSOR", "CONTROL_IN", "PWM", "GPIO"}
  Script <- NoScript
  Tasks = {2, 3}
  Loops = 2
  Readings <- TwoReadings
  Targets <- OneTarget
  CreationMayFail = FALSE
  kWindowSize = 2
  kCoherenceWarmup = 0
INVARIANTS
  DutBridgeTypeOK
  NoTornReads
  FanComesFirst
PROPERTIES
  OnlyColdStartRejected
