SPECIFICATION SystemBSpec
CONSTANTS
  DUT_GROUP_B = TRUE
  Registered = {"COMM", "HEARTBEAT"}
  Script <- OneReset
  Tasks = {1}
  Loops = 2
  Readings <- TwoReadings
  Targets <- OneTarget
  CreationMayFail = FALSE
  kWindowSize = 5
  kCoherenceWarmup = 20
INVARIANTS
  SetpointTracked
