SPECIFICATION SystemASpec
CONSTANTS
  DUT_GROUP_B = FALSE
  Registered = {"LOG", "TASK_DONE", "COMM", "HEARTBEAT"}
  Script <- TargetThenReset
  Tasks = {0, 1}
  Loops = 2
  Readings <- TwoReadings
  Targets <- OneTarget
  CreationMayFail = TRUE
  kWindowSize = 2
  kCoherenceWarmup = 0
INVARIANTS
  NothingLeftBehind
PROPERTIES
  SetpointFollowed
