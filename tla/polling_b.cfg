SPECIFICATION SystemBSpec
CONSTANTS
  DUT_GROUP_B = TRUE
  Registered = {"COMM", "HEARTBEAT", "TASK_DONE"}
  Script <- TargetThenReset
  Tasks = {1, 4}
  Loops = 2
  Readings <- TwoReadings
  Targets <- OneTarget
  CreationMayFail = TRUE
  kWindowSize = 5
  kCoherenceWarmup = 20
INVARIANTS
  CommandTakenOnce
  NoEmptyCommand
  CommandKeepsUp
PROPERTIES
  RunPhaseEnds
  ImplementsChannel
