SPECIFICATION SupervisedSpec
CONSTANTS
  DUT_GROUP_B = FALSE
  Registered = {"SENSOR", "GPIO", "TASK_DONE"}
  Script <- NoScript
  Tasks = {3, 4}
  Loops = 2
  Readings <- TwoReadings
  Targets <- OneTarget
  CreationMayFail = FALSE
  kWindowSize = 1
  kCoherenceWarmup = 20
  Monitored = {3, 4}
  Temperatures <- BothTemperatures
  timeout_ms = 2000
  period_ms = 1500
  MaxPeriods = 3
INVARIANTS
  DetectorTypeOK
  NoFalseStall
  FinishedIsNotStalled
  StallNoticed
  TimingTypeOK
  CrossingsAccounted
  NoExaggeratedLatency
  AllTracked
PROPERTIES
  FeedsDetector
  FeedsTimingChecker
