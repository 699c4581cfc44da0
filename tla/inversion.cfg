SPECIFICATION InversionSpec
CONSTANTS
  DUT_GROUP_B = TRUE
  Registered = {"MUTEX_WAIT"}
  Script <- NoScript
  Tasks = {0, 3, 4}
  Loops = 1
  Readings <- OneReading
  Targets <- OneTarget
  Waits = {51}
  wait_threshold_ms = 50
PROPERTIES
  BlamedTaskUsesMutex
