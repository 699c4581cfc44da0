SPECIFICATION GroupBSpec
CONSTANTS
  DUT_GROUP_B = TRUE
  Registered = {}
  Script <- NoScript
  Tasks = {1, 2, 3}
  Loops = 2
  Readings <- OneReading
  Targets <- OneTarget
INVARIANTS
  GroupBTypeOK
  MutualExclusion
  OwnerIsInside
  HolderOwnsMutex
  HolderIsAnother
PROPERTIES
  Termination
  ImplementsAtomic
