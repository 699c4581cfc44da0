SPECIFICATION ClimateSpec
CONSTANTS
  Coldest = 18
  Hottest = 42
  Setpoints = {22, 25, 28}
INVARIANTS
  ReferenceModelAgrees
  PumpIsAlarmed
PROPERTY
  FanMovesSmoothly
