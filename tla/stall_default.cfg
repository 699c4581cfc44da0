SPECIFICATION DetectorSpec
CONSTANTS
  Monitored = {1, 2}
  timeout_ms = 5000
  period_ms = 400
  MaxPeriods = 24
INVARIANTS
  StallFlagged
CHECK_DEADLOCK FALSE
