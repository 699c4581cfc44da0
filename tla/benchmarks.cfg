SPECIFICATION Spec
CONSTANTS
  Threads = {t1, t2, t3}
  Main = main
  uncontended_ops = 4
  contended_ops = 3
  NOBODY = nobody
INVARIANTS
  ProtectedIsExact
  LossIsBounded
  OnlySharingLoses
PROPERTIES
  BenchmarksEnd
