CONSTANTS
  Fibres = {f1, f2, f3}
  Home = home
  NoFibre = none
  Capacity = 4
  TableWas = {none}
SPECIFICATION PromiseSpec
SYMMETRY Symmetry
INVARIANTS NobodyLost CurrentRuns OnlySuspendedResumed IdleOnlyWhenQuiet TurnsUnlessEnded NoEndMissed
PROPERTY WaitKept
