CONSTANTS
  Fibres = {f1, f2}
  Home = home
  NoFibre = none
  Capacity = 3
  TableWas = {none}
  Descriptors = {d1}
  NoDescriptor = nod
  Signals = {s1}
  MaxFiles = 2
  Timed = {TRUE, FALSE}
  Callers = {f1, f2}
SYMMETRY Symmetry
SPECIFICATION LoopSpec
INVARIANTS LoopTypeOK ListHoldsWaiters EveryWaiterArmed LoopAnswersRun NobodyWaitsStopped
