CONSTANTS
  Fibres = {f1, f2, f3}
  Home = home
  NoFibre = none
  Capacity = 4
  TableWas = {none}
SPECIFICATION PromiseSpec
INVARIANT TurnsPromise
