CONSTANTS
  f1 = f1
  f2 = f2
  f3 = f3
  home = home
  outer = outer
  inner = inner
  bad = bad
  worse = worse
  Fibres = {f1, f2, f3}
  Home = home
  NoFibre = none
  Capacity = 4
  TableWas = {none}
  Groups = {outer, inner}
  StacksOf <- MCStacksOf
  Owner <- MCOwner
  Problems = {bad, worse}
  Reasons <- MCReasons
  NoProblem = fine
SPECIFICATION FairGroupSpec
PROPERTIES ImplementsGroup JoinTerminates
