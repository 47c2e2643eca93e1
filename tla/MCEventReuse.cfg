CONSTANTS
  Fibres = {f1, f2}
  Home = home
  NoFibre = none
  Capacity = 3
  TableWas = {none}
  Descriptors = {d1}
  NoDescriptor = nod
  Signals = {}
  MaxFiles = 2
  Timed = {FALSE}
  Callers = {f1, f2}
SYMMETRY Symmetry
SPECIFICATION LoopSpec
PROPERTY CallKeepsItsFile
