CONSTANTS
  cap = cap
  work = work
  dir = dir
  k = k
  int = int
  term = term
  Captures = {cap}
  PrivateRoots = {work}
  Strangers = {dir}
  Files = {}
  Filled = {}
  Nobody = nobody
  NoReplace = TRUE
  MaxMoves = 2
  MaxFaults = 1
  Kin = {k}
  Signals = {int, term}
  NoSignal = none
  Capture = cap
  Workspace = work
  MaxGrace = 1
  MaxFd = 4
  Terminal = {int}
  Inherited = {{}, {int, term}}
  MaxSent = 1
SPECIFICATION Spec
INVARIANTS StreamsReachTool ForeignUntouched StrandedTold RemovedMeansGone OnlyOursSignalled HeardOnce NothingLeftRunning PassedOn DirectoryAccounted
PROPERTY BuildEnds
CHECK_DEADLOCK FALSE
