CONSTANTS
  N = 3
  Problems = {bad, worse}
  NoProblem = fine
  MaxTasks = 4
SPECIFICATION FairSpec
INVARIANTS StackFree LedgerUnraced
PROPERTIES ImplementsGroup CallsReturn
