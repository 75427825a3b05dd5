SPECIFICATION EndSpec
CONSTANTS
  Names = {n1}
  Callers = {c1,c2}
  NoName = NoName
  MaxWorkers = 2
  AsyncRunner = TRUE
  MaxRuns = 2
INVARIANTS TypeOK TakenOnce
PROPERTY BranchesAreFreed
