SPECIFICATION EndSpec
CONSTANTS
  Names = {n1}
  Callers = {c1,c2}
  NoName = NoName
  MaxWorkers = 1
  AsyncRunner = FALSE
  MaxRuns = 2
PROPERTY CallsReturn
