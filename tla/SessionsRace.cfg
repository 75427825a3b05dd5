SPECIFICATION RaceSpec
CONSTANTS
  Names = {n1}
  Callers = {c1,c2}
  NoName = NoName
  MaxWorkers = 2
  AsyncRunner = FALSE
  MaxRuns = 3
INVARIANTS OneRunPerBranch AnswersItsOwnTask ToldUnlessDisowned ClosedIsQuiet
PROPERTY KeptIsNeverSwept
SYMMETRY Symmetry
CHECK_DEADLOCK FALSE
