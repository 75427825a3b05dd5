SPECIFICATION Spec
CONSTANTS
  Callers = {c1,c2,c3}
  Workers = {w1,w2,w3}
  Views = {v1}
  Size = 2
  MaxReleases = 3
  NoWorker = NoWorker
INVARIANTS OneHolder SlotsAreCounted
PROPERTIES PooledWorkersEnd
CHECK_DEADLOCK FALSE
CONSTANT MaxDead = 1
