SPECIFICATION Spec
CONSTANTS
  Calls = {t1,t2}
  Sources = 1
  MaxTurns = 2
  MaxDeliveries = 3
  MaxNotes = 2
SYMMETRY Symmetry
INVARIANTS OnePlace ReadStaysDelivered SettledWasRead
CHECK_DEADLOCK FALSE
