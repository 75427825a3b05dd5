SPECIFICATION Spec
CONSTANTS
  main = main  kid = kid  r1 = r1  r2 = r2  r3 = r3  r4 = r4  r5 = r5
  Sessions = {main,kid}
  First = main
  Earlier <- MCEarlier
  Folded = 1
  Runs = {r1,r2,r3}
  ReadLimits = {1}
  Absent = Absent  NoRun = NoRun  NoOwner = NoOwner
  MaxCommits = 3
  MaxLoops = 1
INVARIANTS OneSessionPerBranch IndexNamesWhatIsStored
PROPERTIES LoopAddsItsRun LandsWithItsRun
CHECK_DEADLOCK FALSE
