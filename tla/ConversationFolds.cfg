SPECIFICATION QuietSpec
CONSTANTS
  main = main  kid = kid  r1 = r1  r2 = r2  r3 = r3  r4 = r4  r5 = r5
  Sessions = {main}
  First = main
  Earlier <- MCThreeEarlier
  Folded = 1
  Runs = {r1,r2,r3,r4,r5}
  ReadLimits = {9}
  Absent = Absent  NoRun = NoRun  NoOwner = NoOwner
  MaxCommits = 3
  MaxLoops = 1
INVARIANTS EarlierRunsAreTold
SYMMETRY YetToMint
CHECK_DEADLOCK FALSE
