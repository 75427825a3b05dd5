SPECIFICATION OneSessionSpec
CONSTANTS
  f = f  g = g  ca = ca  cv = cv  bk = bk  cw = cw
  Sessions = {s1}
  Handles = {h1,h2}
  FileKeys = {f}
  CacheKeys = {}
  ConvKeys = {}
  BookKeys = {}
  CwdKeys = {cw}
  Values = {v1,v2}
  Absent = Absent  Marked = Marked  NoSession = NoSession  StoreScope = StoreScope
  CheckoutAttempts = 2
  LandAttempts = 2
  MaxCommits = 3
INVARIANTS HandleOnItsBranch OverwritesOnlyWhatItSaw CheckoutConverges LandsAllOrNothing
PROPERTY ImplementsSessionLog
SYMMETRY Symmetry
