SPECIFICATION Spec
CONSTANTS
  f = f  g = g  ca = ca  cv = cv  bk = bk  cw = cw
  Sessions = {s1,s2}
  Handles = {h1}
  FileKeys = {f}
  CacheKeys = {}
  ConvKeys = {cv}
  BookKeys = {}
  CwdKeys = {}
  Values = {v1,v2}
  Absent = Absent  Marked = Marked  NoSession = NoSession  StoreScope = StoreScope
  CheckoutAttempts = 1
  LandAttempts = 1
  MaxCommits = 3
INVARIANTS EveryNameResolves PlanesStayHome
PROPERTY ImplementsSessionLog
SYMMETRY Symmetry
ACTION_CONSTRAINT OneTagOneEdit
