SPECIFICATION RaceSpec
CONSTANTS
  mine = mine  other = other  p = p  q = q  v1 = v1  v2 = v2  peer = peer
  Handles = {mine,other}
  Paths = {p,q}
  Contents = {v1,v2}
  Absent = Absent  Marked = Marked  NoSource = NoSource
  Sources = {peer}
  SourceBase <- MCSourceBase
  SourceTree <- MCSourceTree
  Forked = TRUE
  MaxCommits = 6
  MaxStashes = 1
PROPERTIES LeftOutStaysOut WorkIsKept CheckoutAllOrNothing MarkersOutlastTheCommit
CHECK_DEADLOCK FALSE
