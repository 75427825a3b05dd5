SPECIFICATION RaceSpec
CONSTANTS
  page = page  api = api  log = log  head1 = head1  head2 = head2
  Clients = {c1,c2}
  Nobody = Nobody  NoMeta = NoMeta  NoName = NoName  NoSource = NoSource
  Names = {app}
  MaxVersion = 2
  MaxCommits = 2
  Sources = {head1,head2}
  Files = {page,api,log}
  Metas = {m1}
  Tree <- MCTree
  Requests <- MCRequests
SYMMETRY Symmetry
INVARIANTS ListedIsItsCommit StrandedCanBeCleared
PROPERTIES RowsLeaveByUnpublish ServesOnlyListed
