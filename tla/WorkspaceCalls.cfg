SPECIFICATION TidySpec
CONSTANTS
  a = a  h = h
  Paths = {a,h}
  Hidden = {h}
  Mounts = {}
  Attachable = {h}
  Artifact = a
  OpenedAs <- MCOpenedAs
  Scripts <- MCScripts
  NoMachine = NoMachine
  MaxIds = 3
  MaxCommits = 3
  MaxFaults = 2
INVARIANTS GuestIsTheWorkspace ParkedIsItsCommit
PROPERTIES EachCallSettles EarlierWorkIsKept
CHECK_DEADLOCK FALSE
