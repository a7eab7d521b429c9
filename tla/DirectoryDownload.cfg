SPECIFICATION Spec
CONSTANTS
  Calls <- OneCall
  Requests <- ADirectory
  Window = 2
  Backlog = 1
  Faults = {}
  MaxCrashes = 0
  Dirs <- MCDirs
  ExistingDirs = {d}
  Names <- MCNames
  LongPaths = {}
  Accounts = {alice}
  ServerUid = root
  StrayUid = stray
  EmptyUser = empty
  NullUser = null
  NoFile = nofile
  NoClient = noclient
  InFlux = influx
  Preexisting <- MCPreexisting
  OldSize = 2
  DirSize = 1
  c1 = c1
  c2 = c2
  d = d
  x = x
  f = f
  g = g
  root = root
  alice = alice
  mallory = mallory
  empty = empty
  null = null
  stray = stray
  nofile = nofile
  noclient = noclient
  influx = influx
INVARIANTS DataIsData
