SPECIFICATION FairSpec
CONSTANTS
  Root = Root
  dir = dir
  sub = sub
  doc = doc
  Dir <- MCDir
  File <- MCFile
  Parent <- MCParent
  MaxOps = 4
INVARIANTS
  TypeOK
  NewestNotStopped
  NewDirsWatched
PROPERTIES
  AlwaysSettles
  KeepsPromise
CHECK_DEADLOCK FALSE
