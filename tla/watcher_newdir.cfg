SPECIFICATION Spec
CONSTANTS
  Root = Root
  dir = dir
  sub = sub
  doc = doc
  Dir <- MCDir
  File <- MCFile
  Parent <- MCParent
  MaxOps = 2
CHECK_DEADLOCK FALSE
INVARIANT FilesReported
