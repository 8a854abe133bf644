SPECIFICATION FairSpec
CONSTANTS
  d1 = d1
  d2 = d2
  r1 = r1
  r2 = r2
  Dir <- MCDir
  Request <- MCRequest
  Key = {k}
  NoKey = NoKey
  Empty = Empty
  Garbled = Garbled
  First <- MCFirst
  MaxForms = 3
  MaxImports = 2
  MaxCrashes = 1
INVARIANTS
  TypeOK
  FreeTierLimit
  SavedWhenQuiet
  ImportedKeyKept
  WholeAtRest
PROPERTY StopEnds
CHECK_DEADLOCK FALSE
