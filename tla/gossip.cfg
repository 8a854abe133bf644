SPECIFICATION FairSpec
CONSTANTS
  A = A
  B = B
  Node <- MCNode
  NoConn = NoConn
  MaxBeats <- MCMaxBeats
  MaxBreaks = 1
  MaxCrashes = 1
INVARIANTS
  TypeOK
  NoDeadEntries
PROPERTIES
  ConnectReturns
  Relinks
CHECK_DEADLOCK FALSE
