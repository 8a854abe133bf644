SPECIFICATION Spec
CONSTANTS
  A = A
  B = B
  Node <- MCNode
  NoConn = NoConn
  MaxBeats <- MCMaxBeats
  MaxBreaks = 1
  MaxCrashes = 0
INVARIANT ConnectedIsListed
CHECK_DEADLOCK FALSE
