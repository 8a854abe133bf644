SPECIFICATION FairSpec
CONSTANTS
  Node = {A, B, C}
  Content = {c1, c2}
  NoContent = NoContent
  NoRecord = NoRecord
  Slot = {s1}
  Lane = {l1}
  Syncers = 2
  MaxEdits = 3
  MaxCrashes = 0
  Pausable = {}
  Reliable = TRUE
  TurnTaking = TRUE
CHECK_DEADLOCK FALSE
INVARIANTS
  QuiescentConverged
  TombstoneReachesDisk
PROPERTY AlwaysSettles
