SPECIFICATION Spec
CONSTANTS
  Node = {A, B}
  Content = {c1, c2}
  NoContent = NoContent
  NoRecord = NoRecord
  Slot = {s1}
  Lane = {l1}
  Syncers = 1
  MaxEdits = 2
  MaxCrashes = 0
  Pausable = {}
  Reliable = TRUE
  TurnTaking = FALSE
CHECK_DEADLOCK FALSE
INVARIANT EqualClocksEqualContent
