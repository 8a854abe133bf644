SPECIFICATION Spec
CONSTANTS
  Node = {A, B}
  Content = {c1, c2}
  NoContent = NoContent
  NoRecord = NoRecord
  Slot = {s1}
  Lane = {l1, l2}
  Syncers = 1
  MaxEdits = 3
  MaxCrashes = 1
  Pausable = {A}
  Reliable = FALSE
  TurnTaking = FALSE
CHECK_DEADLOCK FALSE
SYMMETRY Symmetry
INVARIANTS
  TypeOK
  CausesExist
  ContentUnderItsClock
  ForkedByConflict
PROPERTY PausedStaysAtRest
