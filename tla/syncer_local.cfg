SPECIFICATION Spec
CONSTANTS
  Node = {A}
  Content = {c1, c2}
  NoContent = NoContent
  NoRecord = NoRecord
  Slot = {s1, s2}
  Lane = {l1}
  Syncers = 1
  MaxEdits = 6
  MaxCrashes = 0
  Pausable = {}
  Reliable = TRUE
  TurnTaking = FALSE
CHECK_DEADLOCK FALSE
PROPERTY RecordMatchesFile
