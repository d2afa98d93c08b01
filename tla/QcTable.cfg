SPECIFICATION Spec
CONSTANTS
  c1 = c1
  c2 = c2
  b1 = b1
  b2 = b2
  Citation = {c1, c2}
  Text <- RowTexts
  Decision = {"", "rerun", "investigate"}
  Mentions <- Nested
  Batch = {b1, b2}
  Name <- OwnName
  Filter <- AllRows
  MaxSample = 2
  MaxSaves = 2
  MaxFaults = 1
  None = None
  Absent = Absent
INVARIANTS
  ShownIsSaved
  TornIsBackedUp
  ListsBacked
  Reviewable
PROPERTIES
  OnlyStaleWritesUndo
CHECK_DEADLOCK FALSE
