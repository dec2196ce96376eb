SPECIFICATION EditorSpec
CONSTANTS
  a = a
  b = b
  c = c
  None = None
  Titles = {a, b, c}
  InitialNotes = {a, b}
  MaxNotes = 3
  MaxEdits = 2
  MaxMoves = 2
  MaxEvents = 1
  MaxInAll = 4
INVARIANT OwnText
PROPERTY EditsGetThrough
CHECK_DEADLOCK FALSE
