SPECIFICATION VaultSpec
CONSTANTS
  a = a
  b = b
  c = c
  t1 = t1
  t2 = t2
  x = x
  long = long
  Nil = Nil
  Titles = {a, b, c}
  Users = {t1}
  Turns = {t2}
  Texts = {x, long}
  Ragged = {long}
  Bodies <- MCBodies
  Added <- MCAdded
  InitialNotes = {a}
  MaxNotes = 2
  MaxOps = 2
INVARIANTS EdgesFollowBodies EdgesHaveEnds
PROPERTIES EmbeddingsCatchUp
CHECK_DEADLOCK FALSE
