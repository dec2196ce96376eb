SPECIFICATION Spec
CONSTANTS
  a = a
  b = b
  c = c
  d = d
  m1 = m1
  m2 = m2
  m3 = m3
  None = None
  Msgs = {m1, m2, m3}
  Ids = {a, b, c, d}
  Mailboxes <- MCMailboxes
  MaxBatches = 2
INVARIANTS NoLoop OrderIndependent ThreadsAreConversations
CHECK_DEADLOCK FALSE
