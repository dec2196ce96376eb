SPECIFICATION Spec
CONSTANTS
  Emails = {ann}
  Logins = {dialog, other}
  Removals = {remove}
  Callers = {outbox}
  ann = ann
  dialog = dialog
  other = other
  remove = remove
  outbox = outbox
  MaxLogins = 2
  MaxFaults = 1
INVARIANTS NoDanglingRow OrphansKnown EveryAccountWatched
CHECK_DEADLOCK FALSE
