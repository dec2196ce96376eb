SPECIFICATION Spec
CONSTANTS
  Syncs = {idle, app}
  Polls = {app}
  Cmds = {click}
  idle = idle
  app = app
  click = click
  Initial = 1
  NewerCap = 2
  OlderCap = 2
  RefreshCap = 1
  StartUid = 1
  MaxUid = 2
  MaxEvents = 1
PROPERTIES CatchesUp FlagsSettle
