SPECIFICATION Spec
CONSTANTS
  Syncs = {idle, app}
  Polls = {}
  Cmds = {click}
  idle = idle
  app = app
  click = click
  Initial = 1
  NewerCap = 2
  OlderCap = 1
  RefreshCap = 1
  StartUid = 1
  MaxUid = 4
  MaxEvents = 1
INVARIANTS TornOnlyWhileRewritten NoGap
SYMMETRY Alike
