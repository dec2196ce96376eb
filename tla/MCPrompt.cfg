\* Two turns in a room of two seeded agents, one edit, one restart; a history
\* of two messages and three units of text.
CONSTANTS
  Agents = {"generalist", "calendar"}
  Room <- MCRoom
  Baseline <- MCBaseline
  CapSets <- MCCapSets
  Lengths = {1, 4}
  MaxMessages = 2
  MaxChars = 3
  MaxIters = 2
  MaxCalls = 2
  MaxTurns = 2
  MaxEdits = 1
  MaxRestarts = 1
SPECIFICATION Spec
INVARIANTS RequestsAreWhole ToolsFollowCapabilities
CHECK_DEADLOCK FALSE
