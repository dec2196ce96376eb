SPECIFICATION Spec
CONSTANTS
  Workspaces = {Default_, w}
  Chats = {main, c}
  Agents = {seeded, a}
  Folders = {f}
  Notes = {n, m}
  Default = Default_
  Main = main
  Seeded = {seeded}
  Links = {l}
  Slots = {s, t}
  MaxCalls = 2
  MaxSwitches = 2
  MaxCrashes = 1
  None = None
SYMMETRY Alike
CHECK_DEADLOCK FALSE
INVARIANTS ReferencesLive NothingLeft OneStays SeedFits SpeakersAreMembers
PROPERTY LinksKept
