SPECIFICATION Spec
CONSTANTS
  empty = empty
  old = old
  Chats <- MCChats
  OldMessages <- MCOldMessages
  MaxIters = 2
  MaxCalls = 2
  MaxTurns = 2
  MaxLoads = 2
  MaxFaults = 1
INVARIANTS OwnWords ShownOnce SpinnerEnds LockedByTurn EveryCallAnswered
PROPERTIES StopHolds
CHECK_DEADLOCK FALSE
