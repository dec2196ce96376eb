CONSTANTS
  m1 = m1
  m2 = m2
  Msgs = {m1, m2}
  NoMsg = NoMsg
  MaxAttempts = 2
  Batch = 1
  UndoWindows <- MCUndoWindows
  Delays <- MCDelays
  TimeSteps <- MCTimeSteps
  MaxTime = 2
  MaxFaults = 1
SPECIFICATION FairSpec
INVARIANTS NeverEarly AttemptBudget SentWasAccepted
PROPERTIES SettledRowsRest QueueDrains KeepsPromise
