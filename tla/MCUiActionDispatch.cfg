CONSTANTS
  c1 = c1
  c2 = c2
  w1 = w1
  action = action
  None = None
  Payload <- Callers
  Window <- OneWindow
  Kind <- Actions
  Slots = 2
  WindowSlots = 2
  MaxToken = 4
  MaxLife = 2
  MaxForged = 0
SPECIFICATION DSpec
INVARIANTS
  DTypeOK
  AbandonedNeverRuns
  AnswerIsTrue
  NoSlotAfterReturn
PROPERTIES
  ReadsAfterLastWrite
  EveryCallReturns
CHECK_DEADLOCK FALSE
