CONSTANTS
  p1 = p1
  p2 = p2
  w1 = w1
  w2 = w2
  action = action
  create = create
  None = None
  Payload <- TwoPayloads
  Window <- TwoWindows
  Kind <- TwoKinds
  Slots = 2
  WindowSlots = 1
  MaxToken = 3
  MaxLife = 2
  MaxForged = 1
SPECIFICATION Spec
SYMMETRY PayloadSymmetry
INVARIANTS
  OneOwner
  NoEntryOutlivesItsWindow
  NoOrphanedSlot
PROPERTIES
  TransferSpec
CHECK_DEADLOCK FALSE
