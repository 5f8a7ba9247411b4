CONSTANTS
  p1 = p1
  p2 = p2
  p3 = p3
  w1 = w1
  create = create
  t1 = t1
  t2 = t2
  q1 = q1
  q2 = q2
  q3 = q3
  None = None
  Payload <- ThreeCalls
  Window <- OneWindow
  Kind <- OneKind
  Target <- TwoTargets
  Provider <- ThreeProviders
  Slots = 1
  WindowSlots = 1
  MaxToken = 3
  MaxLife = 1
  MaxForged = 0
  MaxNested = 2
SPECIFICATION CreationSpec
SYMMETRY CreationSymmetry
INVARIANTS
  CreationTypeOK
  RefsAreHeld
  RestIsEmpty
  RetiredRootsAreDisconnected
CHECK_DEADLOCK FALSE
