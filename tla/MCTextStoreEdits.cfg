SPECIFICATION Spec
CONSTANTS
  MaxDepth = 2
  MaxChanges = 2
  PostsFail = FALSE
  JustInstalled = FALSE
  EditsOverUnreported = TRUE
INVARIANT ChangesAreReported
CHECK_DEADLOCK FALSE
