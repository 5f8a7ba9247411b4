SPECIFICATION Spec
CONSTANTS
  MaxDepth = 2
  MaxChanges = 2
  PostsFail = TRUE
  JustInstalled = TRUE
  EditsOverUnreported = FALSE
INVARIANTS TextStoreTypeOK RestIsSettled
PROPERTIES AnnouncedIsCurrent QueuedLocksAreTaken
CHECK_DEADLOCK FALSE
