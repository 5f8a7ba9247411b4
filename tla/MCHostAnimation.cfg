\* Two hosts; no symmetry because of the liveness property.
CONSTANTS
  h1 = h1
  h2 = h2
  NoFrame = NoFrame
  Context <- TwoHosts
  MaxId = 3
  MaxRevision = 2
SPECIFICATION Spec
INVARIANTS
  TypeOK
  HostsOwnTheirEntries
  HiddenIsNeverCalled
  TimerMatchesSubscriptions
  WantedIsNotLost
PROPERTIES
  EverySubscriberIsTicked
CHECK_DEADLOCK FALSE
