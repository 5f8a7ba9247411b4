\* Three operations deep: whatever callbacks do, in any order.
CONSTANTS
  MaxDepth = 3
  Preparers <- Cautious
SPECIFICATION Spec
VIEW Behaviour
INVARIANTS
  TypeOK
  SurfaceIsAsShown
  StaleIsAnnounced
  NoWakeInsidePreparation
  RestIsIdle
PROPERTIES
  RetiredTouchNothing
