\* An application that prepares from the callback of PrepareInteraction's own cancellation.
CONSTANTS
  MaxDepth = 2
  Preparers <- Op
SPECIFICATION Spec
INVARIANTS
  CompositeHasSurface
