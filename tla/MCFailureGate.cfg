\* Two threads, both may install; a host and one plugin module.
CONSTANTS
  t1 = t1
  t2 = t2
  t3 = t3
  host = host
  plugin = plugin
  o1 = o1
  o2 = o2
  None = None
  Thread <- TwoThreads
  Installer <- TwoInstallers
  Module <- Modules
  HostModule = host
  Owner <- Owners
  Closed = 4
  MaxDepth = 2
  MaxObject = 1
  LateHandler = FALSE
  ObserverFails = TRUE
SPECIFICATION Spec
SYMMETRY OwnerSymmetry
INVARIANTS
  TypeOK
  GateCountsPins
  OwnersInUseLive
  RestIsConsistent
\* A fatal dispatch never returns: the process may stop there.
CHECK_DEADLOCK FALSE
