\* A thread may enter a handler it fetched before Uninstall; two threads of three
\* install, one over the end of the other's Uninstall.
CONSTANTS
  t1 = t1
  t2 = t2
  t3 = t3
  host = host
  plugin = plugin
  o1 = o1
  o2 = o2
  None = None
  Thread <- ThreeThreads
  Installer <- TwoInstallers
  Module <- Modules
  HostModule = host
  Owner <- Owners
  Closed = 4
  MaxDepth = 1
  MaxObject = 0
  LateHandler = TRUE
  ObserverFails = FALSE
SPECIFICATION Spec
SYMMETRY OwnerSymmetry
INVARIANTS
  ReaderOwnerLive
\* A fatal dispatch never returns: the process may stop there.
CHECK_DEADLOCK FALSE
