\* A thread may enter a handler it fetched before Uninstall; one thread of three
\* installs, and its Install never fails half way.
CONSTANTS
  t1 = t1
  t2 = t2
  t3 = t3
  host = host
  plugin = plugin
  o1 = o1
  o2 = o2
  None = None
  Thread <- ThreeThreads
  Installer <- OneInstallerThread
  Module <- Modules
  HostModule = host
  Owner <- Owners
  Closed = 4
  MaxDepth = 1
  MaxObject = 0
  LateHandler = TRUE
  ObserverFails = FALSE
SPECIFICATION Spec
SYMMETRY ReaderSymmetry
INVARIANTS
  ReaderOwnerLive
\* A fatal dispatch never returns: the process may stop there.
CHECK_DEADLOCK FALSE
