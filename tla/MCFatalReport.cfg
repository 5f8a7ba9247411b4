\* Three threads of the host and one without, and the dump thread; a report has
\* two ticks, a contender four, and one tick may be lost to scheduling.
CONSTANTS
  t1 = t1
  t2 = t2
  t3 = t3
  alien = alien
  dump = dump
  Nobody = Nobody
  Thread <- Threads
  Unhosted <- Aliens
  Dumper = dump
  ReportTimeout = 2
  ContenderTimeout = 4
  MaxLag = 1
SPECIFICATION ReportSpec
INVARIANTS
  ReportTypeOK
  OneReporter
  DumpNotCutShort
  FirstFailureWins
PROPERTIES
  EveryFailureEnds
\* The process ends.
CHECK_DEADLOCK FALSE
