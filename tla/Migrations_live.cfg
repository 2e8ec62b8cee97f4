SPECIFICATION StartupSpec
CONSTANTS
  Starters = {s1, s2}
  Last = 2
  MaxStarts = 3
  MaxFailures = 1
  FaultKinds = {"timeout", "error", "crash"}
  MaxFaults = 1
  Missing = Missing
  Tables = {t1}
  Moved = t1
  Docs = {d1}
INVARIANTS
  FailureBlocks
  UpIsMigrated
  MoveKeepsDocuments
PROPERTIES
  IsLedger
  StartsEnd
CHECK_DEADLOCK FALSE
