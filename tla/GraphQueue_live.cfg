SPECIFICATION FairSpec
CONSTANTS
  Workers = {w1, w2}
  Units = {1, 2}
  Limit = 1
  MaxEnqueues = 3
  FaultKinds = {"timeout", "error", "crash"}
  MaxFaults = 1
  Missing = Missing
INVARIANTS
  AtMostOnce
PROPERTIES
  ImplementsWorkQueue
  NoStarvation
CHECK_DEADLOCK FALSE
