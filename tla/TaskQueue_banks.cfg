SPECIFICATION Spec
CONSTANTS
  Workers = {w1}
  Tasks = {1, 2, 3}
  Banks = {b1, b2}
  Types <- MCTypes
  NoWorker = NoWorker
  Missing = Missing
  Consolidation = "consolidation"
  TaskType <- MCTaskType
  TaskBank <- MCTaskBank
  Runnable = {1, 2, 3}
  PoolChoices <- SharedTwo
  Priority <- NoPriority
  CatchAllPriority = 1
  Covers <- NoPriority
  MaxAttempts = 5
  MaxRetries = 0
  Meddled = {}
  FaultKinds = {"timeout", "error", "crash"}
  MaxFaults = 0
  w1 = w1
  w2 = w2
  b1 = b1
  b2 = b2
  p1 = p1
INVARIANTS
  BankSerialized
CHECK_DEADLOCK FALSE
