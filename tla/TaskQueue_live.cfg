SPECIFICATION FairSpec
CONSTANTS
  Workers = {w1, w2}
  Tasks = {1, 2}
  Banks = {b1, b2}
  Types <- MCTypes
  NoWorker = NoWorker
  Missing = Missing
  Consolidation = "consolidation"
  TaskType <- MCTaskType
  TaskBank <- MCTaskBank
  Runnable = {1, 2}
  PoolChoices <- SharedTwo
  Priority <- NoPriority
  CatchAllPriority = 1
  Covers <- NoPriority
  MaxAttempts = 5
  MaxRetries = 1
  Meddled = {}
  FaultKinds = {"timeout", "error", "crash"}
  MaxFaults = 1
  w1 = w1
  w2 = w2
  b1 = b1
  b2 = b2
  p1 = p1
PROPERTIES
  CallReturns
  NoStarvation
  IsLeased
