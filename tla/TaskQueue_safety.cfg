SPECIFICATION Spec
CONSTANTS
  Workers = {w1, w2}
  Tasks = {1, 2}
  Banks = {b1, b2}
  Types <- MCTypes
  NoWorker = NoWorker
  Missing = Missing
  Consolidation = "consolidation"
  TaskType <- MCTaskType
  TaskBank <- MCTaskBank
  Runnable = {1, 2}
  PoolChoices <- OneEach
  Priority <- B1First
  CatchAllPriority = 1
  Covers <- B1Covers
  MaxAttempts = 5
  MaxRetries = 1
  Meddled = {1}
  FaultKinds = {"timeout", "error", "crash"}
  MaxFaults = 1
  w1 = w1
  w2 = w2
  b1 = b1
  b2 = b2
  p1 = p1
INVARIANTS
  ExclusiveClaim
  NoOrphan
  LimitsRespected
  SerialAcrossPools
PROPERTIES
  CallAdvances
SYMMETRY WorkerSymmetry
