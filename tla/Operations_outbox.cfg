SPECIFICATION Spec
CONSTANTS
  Children = {c1, c2}
  Parent = parent
  Writers = {w1, w2}
  w1 = w1
  w2 = w2
  MaxProgress <- MCProgress
  Outcome = outcome
  MaxTries = 2
  Meddling = FALSE
  MaxFaults = 1
  Missing = Missing
INVARIANTS
  CompletedIsAnnounced
CHECK_DEADLOCK FALSE
