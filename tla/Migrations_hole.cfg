SPECIFICATION Spec
CONSTANTS
  Starters = {s1, s2}
  Last = 2
  MaxStarts = 4
  MaxFailures = 2
  FaultKinds = {"timeout", "error", "crash"}
  MaxFaults = 0
  Missing = Missing
INVARIANTS
  NoHole
SYMMETRY StarterSymmetry
CHECK_DEADLOCK FALSE
