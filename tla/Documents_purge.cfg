SPECIFICATION Spec
CONSTANTS
  i1 = i1
  i2 = i2
  i3 = i3
  DocumentOf <- MCDocumentOf
  Ingests = {i1, i2, i3}
  NoLink = NoLink
  MaxFaults = 1
  Missing = Missing
INVARIANTS
  PurgeTakesAnswered
  DanglingHadNotReturned
  SoloIngestIsWhole
PROPERTIES
  EndsExistWhenChecked
SYMMETRY Symmetry
CHECK_DEADLOCK FALSE
