SPECIFICATION FairSpec
CONSTANTS
  u1 = u1
  u2 = u2
  NamesOf <- MCOneUnit
  Writers = {u1}
  Names = {n1, n2}
  First = n1
  Second = n2
  Jobs = {j1}
  NoId = NoId
  MaxIds = 2
  Missing = Missing
PROPERTIES
  CascadeHappens
CHECK_DEADLOCK FALSE
