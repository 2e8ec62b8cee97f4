SPECIFICATION EnrichmentSpec
CONSTANTS
  u1 = u1
  u2 = u2
  NamesOf <- MCNamesOf
  Writers = {u1, u2}
  Names = {n1, n2}
  First = n1
  Second = n2
  Jobs = {j1}
  NoId = NoId
  MaxIds = 3
  Missing = Missing
  Asked = {u2}
  SourcesOf <- MCSources
  RowCap = 2
  KeyOrder <- MCKeyOrder
  PageSize = 2
PROPERTIES
  PruneSparesReferenced
  PruneSparesWitnessed
  AnswersAreWhole
  OrphansGo
  StalePairsGo
CHECK_DEADLOCK FALSE
