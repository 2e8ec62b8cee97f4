SPECIFICATION WebhooksSpec
CONSTANTS
  Children = {c1, c2}
  Parent = parent
  Writers = {w1, w2}
  w1 = w1
  w2 = w2
  MaxProgress <- MCProgress
  Outcome = outcome
  MaxTries = 2
  Meddling = TRUE
  MaxFaults = 1
  Missing = Missing
  Hooks = {h1, h2}
  h1 = h1
  h2 = h2
  BankOf <- MCBanks
  Admins = {a1, a2}
  MaxEdits = 2
  Times = {1, 2}
  Limit = 1
  MaxListings = 1
INVARIANTS
  VerdictIsRight
  LastOneDecides
  ListsMissOnlyTies
PROPERTIES
  IsJoin
  MergeKeepsRead
  DispatchHearsAnswers
SYMMETRY BothSymmetry
CHECK_DEADLOCK FALSE
