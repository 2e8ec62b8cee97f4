SPECIFICATION ReadsSpec
CONSTANTS
  TagsOf <- MCTagsOf
  CreatedAt <- MCCreatedAt
  Groups <- MCGroups
  Depth <- MCDepth
  Requests <- MCRequests
  Served <- MCServed
  Always = Always
  Ranked <- MCRanked
  OfType = {"a", "b", "c", "d", "e", "f"}
  Created = {"a", "b", "c", "d", "e"}
  Tagged = {"a", "b", "c", "e", "f"}
  Similar = {"a", "b", "c", "d", "e", "f"}
  Worded = {"b", "e"}
  LinkChoices <- MCLinks
  MentionChoices <- MCMentions
  Deletable = {"b", "f"}
  DateChoices <- MCDates
  NoDate = NoDate
  Start = 0
  End = 9
  Buckets = 3
  Budgets = {2, 3, 8}
  EntryLimit = 3
  BatchSize = 2
  PerSource = 2
  MaxIterations = 3
  SeedLimit = 2
  PerEntity = 1
  MaxFaults = 2
  Facts = {1, 2, 3, 4, 5, 6, 7}
  Arriving = {5}
  Leaving = {2, 4}
  EventDate <- MCEventDate
  FactType <- MCFactType
  NewFacts = {1, 2, 3}
  HalfLimits = {1, 2, 3}
  SeedBatch = 2
  MadeFrom <- MCMadeFrom
  FactMentions <- MCFactMentions
  SeedChoices <- MCSeeds
  FactsPerEntity = 3
INVARIANTS
  FiltersMean
  LookupsMissNothing
  LookupsType
  WithinBudget
  SlicesAreEven
  FoundAlongLinks
  NothingMissed
  StrongestFound
  RaisesOnlyIfItMust
CHECK_DEADLOCK FALSE
