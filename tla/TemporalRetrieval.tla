-------------------------- MODULE TemporalRetrieval --------------------------
(***************************************************************************)
(* The temporal arm of recall, for one fact type: entry points are chosen  *)
(* from a pool of similar units so that they cover the slices of the time  *)
(* window, and the search then spreads along links, batch by batch, within *)
(* a budget.  Every round asks twice, for links and then for the units     *)
(* they lead to.                                                           *)
(***************************************************************************)
EXTENDS Memories

CONSTANTS
  DateChoices,    \* what the dates of the units may be
  NoDate,
  Start, End,     \* the time window
  Buckets,        \* _TEMPORAL_COVERAGE_BUCKETS
  EntryLimit,     \* _TEMPORAL_ENTRY_POINTS
  BatchSize,      \* batch_size
  PerSource,      \* per_source_limit
  MaxIterations   \* max_iterations

Dates == [start : Int \union {NoDate}, end : Int \union {NoDate}, mentioned : Int \union {NoDate}]

Floor == 100      \* weight >= 0.1
Gate == 200       \* combined_temporal > 0.2

ASSUME TemporalRetrievalAssumption ==
  /\ Start \in Int /\ End \in Int /\ Start <= End
  /\ \A d \in DateChoices : \A u \in Units : d[u] \in Dates
  /\ MaxIterations \in Nat
  /\ Buckets \in Nat \ {0}
  /\ EntryLimit \in Nat \ {0} /\ BatchSize \in Nat \ {0} /\ PerSource \in Nat \ {0}

VARIABLES
  dates,          \* the dates of the units
  pc,
  pool,           \* the units that the search for entry points has found
  entries,
  frontier, visited, results,
  score,          \* node_scores: the temporal score of what is expanded
  budget, iteration,
  hits,           \* the links of this round that are not looked at yet
  rows            \* the units of this round

spreading == <<pool, entries, frontier, visited, results, score, budget, iteration, hits, rows>>
temporal == <<dates, pc, spreading>>

TemporalInit ==
  /\ dates \in DateChoices
  /\ pc = "idle"
  /\ pool = {} /\ entries = <<>>
  /\ frontier = <<>> /\ visited = {} /\ results = <<>>
  /\ score = <<>>
  /\ budget = allowed /\ iteration = 0
  /\ hits = <<>> /\ rows = {}

-----------------------------------------------------------------------------
(* Dates *)

Within(date) == date # NoDate /\ Start <= date /\ date <= End

\* _window_filter: it overlaps the window, or one of its dates is in it
InWindow(d) ==
  \/ d.start # NoDate /\ d.end # NoDate /\ d.start <= End /\ Start <= d.end
  \/ Within(d.mentioned) \/ Within(d.start) \/ Within(d.end)

\* _coalesce_date, for the slices
SliceDate(d) ==
  IF d.start # NoDate THEN d.start ELSE IF d.mentioned # NoDate THEN d.mentioned ELSE d.end

Clamp(i) == IF i < 0 THEN 0 ELSE IF i >= Buckets THEN Buckets - 1 ELSE i

Slice(u) ==
  LET date == SliceDate(dates[u])
  IN IF date = NoDate \/ End <= Start THEN 0
     ELSE Clamp(((date - Start) * Buckets) \div (End - Start))

\* twice the _best_date, for the scores
TwiceBest(d) ==
  IF d.start # NoDate /\ d.end # NoDate THEN d.start + d.end
  ELSE 2 * (IF d.start # NoDate THEN d.start ELSE IF d.end # NoDate THEN d.end ELSE d.mentioned)

\* _proximity to the middle of the window, of a unit that links lead to
Proximity(u) ==
  LET d == dates[u]
      off == TwiceBest(d) - (Start + End)
      far == ((IF off < 0 THEN -off ELSE off) * 1000) \div (End - Start)
  IN IF {d.start, d.end, d.mentioned} = {NoDate} THEN 300
     ELSE IF End = Start THEN 1000
     ELSE IF far > 1000 THEN 0 ELSE 1000 - far

-----------------------------------------------------------------------------
(* _select_with_temporal_coverage *)

\* how many units of its slice come before it
Tier(u) == Cardinality({v \in pool : Slice(v) = Slice(u) /\ Rank(v) < Rank(u)})

\* mutant: plain order of similarity
MoreSimilar(u, v) == Rank(u) < Rank(v)

\* tier by tier, and the most similar first within a tier
Sooner(u, v) == Tier(u) < Tier(v) \/ (Tier(u) = Tier(v) /\ Rank(u) < Rank(v))

\* those that fit are taken in the order of similarity
Before(u, v) ==
  IF Cardinality(pool) <= EntryLimit THEN Rank(u) < Rank(v) ELSE Sooner(u, v)

Selected == FirstInOrder(pool, EntryLimit, Before)

\* the units are few enough for the pool to hold them all
FillPool ==
  /\ pc = "search"
  /\ pool' = {u \in alive \intersect Matching : InWindow(dates[u])}
  /\ pc' = IF pool' = {} THEN "done" ELSE "select"
  /\ UNCHANGED <<dates, entries, frontier, visited, results, score, budget, iteration,
                 hits, rows>>

\* the kNN search of Elasticsearch, or the statement of the other backends
SearchPool == Native /\ FillPool
QueryPool == ~Native /\ FillPool

\* every entry point has the score 1.0 for those it leads to
EnterSelected ==
  /\ pc = "select"
  /\ entries' \in Selected
  /\ results' = entries' /\ frontier' = entries'
  /\ visited' = ToSet(entries')
  /\ score' = [u \in ToSet(entries') |-> 1000]
  /\ budget' = allowed - Len(entries')
  /\ pc' = "spread"
  /\ UNCHANGED <<dates, pool, iteration, hits, rows>>

SelectEntries == Native /\ EnterSelected
SelectRows == ~Native /\ EnterSelected

-----------------------------------------------------------------------------
(* The spreading *)

\* without unnest, the entry points are all there is
Spreads == backend # "oracle"

MoreToDo == frontier # <<>> /\ budget > 0 /\ iteration < MaxIterations /\ Spreads

Batch == FirstOnes(frontier, BatchSize)

\* mutant: the slice begins one further
RestButOne == SubSeq(frontier, BatchSize + 2, Len(frontier))

Rest == SubSeq(frontier, BatchSize + 1, Len(frontier))

\* the links that a unit spreads along, by their positions in the table
LinksOut(u) ==
  {i \in DOMAIN links : /\ links[i].from = u
                        /\ links[i].type \in SpreadTypes /\ links[i].weight >= Floor}

Heaviest(found, n) == {i \in found : Cardinality({j \in found : j < i}) < n}

\* one search for the heaviest links of all the sources of a batch
HeavyLinks(batch) ==
  Heaviest(UNION {LinksOut(u) : u \in ToSet(batch)}, Len(batch) * PerSource * 3)

Source(i) == links[i].from

\* capped per source
LinksPerSource(found) ==
  UNION {Heaviest({i \in found : Source(i) = u}, PerSource) : u \in {Source(i) : i \in found}}

\* put together source by source, which take turns
BySource(found, turn) ==
  LET Earlier(i, j) == turn[Source(i)] < turn[Source(j)] \/ (Source(i) = Source(j) /\ i < j)
  IN FirstInOrder(found, Cardinality(found), Earlier)

\* the sources come in the order of their heaviest links
HeaviestFirst(found) == [u \in {Source(i) : i \in found} |-> Min(LinksOut(u))]

QueryLinks ==
  /\ Native /\ pc = "spread" /\ MoreToDo
  /\ iteration' = iteration + 1
  /\ frontier' = Rest
  /\ LET found == LinksPerSource(HeavyLinks(Batch))
     IN hits' \in BySource(found, HeaviestFirst(found))
  /\ pc' = IF hits' = <<>> THEN "spread" ELSE "hydrate"
  /\ UNCHANGED <<dates, pool, entries, visited, results, score, budget, rows>>

Hydrate ==
  /\ pc = "hydrate"
  /\ rows' = {links[i].to : i \in ToSet(hits)} \intersect alive \intersect Matching
  /\ pc' = "take"
  /\ UNCHANGED <<dates, pool, entries, frontier, visited, results, score, budget,
                 iteration, hits>>

\* a join makes the rows of a round in one statement, with the heaviest links of
\* each source; in which order the sources come it does not say
Joined(batch) ==
  {i \in UNION {Heaviest(LinksOut(u), PerSource) : u \in ToSet(batch)} :
     links[i].to \in alive \intersect OfType \intersect Tagged \intersect Similar}

QueryNeighbors ==
  /\ ~Native /\ pc = "spread" /\ MoreToDo
  /\ iteration' = iteration + 1
  /\ frontier' = Rest
  /\ \E turn \in Bijection(ToSet(Batch), 1..Cardinality(ToSet(Batch))) :
       hits' \in BySource(Joined(Batch), turn)
  /\ rows' = {links[i].to : i \in Joined(Batch)}
  /\ pc' = "take"
  /\ UNCHANGED <<dates, pool, entries, visited, results, score, budget>>

Boost(type) == IF type = "causes" THEN 2000 ELSE IF type = "enables" THEN 1500 ELSE 1000

ParentScore(u) == IF u \in DOMAIN score THEN score[u] ELSE 500

\* the parent's score * weight * boost * 0.7, or the unit's own proximity
Combined(l) ==
  LET propagated == (((ParentScore(l.from) * l.weight) \div 1000) * Boost(l.type) * 7) \div 10000
  IN IF propagated > Proximity(l.to) THEN propagated ELSE Proximity(l.to)

IsNew(u) == u \in rows /\ u \notin visited

\* mutant: the scores of the nodes do not matter
AnyScore(s) == TRUE

LeadsOn(s) == s > Gate

\* mutant: the budget is only looked at between rounds
AnyBudget == TRUE

BudgetLeft == budget > 0

\* mutant: the source is marked instead of the target
MarkSource(l) == visited \union {l.from}

MarkTarget(l) == visited \union {l.to}

\* the unit that a link leads to becomes a result, and goes on if it scores
Discover(l) ==
  /\ visited' = MarkTarget(l)
  /\ results' = Append(results, l.to)
  /\ budget' = budget - 1
  /\ IF budget' > 0 /\ LeadsOn(Combined(l))
       THEN /\ score' = [u \in DOMAIN score \union {l.to} |->
                          IF u = l.to THEN Combined(l) ELSE score[u]]
            /\ frontier' = Append(frontier, l.to)
       ELSE UNCHANGED <<score, frontier>>

FirstHit == links[Head(hits)]

SkipLink == UNCHANGED <<visited, results, budget, score, frontier>>

TakeLink ==
  /\ Native /\ pc = "take" /\ hits # <<>> /\ BudgetLeft
  /\ hits' = Tail(hits)
  /\ IF IsNew(FirstHit.to) THEN Discover(FirstHit) ELSE SkipLink
  /\ UNCHANGED <<dates, pool, pc, entries, iteration, rows>>

\* the budget is looked at after every row that is taken
TakeRow ==
  /\ ~Native /\ pc = "take" /\ hits # <<>>
  /\ IF IsNew(FirstHit.to)
       THEN Discover(FirstHit) /\ hits' = IF budget' > 0 THEN Tail(hits) ELSE <<>>
       ELSE SkipLink /\ hits' = Tail(hits)
  /\ UNCHANGED <<dates, pool, pc, entries, iteration, rows>>

EndRound ==
  /\ pc = "take" /\ (hits = <<>> \/ ~BudgetLeft)
  /\ hits' = <<>> /\ rows' = {}
  /\ pc' = "spread"
  /\ UNCHANGED <<dates, pool, entries, frontier, visited, results, score, budget,
                 iteration>>

Finish ==
  /\ pc = "spread" /\ ~MoreToDo
  /\ pc' = "done"
  /\ UNCHANGED <<dates, spreading>>

TemporalNext ==
  \/ SearchPool \/ QueryPool \/ SelectEntries \/ SelectRows
  \/ QueryLinks \/ Hydrate \/ QueryNeighbors
  \/ TakeLink \/ TakeRow \/ EndRound \/ Finish

-----------------------------------------------------------------------------
TemporalType ==
  /\ dates \in DateChoices
  /\ pool \subseteq Units
  /\ pc \in {"idle", "search", "select", "spread", "hydrate", "take", "done"}
  /\ \A ids \in {entries, frontier, results} : ToSet(ids) \subseteq Units
  /\ visited \subseteq Units /\ rows \subseteq Units
  /\ ToSet(frontier) \subseteq DOMAIN score /\ DOMAIN score \subseteq visited
  /\ \A u \in DOMAIN score : score[u] \in Nat
  /\ budget \in Int /\ iteration \in 0..MaxIterations
  /\ ToSet(hits) \subseteq DOMAIN links

\* No unit is returned twice, and never more than the budget allows, unless the
\* entry points alone are more.
WithinBudget ==
  /\ Len(results) <= IF Len(entries) > allowed THEN Len(entries) ELSE allowed
  /\ IsInjective(results)

\* No slice of the window has two entry points more than another one, unless
\* the other has no more units to give; and the most similar of a slice go first.
SlicesAreEven ==
  pc \notin {"idle", "search", "select"} /\ Cardinality(pool) > EntryLimit =>
    \A u \in pool \ ToSet(entries), v \in ToSet(entries) :
      LET Chosen(w) == Cardinality({e \in ToSet(entries) : Slice(e) = Slice(w)})
      IN /\ Chosen(v) <= Chosen(u) + 1
         /\ Slice(u) = Slice(v) => Rank(v) < Rank(u)

\* What is found but was no entry point is linked from something found before
\* it whose score leads on.
FoundAlongLinks ==
  \A i \in Len(entries) + 1..Len(results) :
    \E j \in 1..i - 1 :
      /\ \E l \in LinksOut(results[j]) : links[l].to = results[i]
      /\ results[j] \in DOMAIN score /\ score[results[j]] > Gate

\* "top-10 per source", but on Elasticsearch a batch shares one search: heavier
\* links of the units that the source of l is batched with may take every place.
Crowded(l) ==
  /\ Native
  /\ \E others \in SUBSET (visited \ {Source(l)}) :
       /\ Cardinality(others) < BatchSize
       /\ Cardinality({k \in UNION {LinksOut(u) : u \in others} : k < l})
            + PerSource > (Cardinality(others) + 1) * PerSource * 3

\* When the spreading ends with budget and rounds to spare, it has found every
\* unit, if it is still there, that one of the heaviest links of an expanded
\* unit leads to, whatever was batched with it, unless those had more than twice
\* the links that they may have.
NothingMissed ==
  pc = "done" /\ budget > 0 /\ iteration < MaxIterations /\ Spreads =>
    \A u \in DOMAIN score : \A l \in Heaviest(LinksOut(u), PerSource) :
      links[l].to \in alive \intersect Matching => links[l].to \in visited \/ Crowded(l)
=============================================================================
