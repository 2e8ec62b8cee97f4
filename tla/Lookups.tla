-------------------------------- MODULE Lookups --------------------------------
(***************************************************************************)
(* Two reads of several searches beside the recall, while facts are        *)
(* inserted and units are deleted.  An ingest looks for the neighbours in  *)
(* time of its facts (fetch_unit_dates, fetch_temporal_neighbors).  The    *)
(* expansion of observations (expand_observations) goes from the facts     *)
(* that the seeds were made from, over shared entities, to other facts and *)
(* the observations made from these; then along the links of the seeds.    *)
(* A behaviour has one of them, or a recall.                               *)
(***************************************************************************)
EXTENDS Recall

CONSTANTS
  Facts,              \* by id, which are in order
  Arriving, Leaving,  \* bounds: the facts that are inserted or deleted meanwhile
  EventDate,          \* the event_date of each fact, or NoDate
  FactType,
  NewFacts,           \* the facts of the ingest
  HalfLimits,         \* what half_limit may be
  SeedBatch,          \* msearch_seed_batch
  MadeFrom,           \* the source_memory_ids of each observation
  FactMentions,       \* the entity rows of the facts
  SeedChoices,        \* what the seeds of an expansion may be
  FactsPerEntity      \* its per_entity_limit

ASSUME LookupsAssumption ==
  /\ Facts \subseteq Nat /\ IsFiniteSet(Facts)
  /\ Arriving \subseteq Facts /\ NewFacts \subseteq Facts \ Arriving
  /\ EventDate \in [Facts -> Int \union {NoDate}] /\ \A f \in NewFacts : EventDate[f] # NoDate
  /\ HalfLimits \subseteq Nat /\ SeedBatch \in Nat \ {0} /\ FactsPerEntity \in Nat
  /\ MadeFrom \in [Units -> SUBSET Facts] /\ SeedChoices \subseteq SUBSET OfType
  /\ \A m \in FactMentions : m.unit \in Facts

VARIABLES
  errand,       \* what the behaviour is about
  step,         \* where its read is
  facts,        \* the facts that searches find
  half,         \* half_limit
  lateral,      \* the facts whose date was found and whose neighbours are not
  asked,        \* the scans of a batch that are under way
  scanned,      \* what the first scan of a fact has found
  neighbours,   \* the rows
  seedSources, sourceEntities, connected, observations

timely == <<facts, half, lateral, asked, scanned, neighbours>>
observant == <<seedSources, sourceEntities, connected, observations>>
lookups == <<vars, errand, step, timely, observant>>

Ways == {"backward", "forward"}

LookupsInit ==
  /\ facts = Facts \ Arriving
  /\ lateral = {} /\ asked = {}
  /\ scanned = [f \in NewFacts |-> None] /\ neighbours = [f \in NewFacts |-> None]
  /\ seedSources = {} /\ sourceEntities = {} /\ connected = {} /\ observations = None
  /\ \/ errand = "recall" /\ step = "none" /\ half = 0
     \/ errand = "neighbours" /\ step = "dates" /\ half \in HalfLimits
     \/ errand = "observations" /\ step = "sources" /\ half = 0
  /\ Init

-----------------------------------------------------------------------------
(* The neighbours in time *)

\* fetch_unit_dates: of the facts that can be searched
FetchDates ==
  /\ step = "dates"
  /\ lateral' = NewFacts \intersect facts
  /\ step' = "batch"
  /\ UNCHANGED <<facts, half, asked, scanned, neighbours>>

\* the facts come in any order; there are two scans for each of a batch
NextBatch ==
  /\ step = "batch" /\ asked = {} /\ lateral # {}
  /\ \E batch \in SUBSET lateral :
       /\ Cardinality(batch) = SeedBatch \/ (batch = lateral /\ Cardinality(batch) < SeedBatch)
       /\ asked' = batch \X Ways
       /\ lateral' = lateral \ batch
  /\ UNCHANGED <<step, facts, half, scanned, neighbours>>

\* mutant: what is as old is found both ways
OnEitherSide(f, g, way) ==
  IF way = "backward" THEN EventDate[g] <= EventDate[f] ELSE EventDate[g] >= EventDate[f]

OnSide(f, g, way) ==
  IF way = "backward" THEN EventDate[g] <= EventDate[f] ELSE EventDate[g] > EventDate[f]

Comparable(f, g) == g # f /\ FactType[g] = FactType[f] /\ EventDate[g] # NoDate

Gap(f, g) ==
  IF EventDate[f] < EventDate[g] THEN EventDate[g] - EventDate[f] ELSE EventDate[f] - EventDate[g]

\* a row, by what it is sorted: time_diff_hours, and what is as near comes in the
\* order of the answers
Closeness(f, row) == -(2 * Gap(f, row[1]) + (IF row[2] = "forward" THEN 1 ELSE 0))

ByCloseness(f, found) == [row \in found |-> Closeness(f, row)]

InReach(f, way) == {g \in facts : Comparable(f, g) /\ OnSide(f, g, way)} \X {way}

\* one of the two searches for a fact; when both are answered, their rows are
\* sorted together, and cut again
Scan(f, way) ==
  /\ step = "batch" /\ <<f, way>> \in asked
  /\ asked' = asked \ {<<f, way>>}
  /\ \E answer \in Best(ByCloseness(f, InReach(f, way)), half) :
       IF {f} \X Ways \intersect asked' # {}
         THEN scanned' = [scanned EXCEPT ![f] = answer] /\ UNCHANGED neighbours
         ELSE /\ scanned' = [scanned EXCEPT ![f] = None]
              /\ \E both \in Best(ByCloseness(f, DOMAIN scanned[f] \union DOMAIN answer), half) :
                   neighbours' = [neighbours EXCEPT ![f] = both]
  /\ UNCHANGED <<step, facts, half, lateral>>

InsertFact(f) == f \in Arriving \ facts /\ facts' = facts \union {f}
DeleteFact(f) == f \in Leaving \intersect facts /\ facts' = facts \ {f}

ChangeFacts ==
  /\ \E f \in Facts : InsertFact(f) \/ DeleteFact(f)
  /\ UNCHANGED <<step, half, lateral, asked, scanned, neighbours>>

-----------------------------------------------------------------------------
(* expand_observations *)

\* the links of the seeds are what is left to do
Follow ==
  /\ step' = "links" /\ walk' = "semantic"
  /\ UNCHANGED <<memories, temporal, arm, semScore, causalScore, semRows, causalRows, fan, common,
                 counted, entRows, activation, recall>>

SearchSources ==
  /\ step = "sources"
  /\ seeds' \in SeedChoices
  /\ seedSources' = UNION {MadeFrom[o] : o \in seeds' \intersect alive}
  /\ UNCHANGED <<sourceEntities, connected, observations>>
  /\ IF seedSources' = {} THEN Follow
     ELSE /\ step' = "entities"
          /\ UNCHANGED <<memories, temporal, arm, walk, semScore, causalScore, semRows, causalRows, fan,
                         common, counted, entRows, activation, recall>>

SearchSourceEntities ==
  /\ step = "entities"
  /\ sourceEntities' = {m.entity : m \in {m \in FactMentions : m.unit \in seedSources}}
  /\ step' = "fanout"
  /\ UNCHANGED <<vars, seedSources, connected, observations>>

FactsOf(e) == {m.unit : m \in {m \in FactMentions : m.entity = e}}

\* the last facts of an entity; those of the seeds take places
Fan(e) == {f \in FactsOf(e) : Cardinality({g \in FactsOf(e) : g > f}) < FactsPerEntity}

SearchConnected ==
  /\ step = "fanout"
  /\ connected' = (UNION {Fan(e) : e \in sourceEntities}) \ seedSources
  /\ UNCHANGED <<seedSources, sourceEntities, observations>>
  /\ IF connected' = {} THEN Follow /\ UNCHANGED seeds
     ELSE step' = "observations" /\ UNCHANGED vars

Overlap(o, sources) == Cardinality(MadeFrom[o] \intersect sources)

\* all pages of the scan, sorted by overlap, and cut
ScanObservations ==
  /\ step = "observations"
  /\ observations' \in
       Best([o \in {o \in (alive \intersect OfType) \ seeds : Overlap(o, connected) > 0} |->
               Overlap(o, connected)], allowed)
  /\ Follow
  /\ UNCHANGED <<seeds, seedSources, sourceEntities, connected>>

\* expand_semantic_causal
FollowLinks ==
  /\ step = "links"
  /\ ScanSemantic \/ ScanCausal \/ HydrateSemantic \/ HydrateCausal
  /\ UNCHANGED <<memories, temporal, recall, step, observant>>

-----------------------------------------------------------------------------
Ended ==
  \/ step \in {"none", "raised"}
  \/ step = "batch" /\ asked = {} /\ lateral = {}
  \/ step = "links" /\ walk = "done"

\* whatever raises ends the call without an answer
LookupFails ==
  /\ ~Ended
  /\ step' = "raised"
  /\ UNCHANGED <<vars, errand, timely, observant>>

LookupsNext ==
  \/ /\ errand = "recall" /\ Next
     /\ UNCHANGED <<errand, step, timely, observant>>
  \/ /\ errand = "neighbours"
     /\ FetchDates \/ NextBatch \/ (\E f \in NewFacts, way \in Ways : Scan(f, way)) \/ ChangeFacts
     /\ UNCHANGED <<vars, errand, observant>>
  \/ /\ errand = "observations"
     /\ \/ SearchSources \/ SearchSourceEntities \/ SearchConnected \/ ScanObservations \/ FollowLinks
        \/ Delete /\ UNCHANGED <<step, observant>>
     /\ UNCHANGED <<errand, timely>>
  \/ LookupFails

LookupsSpec == LookupsInit /\ [][LookupsNext]_lookups

-----------------------------------------------------------------------------
\* The type invariant, with that of the recall.
LookupsType ==
  /\ TypeOK
  /\ errand \in {"recall", "neighbours", "observations"}
  /\ step \in {"none", "dates", "batch", "sources", "entities", "fanout", "observations", "links", "raised"}
  /\ facts \subseteq Facts /\ half \in HalfLimits \union {0}
  /\ lateral \subseteq NewFacts /\ asked \subseteq NewFacts \X Ways
  /\ \A f \in NewFacts : DOMAIN scanned[f] \union DOMAIN neighbours[f] \subseteq Facts \X Ways
  /\ seedSources \union connected \subseteq Facts
  /\ DOMAIN observations \subseteq OfType

\* both scans of f have been answered
Sought(f) == step = "batch" /\ f \in facts \ lateral /\ {f} \X Ways \intersect asked = {}

\* The rows of a fact are its nearest in time: no comparable fact that was there
\* throughout is left out for one that is farther away, or for nothing.
NeighboursAreNearest ==
  \A f \in NewFacts :
    LET near == {row[1] : row \in DOMAIN neighbours[f]} IN
      Sought(f) \/ neighbours[f] # None =>
        \A g \in (facts \ Arriving) \ near : Comparable(f, g) =>
          Cardinality(near) = half /\ \A n \in near : Gap(f, n) <= Gap(f, g)

\* the facts that share with those of the seeds an entity that has few
Reached ==
  {f \in Facts \ seedSources :
     \E m \in FactMentions, s \in seedSources :
       {f, s} \subseteq FactsOf(m.entity) /\ Cardinality(FactsOf(m.entity)) <= FactsPerEntity}

\* No observation is left out for one that shares fewer facts with the reach of the
\* seeds, and the seeds themselves are not among the rows.
ObservationsByOverlap ==
  step = "links" =>
    /\ DOMAIN observations \intersect seeds = {}
    /\ \A o \in (alive \intersect OfType) \ (seeds \union DOMAIN observations) :
         \/ Overlap(o, Reached) = 0
         \/ /\ Cardinality(DOMAIN observations) = allowed
            /\ \A v \in DOMAIN observations : observations[v] >= Overlap(o, Reached)

\* What such a read finds over several searches misses nothing that was there
\* throughout, as far as it goes.
LookupsMissNothing == NeighboursAreNearest /\ ObservationsByOverlap
=============================================================================
