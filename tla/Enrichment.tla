------------------------------ MODULE Enrichment ------------------------------
(***************************************************************************)
(* What is read while the writers and the maintenance jobs of Entities are *)
(* at work.  A recall adds the names of their entities to its units        *)
(* (fetch_entities_for_units), with three searches of three indexes; an    *)
(* observation has the entities of its source units as well.  The profile  *)
(* of a bank counts the links that its entities make (compute_bank_stats), *)
(* with two aggregations that are read page by page, by the last key.      *)
(***************************************************************************)
EXTENDS Entities, FiniteSetsExt

CONSTANTS
  Asked,        \* the units of the recall
  SourcesOf,    \* the source_memory_ids of each, none for a raw fact
  RowCap,       \* the size of a search of rows
  KeyOrder,     \* the place of each uuid in the order of the keys
  PageSize      \* _AGG_PAGE

ASSUME EnrichmentAssumption ==
  /\ Asked \subseteq Writers /\ SourcesOf \in [Asked -> SUBSET Writers]
  /\ RowCap \in Nat /\ PageSize \in Nat \ {0}
  /\ KeyOrder \in [Ids -> Ids]

VARIABLES
  reading,    \* where the reader is
  heirs,      \* the observations that it has found
  found,      \* the entities that it has found
  after,      \* the place of the last key that it has read
  promised    \* history: the rows that its answer should tell

reader == <<reading, heirs, found, after, promised>>
enrichment == <<vars, reader>>

EnrichmentInit ==
  /\ Init
  /\ reading = "idle" /\ heirs = {} /\ found = {} /\ after = 0 /\ promised = {}

Observations == {u \in Asked : SourcesOf[u] # {}}

\* fetch_observation_sources, the first request; a unit goes after its rows
FetchSources ==
  /\ reading = "idle" /\ rows.snap # {}
  /\ heirs' \in {S \in SUBSET Observations : {u \in Observations : pc[u] # "purged"} \subseteq S}
  /\ promised' = {r \in rows.snap : \E u \in Asked : r[1] \in {u} \union SourcesOf[u]}
  /\ reading' = "rows"
  /\ UNCHANGED <<vars, found, after>>

Lookup == Asked \union UNION {SourcesOf[u] : u \in heirs}

\* the entities that the answer gives u: its own and those it inherits
EntitiesOf(u, S) ==
  {r[2] : r \in {q \in S : q[1] = u \/ (u \in heirs /\ q[1] \in SourcesOf[u])}}

\* a row that some unit of the answer should have and has not
Untold(S) ==
  {r \in promised : \E u \in Asked :
     /\ r[1] = u \/ (u \in heirs /\ r[1] \in SourcesOf[u])
     /\ r[2] \notin EntitiesOf(u, S)}

\* one search, of RowCap hits at most, for up to 10000 units
FetchRows ==
  /\ reading = "rows"
  /\ LET hit == {r \in rows.snap : r[1] \in Lookup}
     IN  \E S \in SUBSET hit :
           /\ Cardinality(S) <= RowCap /\ (S = hit \/ Cardinality(S) = RowCap)
           /\ found' = UNION {EntitiesOf(u, S) : u \in Asked}
           /\ promised' = IF S = hit THEN Untold(S) ELSE {}
  /\ reading' = "names"
  /\ heirs' = {}
  /\ UNCHANGED <<vars, after>>

\* an entity that is not found has no name
Nameless == found \ SearchedIds

FetchNames ==
  /\ reading = "names"
  /\ reading' = "idle"
  /\ found' = {} /\ promised' = {}
  /\ UNCHANGED <<vars, heirs, after>>

-----------------------------------------------------------------------------
(* compute_bank_stats: the links of type "entity" *)

BeginCount ==
  /\ reading = "idle"
  /\ promised' = {r \in rows.snap : r[2] \in SearchedIds}
  /\ promised' # {}   \* otherwise there is nothing to leave out
  /\ reading' = "bank"
  /\ UNCHANGED <<vars, heirs, found, after>>

Before(e, keys) == {d \in keys : KeyOrder[d] < KeyOrder[e]}

\* mutant: as many keys are skipped as have been read
FromOffset(keys) == {e \in keys : Cardinality(Before(e, keys)) >= Cardinality(found)}

AfterLast(keys) == {e \in keys : KeyOrder[e] > after}

\* a page of a composite aggregation: its first keys after the last one
Page(keys) ==
  {e \in AfterLast(keys) : Cardinality(Before(e, AfterLast(keys))) < PageSize}

\* the page after an empty one is the first of the next aggregation
Advance(page) == after' = IF page = {} THEN 0 ELSE Max({KeyOrder[e] : e \in page})

Counted ==
  /\ reading' = "idle"
  /\ found' = {} /\ promised' = {}

\* bank_entities
ReadBank ==
  /\ reading = "bank"
  /\ LET page == Page(SearchedIds) IN
       /\ Advance(page)
       /\ IF page = {} /\ found = {} THEN Counted
          ELSE /\ found' = found \union page
               /\ reading' = IF page = {} THEN "links" ELSE "bank"
               /\ UNCHANGED promised
  /\ UNCHANGED <<vars, heirs>>

\* the rows of every bank, from which those of the bank are counted
ReadLinks ==
  /\ reading = "links"
  /\ LET page == Page({r[2] : r \in rows.snap}) IN
       /\ Advance(page)
       /\ IF page = {} THEN Counted
          ELSE /\ promised' = {r \in promised : r[2] \notin page \intersect found}
               /\ UNCHANGED <<reading, found>>
  /\ UNCHANGED <<vars, heirs>>

\* the others go on: what goes while it is read may be left out.  A bound: a
\* count of which nothing is promised any more is not followed to its end.
Counting == reading \in {"bank", "links"}

Meanwhile ==
  /\ Next
  /\ promised' = {r \in promised \intersect rows'.live : Counting => r[2] \in LiveIds'}
  /\ IF Counting /\ promised' = {}
       THEN reading' = "idle" /\ found' = {} /\ after' = 0
       ELSE UNCHANGED <<reading, found, after>>
  /\ UNCHANGED heirs

EnrichmentNext ==
  \/ Meanwhile
  \/ FetchSources \/ FetchRows \/ FetchNames
  \/ BeginCount \/ ReadBank \/ ReadLinks

EnrichmentSpec == EnrichmentInit /\ [][EnrichmentNext]_enrichment /\ Fairness

-----------------------------------------------------------------------------
\* An answer lacks no entity whose row was searchable when the call began and
\* is still there when it ends, unless there were too many rows or the
\* observation was gone; and an entity in it has no name only if it was deleted.
NamesAreWhole ==
  reading = "names" /\ reading' = "idle" => promised = {} /\ Nameless \intersect LiveIds = {}

\* No entity is left out of the count that was searchable with a row when the
\* call began and is still there with that row when it ends, whatever is
\* inserted and deleted before and after the last key in between.
CountsAreWhole ==
  Counting /\ reading' = "idle" =>
    \A r \in promised \intersect rows'.live : r[2] \notin LiveIds'

\* What is read over several searches lacks nothing that was there throughout.
AnswersAreWhole == [][NamesAreWhole /\ CountsAreWhole]_enrichment
=============================================================================
