------------------------------- MODULE Entities -------------------------------
(***************************************************************************)
(* The entities of a bank, the rows that tie memory units to them and the  *)
(* pairs of entities that occur together.  Writers resolve the names of    *)
(* their unit (an insert that ignores conflicts, then a search for those   *)
(* that conflicted) and insert rows; maintenance jobs delete the entities  *)
(* that no row refers to and the pairs that no unit witnesses, from what   *)
(* they can search; units are purged.  The _id of an entity is its name:   *)
(* a name that is pruned and comes back is another entity, with another    *)
(* uuid, under the same _id.                                               *)
(***************************************************************************)
EXTENDS Elastic

CONSTANTS
  Writers,      \* each has one unit
  Names,
  NamesOf,      \* the names in each unit
  Jobs,
  NoId,
  First, Second,  \* the two names whose pair is counted
  MaxIds        \* bound: entities ever inserted

ASSUME EntitiesAssumption ==
  /\ NamesOf \in [Writers -> SUBSET Names]
  /\ First \in Names /\ Second \in Names
  /\ MaxIds \in Nat /\ NoId \notin Nat /\ Missing \notin Nat
  /\ Writers \intersect Jobs = {}

Ids == 1..MaxIds

VARIABLES
  entities,   \* [live, snap]; the document is the uuid
  rows,       \* unit_entities, [live, snap]: <<unit, uuid>>
  pairs,      \* entity_cooccurrences, [live, snap]: <<uuid, uuid>>
  born,       \* the last uuid that was generated
  pc, todo,   \* where a writer is, and the items of its bulk
  got,        \* the uuids it has for its names
  job, hits,  \* where a job is, and what it has in hand
  cache,      \* the units of the entities of a pair, as prune_stale reads them
  awaits,     \* the sequence numbers that a bulk waits for
  shield      \* history: the rows that had returned when a job began

vars == <<entities, rows, pairs, born, pc, todo, got, job, hits, cache, awaits, shield>>
writer == <<born, pc, todo, got>>
maintenance == <<job, hits, cache, shield>>

Actors == Writers \union Jobs
Nothing == [n \in Names |-> 0]
NoUnits == [e \in Ids |-> {}]

Init ==
  /\ entities = [live |-> EmptyIndex(Names), snap |-> EmptyIndex(Names)]
  /\ rows = [live |-> {}, snap |-> {}]
  /\ pairs = [live |-> {}, snap |-> {}]
  /\ born = 0
  /\ pc = [w \in Writers |-> "insert"]
  /\ todo = NamesOf
  /\ got = [w \in Writers |-> [n \in Names |-> NoId]]
  /\ job = [j \in Jobs |-> "idle"]
  /\ hits = [j \in Jobs |-> {}]
  /\ cache = [j \in Jobs |-> NoUnits]
  /\ awaits = [a \in Actors |-> Nothing]
  /\ shield = [j \in Jobs |-> {}]

Goto(w, phase) == pc' = [pc EXCEPT ![w] = phase]
GotoJob(j, phase) == job' = [job EXCEPT ![j] = phase]

LiveIds == {entities.live[n].doc : n \in Names} \ {Missing}
SearchedIds == {entities.snap[n].doc : n \in Names} \ {Missing}

\* a write of the document of a name, for which the bulk of a will wait
WriteEntity(a, n, doc) ==
  /\ entities' = [entities EXCEPT !.live = Put(entities.live, n, doc)]
  /\ awaits' = [awaits EXCEPT ![a][n] = entities.live[n].seq + 1]

\* mutant: refresh=False
AtOnce(a) == TRUE

IsRefreshed(a) == \A n \in Names : Searchable(entities.snap, n, awaits[a][n])

\* mutant: a name without an id goes on
AnyName(ids, n) == TRUE

HasId(ids, n) == ids[n] # NoId

Resolved(w) == {n \in NamesOf[w] : HasId(got[w], n)}

-----------------------------------------------------------------------------
(* A writer *)

\* bulk_insert_entities, item by item: op_type=create, and what conflicts is
\* left out of the result
CreateEntity(w, n) ==
  /\ pc[w] = "insert" /\ n \in todo[w]
  /\ todo' = [todo EXCEPT ![w] = @ \ {n}]
  /\ IF Exists(entities.live, n)
       THEN UNCHANGED <<entities, awaits, born, got>>
       ELSE /\ born < MaxIds
            /\ born' = born + 1
            /\ got' = [got EXCEPT ![w][n] = born']
            /\ WriteEntity(w, n, born')
  /\ UNCHANGED <<rows, pairs, pc, maintenance>>

EntitiesAnswered(w) ==
  /\ pc[w] = "insert" /\ todo[w] = {} /\ IsRefreshed(w)
  /\ Goto(w, "fetch")
  /\ awaits' = [awaits EXCEPT ![w] = Nothing]
  /\ UNCHANGED <<entities, rows, pairs, born, todo, got, maintenance>>

\* fetch_missing_entity_ids: a name whose entity is not searchable yet stays
\* without an id
FetchMissing(w) ==
  /\ pc[w] = "fetch"
  /\ got' = [got EXCEPT ![w] = [n \in Names |->
       IF n \in NamesOf[w] /\ got[w][n] = NoId /\ Exists(entities.snap, n)
         THEN entities.snap[n].doc ELSE got[w][n]]]
  /\ todo' = [todo EXCEPT ![w] = {n \in NamesOf[w] : HasId(got'[w], n)}]
  /\ Goto(w, "row")
  /\ UNCHANGED <<entities, rows, pairs, born, awaits, maintenance>>

\* bulk_insert_unit_entities, item by item
InsertRow(w, n) ==
  /\ pc[w] = "row" /\ n \in todo[w]
  /\ todo' = [todo EXCEPT ![w] = @ \ {n}]
  /\ rows' = [rows EXCEPT !.live = @ \union {<<w, got[w][n]>>}]
  /\ UNCHANGED <<entities, pairs, born, pc, got, awaits, maintenance>>

RowsOf(w) == {<<w, got[w][n]>> : n \in Resolved(w)}

RowsAnswered(w) ==
  /\ pc[w] = "row" /\ todo[w] = {} /\ RowsOf(w) \subseteq rows.snap
  /\ Goto(w, "pair")
  /\ UNCHANGED <<entities, rows, pairs, born, todo, got, awaits, maintenance>>

\* external: the caller counts the pair of two names it has resolved
InsertPair(w) ==
  /\ pc[w] = "pair"
  /\ pairs' = IF {First, Second} \subseteq Resolved(w)
                THEN [pairs EXCEPT !.live = @ \union {<<got[w][First], got[w][Second]>>}]
                ELSE pairs
  /\ Goto(w, "done")
  /\ UNCHANGED <<entities, rows, born, todo, got, awaits, maintenance>>

\* the rows of a unit go with it, in purge_document_units
PurgeRows(w) ==
  /\ pc[w] = "done"
  /\ rows' = [live |-> {r \in rows.live : r[1] # w}, snap |-> {r \in rows.live : r[1] # w}]
  /\ got' = [got EXCEPT ![w] = [n \in Names |-> NoId]]
  /\ Goto(w, "purged")
  /\ UNCHANGED <<entities, pairs, born, todo, awaits, maintenance>>

-----------------------------------------------------------------------------
(* prune_orphan_entities *)

\* history: the rows whose insert has returned
Returned == UNION {RowsOf(w) : w \in {v \in Writers : pc[v] \in {"pair", "done"}}}

ScanEntities(j) ==
  /\ job[j] = "idle" /\ SearchedIds # {}
  /\ hits' = [hits EXCEPT ![j] =
       {<<n, entities.snap[n].doc>> : n \in {m \in Names : Exists(entities.snap, m)}}]
  /\ shield' = [shield EXCEPT ![j] = Returned]
  /\ GotoJob(j, "probe")
  /\ UNCHANGED <<entities, rows, pairs, writer, cache, awaits>>

\* mutant: one reference saves the whole batch
AllIfAny(ids) == {e \in ids : \E d \in ids, u \in Writers : <<u, d>> \in rows.snap}

\* the uuids that rows refer to
Referenced(ids) == {e \in ids : \E u \in Writers : <<u, e>> \in rows.snap}

ProbeRows(j) ==
  /\ job[j] = "probe"
  /\ hits' = [hits EXCEPT ![j] = {h \in @ : h[2] \notin Referenced({k[2] : k \in hits[j]})}]
  /\ GotoJob(j, "delete")
  /\ UNCHANGED <<entities, rows, pairs, writer, cache, awaits, shield>>

\* the bulk, item by item: it deletes what is under the _id now
DeleteEntity(j, n) ==
  /\ job[j] = "delete"
  /\ \E h \in hits[j] : h[1] = n /\ hits' = [hits EXCEPT ![j] = @ \ {h}]
  /\ IF Exists(entities.live, n)
       THEN WriteEntity(j, n, Missing)
       ELSE UNCHANGED <<entities, awaits>>
  /\ UNCHANGED <<rows, pairs, writer, job, cache, shield>>

EntitiesPruned(j) ==
  /\ job[j] = "delete" /\ hits[j] = {} /\ IsRefreshed(j)
  /\ GotoJob(j, "idle")
  /\ shield' = [shield EXCEPT ![j] = {}]
  /\ awaits' = [awaits EXCEPT ![j] = Nothing]
  /\ UNCHANGED <<entities, rows, pairs, writer, hits, cache>>

-----------------------------------------------------------------------------
(* prune_stale_cooccurrences *)

\* a pair belongs to the bank if its first entity does
InBank(pair) == pair[1] \in SearchedIds

\* the entities of the bank, then the pairs
ScanPairs(j) ==
  /\ job[j] = "idle"
  /\ hits' = [hits EXCEPT ![j] = {pair \in pairs.snap : InBank(pair)}]
  /\ hits'[j] # {}
  /\ shield' = [shield EXCEPT ![j] = Returned]
  /\ GotoJob(j, "first")
  /\ UNCHANGED <<entities, rows, pairs, writer, cache, awaits>>

\* mutant: a hit is lost between two pages
AllButOne(e) ==
  LET units == {u \in Writers : <<u, e>> \in rows.snap}
  IN {u \in units : u # CHOOSE v \in units : TRUE}

UnitsOf(e) == {u \in Writers : <<u, e>> \in rows.snap}

ReadUnits(j, side) ==
  cache' = [cache EXCEPT ![j] = [e \in Ids |->
    IF e \in {pair[side] : pair \in hits[j]} THEN UnitsOf(e) ELSE cache[j][e]]]

ReadFirst(j) ==
  /\ job[j] = "first"
  /\ ReadUnits(j, 1)
  /\ GotoJob(j, "second")
  /\ UNCHANGED <<entities, rows, pairs, writer, hits, awaits, shield>>

ReadSecond(j) ==
  /\ job[j] = "second"
  /\ ReadUnits(j, 2)
  /\ GotoJob(j, "stale")
  /\ UNCHANGED <<entities, rows, pairs, writer, hits, awaits, shield>>

\* mutant: one unit that has either entity is enough
EitherUnits(j, pair) == cache[j][pair[1]] \union cache[j][pair[2]]

Witnesses(j, pair) == cache[j][pair[1]] \intersect cache[j][pair[2]]

DeletePairs(j) ==
  /\ job[j] = "stale"
  /\ pairs' = [pairs EXCEPT !.live = @ \ {pair \in hits[j] : Witnesses(j, pair) = {}}]
  /\ GotoJob(j, "idle")
  /\ hits' = [hits EXCEPT ![j] = {}]
  /\ cache' = [cache EXCEPT ![j] = NoUnits]
  /\ shield' = [shield EXCEPT ![j] = {}]
  /\ UNCHANGED <<entities, rows, writer, awaits>>

-----------------------------------------------------------------------------
\* external: Elasticsearch refreshes an index
RefreshEntities ==
  /\ entities.snap # entities.live
  /\ entities' = [entities EXCEPT !.snap = entities.live]
  /\ UNCHANGED <<rows, pairs, writer, awaits, maintenance>>

RefreshRows ==
  /\ rows.snap # rows.live
  /\ rows' = [rows EXCEPT !.snap = rows.live]
  /\ UNCHANGED <<entities, pairs, writer, awaits, maintenance>>

RefreshPairs ==
  /\ pairs.snap # pairs.live
  /\ pairs' = [pairs EXCEPT !.snap = pairs.live]
  /\ UNCHANGED <<entities, rows, writer, awaits, maintenance>>

Refresh == RefreshEntities \/ RefreshRows \/ RefreshPairs

Write(w) ==
  \/ \E n \in Names : CreateEntity(w, n) \/ InsertRow(w, n)
  \/ EntitiesAnswered(w) \/ FetchMissing(w) \/ RowsAnswered(w) \/ InsertPair(w)

PruneOrphans(j) ==
  \/ ScanEntities(j) \/ ProbeRows(j)
  \/ \E n \in Names : DeleteEntity(j, n)
  \/ EntitiesPruned(j)

PruneStale(j) == ScanPairs(j) \/ ReadFirst(j) \/ ReadSecond(j) \/ DeletePairs(j)

Next ==
  \/ \E w \in Writers : Write(w) \/ PurgeRows(w)
  \/ \E j \in Jobs : PruneOrphans(j) \/ PruneStale(j)
  \/ Refresh

Spec == Init /\ [][Next]_vars

\* A bulk ends, an index is refreshed, and both jobs are run again and again.
Fairness ==
  /\ \A w \in Writers : WF_vars(Write(w))
  /\ \A j \in Jobs :
       /\ WF_vars(PruneOrphans(j) /\ job[j] # "idle")
       /\ WF_vars(PruneStale(j) /\ job[j] # "idle")
       /\ SF_vars(ScanEntities(j)) /\ SF_vars(ScanPairs(j))
  /\ WF_vars(RefreshEntities) /\ WF_vars(RefreshRows) /\ WF_vars(RefreshPairs)

FairSpec == Spec /\ Fairness

-----------------------------------------------------------------------------
Index(docs) == [live : SUBSET docs, snap : SUBSET docs]

\* The type invariant.
TypeOK ==
  /\ entities \in [live : [Names -> Copies(Ids)], snap : [Names -> Copies(Ids)]]
  /\ rows \in Index(Writers \X Ids)
  /\ pairs \in Index(Ids \X Ids)
  /\ born \in 0..MaxIds
  /\ pc \in [Writers -> {"insert", "fetch", "row", "pair", "done", "purged"}]
  /\ todo \in [Writers -> SUBSET Names]
  /\ got \in [Writers -> [Names -> Ids \union {NoId}]]
  /\ job \in [Jobs -> {"idle", "probe", "delete", "first", "second", "stale"}]
  /\ hits \in [Jobs -> SUBSET ((Names \union Ids) \X Ids)]
  /\ \A j \in Jobs : IF job[j] \in {"first", "second", "stale"}
                       THEN hits[j] \subseteq Ids \X Ids ELSE hits[j] \subseteq Names \X Ids
  /\ cache \in [Jobs -> [Ids -> SUBSET Writers]]
  /\ awaits \in [Actors -> [Names -> Nat]]
  /\ shield \in [Jobs -> SUBSET (Writers \X Ids)]

\* prune_orphan_entities never deletes an entity that a row referred to whose
\* insert had returned when the job began, unless the row is gone.  (It does
\* delete entities whose rows are inserted while it runs.)
PruneSparesReferenced ==
  [][\A n \in Names :
       /\ Exists(entities.live, n) /\ ~Exists(entities'.live, n)
       => \E j \in Jobs :
            /\ job[j] = "delete" /\ hits'[j] # hits[j]
            /\ \A r \in shield[j] \intersect rows.live : r[2] # entities.live[n].doc]_vars

\* prune_stale_cooccurrences never deletes a pair that a unit witnesses whose
\* rows had returned when the job began, unless the rows are gone.
PruneSparesWitnessed ==
  [][\A pair \in pairs.live \ pairs'.live :
       \E j \in Jobs :
         /\ job[j] = "stale" /\ hits'[j] # hits[j]
         /\ ~\E u \in Writers : /\ {<<u, pair[1]>>, <<u, pair[2]>>} \subseteq rows.live
                                /\ {<<u, pair[1]>>, <<u, pair[2]>>} \subseteq shield[j]]_vars

\* However many orphans the writers leave, again and again there are none: every
\* entity that no row refers to is deleted, or referred to again.
OrphansGo ==
  []<>(\A e \in LiveIds : \E u \in Writers : <<u, e>> \in rows.live)

\* Again and again every pair of entities is witnessed by a unit that has both, or
\* its first entity is gone.
StalePairsGo ==
  []<>(\A p \in pairs.live :
         p[1] \in LiveIds => \E u \in Writers : {<<u, p[1]>>, <<u, p[2]>>} \subseteq rows.live)

\* "Delete cooccurrence rows whose two entities are no longer witnessed together
\* by any unit", be the entities there or not.
CascadeHappens ==
  \A e, f \in Ids :
    ~<>[](/\ <<e, f>> \in pairs.live
          /\ \A u \in Writers : ~({<<u, e>>, <<u, f>>} \subseteq rows.live))
=============================================================================
