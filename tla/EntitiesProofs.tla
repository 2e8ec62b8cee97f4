---------------------------- MODULE EntitiesProofs ----------------------------
(***************************************************************************)
(* Entities for every number of writers, names, jobs and uuids; and        *)
(* Enrichment, whose readers change nothing of them.                       *)
(*                                                                         *)
(* An uuid is born once, belongs to one name, and is what a resolved name  *)
(* got, as it can be searched (IdsInv). A row whose insert has returned    *)
(* can be searched until it is gone, and its entity with it (HeldInv), so  *)
(* the batch that a job is about to delete has none of it left             *)
(* (SparesInv). Readers that page by key have passed, or are still to come *)
(* to, what they promised (ToldInv).                                       *)
(***************************************************************************)
EXTENDS Enrichment, ElasticProofs, FiniteSetTheorems, WellFoundedInduction

\* a writer at its rows inserts those of names that have an id
RowsHaveIds == \A w \in Writers : pc[w] = "row" => todo[w] \subseteq Resolved(w)

TypeInv == TypeOK /\ RowsHaveIds

\* A write of an entity keeps its index what it is.
LEMMA WriteEntityType ==
  ASSUME TypeOK, NEW a \in Actors, NEW n \in Names, NEW doc \in Ids \union {Missing},
         WriteEntity(a, n, doc)
  PROVE  /\ entities' \in [live : [Names -> Copies(Ids)], snap : [Names -> Copies(Ids)]]
         /\ awaits' \in [Actors -> [Names -> Nat]]
<1>1. Put(entities.live, n, doc) \in [Names -> Copies(Ids)]
  BY PutType DEF TypeOK
<1>2. entities.live[n].seq + 1 \in Nat
  BY DEF TypeOK, Copies
<1> QED BY <1>1, <1>2 DEF WriteEntity, TypeOK

LEMMA RowsOfType ==
  ASSUME TypeOK, NEW w \in Writers
  PROVE  Resolved(w) \subseteq Names /\ RowsOf(w) \subseteq Writers \X Ids
BY EntitiesAssumption DEF TypeOK, RowsOf, Resolved, HasId

LEMMA ReturnedType == ASSUME TypeOK PROVE Returned \subseteq Writers \X Ids
BY RowsOfType DEF Returned

\* The types are preserved by writers, jobs and the server.
LEMMA EntitiesTypeInv == Spec => []TypeInv
<1> USE EntitiesAssumption DEF TypeInv
<1>1. Init => TypeInv
  BY DEF Init, TypeOK, RowsHaveIds, Index, EmptyIndex, Copies, Nothing, NoUnits, Actors, Ids
<1>2. TypeInv /\ [Next]_vars => TypeInv'
  <2> SUFFICES ASSUME TypeInv, [Next]_vars PROVE TypeInv'
    OBVIOUS
  <2> USE DEF Goto, GotoJob, writer, maintenance
  <2>1. ASSUME NEW w \in Writers, NEW n \in Names, CreateEntity(w, n) PROVE TypeInv'
    <3>1. RowsHaveIds'
      BY <2>1 DEF CreateEntity, RowsHaveIds, Resolved, HasId, TypeOK
    <3>2. CASE Exists(entities.live, n)
      BY <2>1, <3>1, <3>2 DEF CreateEntity, TypeOK
    <3>3. CASE ~Exists(entities.live, n)
      <4>1. born + 1 \in Ids /\ born + 1 \in 0..MaxIds
        BY <2>1, <3>3 DEF CreateEntity, TypeOK, Ids
      <4>2. WriteEntity(w, n, born + 1)
        BY <2>1, <3>3 DEF CreateEntity
      <4>3. /\ entities' \in [live : [Names -> Copies(Ids)], snap : [Names -> Copies(Ids)]]
            /\ awaits' \in [Actors -> [Names -> Nat]]
        BY <4>1, <4>2, WriteEntityType DEF Actors
      <4>4. /\ born' = born + 1 /\ got' = [got EXCEPT ![w][n] = born + 1]
            /\ todo' = [todo EXCEPT ![w] = @ \ {n}]
            /\ UNCHANGED <<rows, pairs, pc, maintenance>>
        BY <2>1, <3>3 DEF CreateEntity
      <4>5. got' \in [Writers -> [Names -> Ids \union {NoId}]]
        BY <4>1, <4>4 DEF TypeOK
      <4> QED BY <3>1, <4>1, <4>3, <4>4, <4>5 DEF TypeOK
    <3> QED BY <3>2, <3>3
  <2>2. ASSUME NEW w \in Writers, EntitiesAnswered(w) PROVE TypeInv'
    <3>1. Nothing \in [Names -> Nat]
      BY DEF Nothing
    <3> QED BY <2>2, <3>1 DEF EntitiesAnswered, TypeOK, RowsHaveIds, Resolved, HasId
  <2>3. ASSUME NEW w \in Writers, FetchMissing(w) PROVE TypeInv'
    <3> DEFINE ids == [n \in Names |->
                 IF n \in NamesOf[w] /\ got[w][n] = NoId /\ Exists(entities.snap, n)
                   THEN entities.snap[n].doc ELSE got[w][n]]
    <3>1. ids \in [Names -> Ids \union {NoId}]
      BY DEF TypeOK, Exists, Copies
    <3> HIDE DEF ids
    <3>2. /\ got' = [got EXCEPT ![w] = ids]
          /\ todo' = [todo EXCEPT ![w] = {n \in NamesOf[w] : HasId(got'[w], n)}]
          /\ pc' = [pc EXCEPT ![w] = "row"]
          /\ UNCHANGED <<entities, rows, pairs, born, awaits, maintenance>>
      BY <2>3 DEF FetchMissing, ids
    <3>3. todo'[w] \subseteq Names /\ todo'[w] = {n \in NamesOf[w] : HasId(got'[w], n)}
      BY <3>2 DEF TypeOK
    <3>4. TypeOK'
      BY <3>1, <3>2, <3>3 DEF TypeOK
    <3>5. RowsHaveIds'
      BY <3>2, <3>3 DEF RowsHaveIds, Resolved, TypeOK
    <3> QED BY <3>4, <3>5
  <2>4. ASSUME NEW w \in Writers, NEW n \in Names, InsertRow(w, n) PROVE TypeInv'
    <3>1. got[w][n] \in Ids
      BY <2>4 DEF InsertRow, TypeOK, RowsHaveIds, Resolved, HasId
    <3> DEFINE more == rows.live \union {<<w, got[w][n]>>}
    <3>2. rows' \in Index(Writers \X Ids)
      <4>1. more \subseteq Writers \X Ids
        BY <3>1 DEF TypeOK, Index
      <4>2. rows' = [rows EXCEPT !.live = more]
        BY <2>4 DEF InsertRow
      <4> HIDE DEF more
      <4> QED BY <4>1, <4>2 DEF TypeOK, Index
    <3>3. RowsHaveIds'
      BY <2>4 DEF InsertRow, TypeOK, RowsHaveIds, Resolved, HasId
    <3> QED BY <2>4, <3>2, <3>3 DEF InsertRow, TypeOK
  <2>5. ASSUME NEW w \in Writers, RowsAnswered(w) PROVE TypeInv'
    BY <2>5 DEF RowsAnswered, TypeOK, RowsHaveIds, Resolved, HasId
  <2>6. ASSUME NEW w \in Writers, InsertPair(w) PROVE TypeInv'
    <3>1. {First, Second} \subseteq Resolved(w) => <<got[w][First], got[w][Second]>> \in Ids \X Ids
      BY DEF TypeOK, Resolved, HasId
    <3> QED BY <2>6, <3>1 DEF InsertPair, TypeOK, RowsHaveIds, Resolved, HasId, Index
  <2>7. ASSUME NEW w \in Writers, PurgeRows(w) PROVE TypeInv'
    BY <2>7 DEF PurgeRows, TypeOK, RowsHaveIds, Resolved, HasId, Index
  <2> USE DEF RowsHaveIds, Resolved, HasId
  <2>8. ASSUME NEW j \in Jobs, ScanEntities(j) PROVE TypeInv'
    <3>1. {<<n, entities.snap[n].doc>> : n \in {m \in Names : Exists(entities.snap, m)}} \subseteq Names \X Ids
      BY DEF TypeOK, Exists, Copies
    <3> QED BY <2>8, <3>1, ReturnedType DEF ScanEntities, TypeOK
  <2>9. ASSUME NEW j \in Jobs, ProbeRows(j) PROVE TypeInv'
    BY <2>9 DEF ProbeRows, TypeOK
  <2>10. ASSUME NEW j \in Jobs, NEW n \in Names, DeleteEntity(j, n) PROVE TypeInv'
    <3>1. /\ entities' \in [live : [Names -> Copies(Ids)], snap : [Names -> Copies(Ids)]]
          /\ awaits' \in [Actors -> [Names -> Nat]]
      <4>1. CASE Exists(entities.live, n)
        BY <2>10, <4>1, WriteEntityType DEF DeleteEntity, Actors
      <4>2. CASE ~Exists(entities.live, n)
        BY <2>10, <4>2 DEF DeleteEntity, TypeOK
      <4> QED BY <4>1, <4>2
    <3> QED BY <2>10, <3>1 DEF DeleteEntity, TypeOK
  <2>11. ASSUME NEW j \in Jobs, EntitiesPruned(j) PROVE TypeInv'
    <3>1. Nothing \in [Names -> Nat]
      BY DEF Nothing
    <3> QED BY <2>11, <3>1 DEF EntitiesPruned, TypeOK
  <2>12. ASSUME NEW j \in Jobs, ScanPairs(j) PROVE TypeInv'
    <3>1. {pair \in pairs.snap : InBank(pair)} \subseteq Ids \X Ids
      BY DEF TypeOK, Index
    <3> QED BY <2>12, <3>1, ReturnedType DEF ScanPairs, TypeOK
  <2>13. ASSUME NEW j \in Jobs, NEW side, ReadUnits(j, side) PROVE cache' \in [Jobs -> [Ids -> SUBSET Writers]]
    BY <2>13 DEF ReadUnits, UnitsOf, TypeOK
  <2>14. ASSUME NEW j \in Jobs, ReadFirst(j) PROVE TypeInv'
    <3>1. cache' \in [Jobs -> [Ids -> SUBSET Writers]]
      BY <2>13, <2>14 DEF ReadFirst
    <3> QED BY <2>14, <3>1 DEF ReadFirst, TypeOK
  <2>15. ASSUME NEW j \in Jobs, ReadSecond(j) PROVE TypeInv'
    <3>1. cache' \in [Jobs -> [Ids -> SUBSET Writers]]
      BY <2>13, <2>15 DEF ReadSecond
    <3> QED BY <2>15, <3>1 DEF ReadSecond, TypeOK
  <2>16. ASSUME NEW j \in Jobs, DeletePairs(j) PROVE TypeInv'
    <3>1. pairs' \in Index(Ids \X Ids)
      BY <2>16 DEF DeletePairs, TypeOK, Index
    <3>2. NoUnits \in [Ids -> SUBSET Writers]
      BY DEF NoUnits
    <3> QED BY <2>16, <3>1, <3>2 DEF DeletePairs, TypeOK
  <2>17. CASE Refresh
    BY <2>17 DEF Refresh, RefreshEntities, RefreshRows, RefreshPairs, TypeOK, Index
  <2>18. CASE UNCHANGED vars
    BY <2>18 DEF vars, TypeOK
  <2> QED
    BY <2>1, <2>2, <2>3, <2>4, <2>5, <2>6, <2>7, <2>8, <2>9, <2>10, <2>11, <2>12, <2>14, <2>15,
       <2>16, <2>17, <2>18 DEF Next, Write, PruneOrphans, PruneStale
<1> QED BY <1>1, <1>2, PTL DEF Spec

\* Every variable of the entities keeps its type: a row and a pair only ever have
\* uuids of entities that were inserted.
THEOREM EntitiesType == Spec => []TypeOK
<1>1. TypeInv => TypeOK
  BY DEF TypeInv
<1> QED BY <1>1, EntitiesTypeInv, PTL

-----------------------------------------------------------------------------
(* What a writer knows of an entity: the uuid it has got is that of no     *)
(* other name and of no later entity, and whoever holds it after the       *)
(* insert finds it in a search, if it is still there.                      *)

\* a search finds what has this uuid, as it is, and so it will always be
AsIs(d) ==
  /\ d <= born
  /\ \A m \in Names : entities.live[m].doc = d => entities.snap[m] = entities.live[m]

\* uuids are given out one by one
FreshInv ==
  /\ \A n \in Names : Exists(entities.live, n) => entities.live[n].doc <= born
  /\ \A n \in Names : Exists(entities.snap, n) => entities.snap[n].doc <= born
  /\ \A w \in Writers, n \in Names : got[w][n] # NoId => got[w][n] <= born

\* and a uuid is that of one name, once
UniqueInv ==
  /\ \A n, m \in Names :
       Exists(entities.live, m) /\ entities.live[n].doc = entities.live[m].doc => n = m
  /\ \A n, m \in Names :
       Exists(entities.live, m) /\ entities.snap[n].doc = entities.live[m].doc =>
         n = m /\ entities.snap[m] = entities.live[m]

\* the copy that can be searched is an older one, or the same
LagsInv ==
  \A n \in Names :
    /\ entities.snap[n].seq <= entities.live[n].seq
    /\ entities.snap[n].seq = entities.live[n].seq => entities.snap[n] = entities.live[n]

\* a writer waits for the entities that it has inserted
GotInv ==
  \A w \in Writers, n \in Names : got[w][n] # NoId =>
    /\ pc[w] = "insert" =>
         \A m \in Names : entities.live[m].doc = got[w][n] =>
           m = n /\ entities.live[m].seq <= awaits[w][n]
    /\ pc[w] # "insert" => AsIs(got[w][n])

IdsInv == TypeInv /\ FreshInv /\ UniqueInv /\ LagsInv /\ GotInv

\* The steps of the entities, as these proofs see them.
Creates(w, n) ==
  /\ born' = born + 1
  /\ got' = [got EXCEPT ![w][n] = born + 1]
  /\ entities' = [entities EXCEPT !.live = Put(entities.live, n, born + 1)]
  /\ awaits' = [awaits EXCEPT ![w][n] = entities.live[n].seq + 1]

Deletes(j, n) ==
  /\ born' = born /\ got' = got
  /\ entities' = [entities EXCEPT !.live = Put(entities.live, n, Missing)]
  /\ awaits' = [awaits EXCEPT ![j][n] = entities.live[n].seq + 1]

\* What is done to the entities: one is created, one is deleted, or all are refreshed.
LEMMA EntitiesStep ==
  ASSUME [Next]_vars
  PROVE  \/ UNCHANGED <<entities, born>>
         \/ \E w \in Writers, n \in Names : Creates(w, n)
         \/ \E j \in Jobs, n \in Names : Deletes(j, n)
         \/ entities' = [entities EXCEPT !.snap = entities.live] /\ UNCHANGED born
<1> USE DEF writer, maintenance
<1>1. ASSUME NEW w \in Writers, NEW n \in Names, CreateEntity(w, n)
      PROVE  UNCHANGED <<entities, born>> \/ Creates(w, n)
  BY <1>1 DEF CreateEntity, Creates, WriteEntity
<1>2. ASSUME NEW j \in Jobs, NEW n \in Names, DeleteEntity(j, n)
      PROVE  UNCHANGED <<entities, born>> \/ Deletes(j, n)
  BY <1>2 DEF DeleteEntity, Deletes, WriteEntity
<1>3. CASE UNCHANGED vars
  BY <1>3 DEF vars
<1>4. CASE Refresh
  BY <1>4 DEF Refresh, RefreshEntities, RefreshRows, RefreshPairs
<1>5. ASSUME NEW w \in Writers, Write(w) \/ PurgeRows(w),
             ~\E n \in Names : CreateEntity(w, n)
      PROVE  UNCHANGED <<entities, born>>
  BY <1>5 DEF Write, EntitiesAnswered, FetchMissing, InsertRow, RowsAnswered, InsertPair, PurgeRows
<1>6. ASSUME NEW j \in Jobs, PruneOrphans(j) \/ PruneStale(j),
             ~\E n \in Names : DeleteEntity(j, n)
      PROVE  UNCHANGED <<entities, born>>
  BY <1>6 DEF PruneOrphans, PruneStale, ScanEntities, ProbeRows, EntitiesPruned, ScanPairs,
     ReadFirst, ReadSecond, DeletePairs
<1> QED BY <1>1, <1>2, <1>3, <1>4, <1>5, <1>6 DEF Next

\* An index after a write, or after a refresh.
LEMMA EntitiesAfter ==
  ASSUME TypeOK, NEW n \in Names, NEW doc,
         entities' = [entities EXCEPT !.live = Put(entities.live, n, doc)]
  PROVE  /\ entities'.snap = entities.snap
         /\ entities'.live[n] = [seq |-> entities.live[n].seq + 1, doc |-> doc]
         /\ \A m \in Names : m # n => entities'.live[m] = entities.live[m]
BY DEF TypeOK, Put

\* A uuid that a search finds as it is stays so: it is never given again.
LEMMA StaysAsIs ==
  ASSUME TypeOK, [Next]_vars, NEW d \in Ids, AsIs(d)
  PROVE  AsIs(d)'
<1>0. born \in Nat /\ d \in Nat /\ d # Missing
  BY EntitiesAssumption DEF TypeOK, Ids
<1>1. CASE UNCHANGED <<entities, born>>
  BY <1>1 DEF AsIs
<1>2. ASSUME NEW w \in Writers, NEW n \in Names, Creates(w, n) PROVE AsIs(d)'
  <2>1. born' = born + 1 /\ entities' = [entities EXCEPT !.live = Put(entities.live, n, born + 1)]
    BY <1>2 DEF Creates
  <2>2. d <= born
    BY DEF AsIs
  <2>3. d <= born' /\ d # born + 1
    BY <1>0, <2>1, <2>2
  <2>4. entities'.live[n].doc # d
    <3>1. entities'.live[n] = [seq |-> entities.live[n].seq + 1, doc |-> born + 1]
      BY <2>1, EntitiesAfter
    <3> QED BY <2>3, <3>1
  <2> QED BY <2>1, <2>3, <2>4, EntitiesAfter DEF AsIs
<1>3. ASSUME NEW j \in Jobs, NEW n \in Names, Deletes(j, n) PROVE AsIs(d)'
  <2>1. born' = born /\ entities' = [entities EXCEPT !.live = Put(entities.live, n, Missing)]
    BY <1>3 DEF Deletes
  <2>2. entities'.live[n].doc # d
    <3>1. entities'.live[n] = [seq |-> entities.live[n].seq + 1, doc |-> Missing]
      BY <2>1, EntitiesAfter
    <3> QED BY <1>0, <3>1
  <2> QED BY <2>1, <2>2, EntitiesAfter DEF AsIs
<1>4. CASE entities' = [entities EXCEPT !.snap = entities.live] /\ UNCHANGED born
  BY <1>4 DEF AsIs, TypeOK
<1> QED BY <1>1, <1>2, <1>3, <1>4, EntitiesStep

LEMMA EntitiesIds == Spec => []IdsInv
<1> USE EntitiesAssumption
<1>1. Init /\ TypeInv => IdsInv
  BY DEF Init, IdsInv, FreshInv, UniqueInv, LagsInv, GotInv, EmptyIndex, Exists
<1>2. IdsInv /\ [Next]_vars /\ TypeInv' => IdsInv'
  <2> SUFFICES ASSUME IdsInv, [Next]_vars, TypeInv' PROVE IdsInv'
    OBVIOUS
  <2>0. /\ TypeOK /\ FreshInv /\ UniqueInv /\ LagsInv /\ GotInv
        /\ entities \in [live : [Names -> Copies(Ids)], snap : [Names -> Copies(Ids)]]
        /\ got \in [Writers -> [Names -> Ids \union {NoId}]]
        /\ awaits \in [Actors -> [Names -> Nat]]
        /\ born \in Nat
        /\ \A w \in Writers : w \in Actors /\ w \notin Jobs
        /\ pc \in [Writers -> {"insert", "fetch", "row", "pair", "done", "purged"}]
    BY DEF IdsInv, TypeInv, TypeOK, Actors
  <2>a. /\ \A n \in Names : /\ entities.live[n].seq \in Nat /\ entities.snap[n].seq \in Nat
                            /\ Exists(entities.live, n) => entities.live[n].doc \in Ids
                            /\ Exists(entities.snap, n) => entities.snap[n].doc \in Ids
        /\ Ids \subseteq Nat /\ Missing \notin Ids /\ NoId \notin Ids
    BY <2>0 DEF Copies, Exists, Ids
  <2>b. \A d \in Ids : AsIs(d) => AsIs(d)'
    BY <2>0, StaysAsIs
  \* most steps leave the entities alone
  <2>c. ASSUME UNCHANGED <<entities, born>>,
               \A w \in Writers, n \in Names : got'[w][n] # NoId /\ pc'[w] = "insert" =>
                 pc[w] = "insert" /\ got'[w][n] = got[w][n] /\ awaits'[w][n] = awaits[w][n],
               \A w \in Writers, n \in Names : got'[w][n] # NoId /\ pc'[w] # "insert" =>
                 AsIs(got'[w][n])
        PROVE  IdsInv'
    <3>1. UniqueInv' /\ LagsInv'
      BY <2>0, <2>c DEF UniqueInv, LagsInv, Exists
    <3>2. FreshInv'
      BY <2>0, <2>c DEF FreshInv, Exists, AsIs
    <3>3. GotInv'
      BY <2>0, <2>c DEF GotInv, AsIs
    <3> QED BY <3>1, <3>2, <3>3 DEF IdsInv
  <2>d. \A w \in Writers, n \in Names : got[w][n] # NoId /\ pc[w] # "insert" => AsIs(got[w][n])
    BY <2>0 DEF GotInv
  <2> USE DEF writer, maintenance, Goto
  <2>1. ASSUME NEW w \in Writers, NEW n \in Names, CreateEntity(w, n) PROVE IdsInv'
    <3>1. CASE Exists(entities.live, n)
      BY <2>0, <2>1, <2>c, <2>d, <3>1 DEF CreateEntity
    <3>2. CASE ~Exists(entities.live, n)
      <4>1. Creates(w, n) /\ pc[w] = "insert" /\ UNCHANGED pc
        BY <2>1, <3>2 DEF CreateEntity, Creates, WriteEntity
      <4>2. /\ entities'.snap = entities.snap
            /\ entities'.live[n] = [seq |-> entities.live[n].seq + 1, doc |-> born + 1]
            /\ \A m \in Names : m # n => entities'.live[m] = entities.live[m]
        BY <2>0, <4>1, EntitiesAfter DEF Creates
      <4>3. /\ born' = born + 1 /\ born + 1 \in Nat
            /\ got'[w][n] = born + 1 /\ awaits'[w][n] = entities.live[n].seq + 1
            /\ \A x \in Writers, m \in Names : <<x, m>> # <<w, n>> =>
                 got'[x][m] = got[x][m] /\ awaits'[x][m] = awaits[x][m]
        BY <2>0, <4>1 DEF Creates
      <4>4. \A d \in Ids : d <= born => d <= born' /\ d # born + 1
        BY <2>0, <2>a, <4>3
      <4>5. FreshInv'
        <5>1. \A m \in Names : Exists(entities'.live, m) => entities'.live[m].doc <= born'
          <6>1. entities'.live[n].doc <= born'
            BY <4>2, <4>3
          <6>2. \A m \in Names : m # n /\ Exists(entities.live, m) => entities.live[m].doc <= born'
            BY <2>0, <2>a, <4>4 DEF FreshInv
          <6> QED BY <4>2, <6>1, <6>2 DEF Exists
        <5>2. \A m \in Names : Exists(entities'.snap, m) => entities'.snap[m].doc <= born'
          BY <2>0, <2>a, <4>2, <4>4 DEF FreshInv
        <5>3. \A x \in Writers, m \in Names : got'[x][m] # NoId => got'[x][m] <= born'
          <6>1. got'[w][n] <= born'
            BY <4>3
          <6>2. \A x \in Writers, m \in Names : got[x][m] # NoId => got[x][m] <= born'
            BY <2>0, <4>4 DEF FreshInv
          <6> QED BY <4>3, <6>1, <6>2
        <5> QED BY <5>1, <5>2, <5>3 DEF FreshInv, Exists
      <4>6. \A m \in Names : /\ entities.live[m].doc # born + 1
                             /\ entities.snap[m].doc # born + 1
        BY <2>0, <2>a, <4>3, <4>4 DEF FreshInv, Exists
      <4>7. UniqueInv'
        <5>1. \A k, m \in Names : Exists(entities'.live, m) /\ entities'.live[k].doc = entities'.live[m].doc => k = m
          BY <2>0, <4>2, <4>6 DEF UniqueInv, Exists
        <5>2. \A k, m \in Names :
                Exists(entities'.live, m) /\ entities'.snap[k].doc = entities'.live[m].doc =>
                  k = m /\ entities'.snap[m] = entities'.live[m]
          BY <2>0, <4>2, <4>6 DEF UniqueInv, Exists
        <5> QED BY <5>1, <5>2 DEF UniqueInv, Exists
      <4>8. LagsInv'
        <5>1. entities.snap[n].seq <= entities.live[n].seq
          BY <2>0 DEF LagsInv
        <5>2. /\ entities'.snap[n].seq <= entities'.live[n].seq
              /\ entities'.snap[n].seq # entities'.live[n].seq
          BY <2>a, <4>2, <5>1
        <5> QED BY <2>0, <4>2, <5>2 DEF LagsInv
      <4>9. GotInv'
        <5> SUFFICES ASSUME NEW x \in Writers, NEW m \in Names, got'[x][m] # NoId
                     PROVE  /\ pc'[x] = "insert" =>
                                 \A k \in Names : entities'.live[k].doc = got'[x][m] =>
                                   k = m /\ entities'.live[k].seq <= awaits'[x][m]
                            /\ pc'[x] # "insert" => AsIs(got[x][m])'
          BY DEF GotInv, AsIs
        <5>1. CASE x = w /\ m = n
          <6>1. \A k \in Names : entities'.live[k].doc = born + 1 => k = n
            BY <4>2, <4>6
          <6>2. entities'.live[n].seq <= awaits'[w][n]
            BY <2>a, <4>2, <4>3
          <6> QED BY <4>1, <4>3, <5>1, <6>1, <6>2
        <5>2. CASE <<x, m>> # <<w, n>>
          <6>1. got'[x][m] = got[x][m] /\ awaits'[x][m] = awaits[x][m] /\ got[x][m] \in Ids
            BY <2>0, <4>3, <5>2
          <6>2. got[x][m] # born + 1
            BY <2>0, <4>4, <6>1 DEF FreshInv
          <6>3. ASSUME NEW k \in Names, pc[x] = "insert", entities'.live[k].doc = got[x][m]
                PROVE  k = m /\ entities'.live[k].seq <= awaits'[x][m]
            <7>1. k # n
              BY <4>2, <6>2, <6>3
            <7> QED BY <2>0, <4>2, <4>3, <5>2, <6>1, <6>3, <7>1 DEF GotInv
          <6>4. pc[x] # "insert" => AsIs(got[x][m])'
            <7>1. pc[x] # "insert" => AsIs(got[x][m])
              BY <2>0, <5>2, <4>3 DEF GotInv
            <7>2. pc[x] # "insert" =>
                    /\ got[x][m] <= born'
                    /\ \A k \in Names : entities'.live[k].doc = got[x][m] => entities'.snap[k] = entities'.live[k]
              BY <2>b, <6>1, <7>1 DEF AsIs
            <7> QED BY <6>1, <7>2 DEF AsIs
          <6> QED BY <4>1, <6>1, <6>3, <6>4
        <5> QED BY <5>1, <5>2
      <4> QED BY <4>5, <4>7, <4>8, <4>9 DEF IdsInv
    <3> QED BY <3>1, <3>2
  <2>2. ASSUME NEW w \in Writers, EntitiesAnswered(w) PROVE IdsInv'
    <3>1. /\ pc[w] = "insert" /\ IsRefreshed(w) /\ pc' = [pc EXCEPT ![w] = "fetch"]
          /\ UNCHANGED <<entities, born, got>> /\ awaits' = [awaits EXCEPT ![w] = Nothing]
      BY <2>2 DEF EntitiesAnswered
    <3>2. ASSUME NEW n \in Names, got[w][n] # NoId PROVE AsIs(got[w][n])
      <4>1. got[w][n] <= born
        BY <2>0, <3>2 DEF FreshInv
      <4>2. ASSUME NEW m \in Names, entities.live[m].doc = got[w][n]
            PROVE  entities.snap[m] = entities.live[m]
        <5>1. m = n /\ entities.live[n].seq <= awaits[w][n]
          BY <2>0, <3>1, <3>2, <4>2 DEF GotInv
        <5>2. awaits[w][n] <= entities.snap[n].seq /\ awaits[w][n] \in Nat
          <6>1. entities.snap[n].seq >= awaits[w][n] /\ awaits[w][n] \in Nat
            BY <2>0, <3>1 DEF IsRefreshed, Searchable
          <6> QED BY <2>a, <6>1
        <5>3. entities.snap[n].seq <= entities.live[n].seq
          BY <2>0 DEF LagsInv
        <5>4. entities.snap[n].seq = entities.live[n].seq
          BY <2>a, <5>1, <5>2, <5>3
        <5> QED BY <2>0, <5>1, <5>4 DEF LagsInv
      <4> QED BY <4>1, <4>2 DEF AsIs
    <3> QED BY <2>0, <2>c, <2>d, <3>1, <3>2
  <2>3. ASSUME NEW w \in Writers, FetchMissing(w) PROVE IdsInv'
    <3>1. /\ pc[w] = "fetch" /\ pc' = [pc EXCEPT ![w] = "row"]
          /\ UNCHANGED <<entities, born, awaits>>
          /\ \A x \in Writers, n \in Names : x # w => got'[x][n] = got[x][n]
          /\ \A n \in Names : \/ got'[w][n] = got[w][n]
                              \/ Exists(entities.snap, n) /\ got'[w][n] = entities.snap[n].doc
      BY <2>0, <2>3 DEF FetchMissing
    <3>2. ASSUME NEW n \in Names, Exists(entities.snap, n) PROVE AsIs(entities.snap[n].doc)
      BY <2>0, <3>2 DEF AsIs, FreshInv, UniqueInv, Exists
    <3> QED BY <2>0, <2>c, <2>d, <3>1, <3>2
  <2>4. ASSUME NEW w \in Writers, NEW n \in Names, InsertRow(w, n) PROVE IdsInv'
    BY <2>0, <2>c, <2>d, <2>4 DEF InsertRow
  <2>5. ASSUME NEW w \in Writers, RowsAnswered(w) PROVE IdsInv'
    BY <2>0, <2>c, <2>d, <2>5 DEF RowsAnswered
  <2>6. ASSUME NEW w \in Writers, InsertPair(w) PROVE IdsInv'
    BY <2>0, <2>c, <2>d, <2>6 DEF InsertPair
  <2>7. ASSUME NEW w \in Writers, PurgeRows(w) PROVE IdsInv'
    BY <2>0, <2>c, <2>d, <2>7 DEF PurgeRows
  <2>8. ASSUME NEW j \in Jobs, \/ ScanEntities(j) \/ ProbeRows(j) \/ ScanPairs(j)
                               \/ ReadFirst(j) \/ ReadSecond(j) \/ DeletePairs(j) PROVE IdsInv'
    BY <2>0, <2>c, <2>d, <2>8
       DEF ScanEntities, ProbeRows, ScanPairs, ReadFirst, ReadSecond, DeletePairs
  <2>9. ASSUME NEW j \in Jobs, EntitiesPruned(j) PROVE IdsInv'
    <3>1. \A x \in Writers : awaits'[x] = awaits[x]
      BY <2>0, <2>9 DEF EntitiesPruned
    <3> QED BY <2>0, <2>c, <2>d, <2>9, <3>1 DEF EntitiesPruned
  <2>10. ASSUME NEW j \in Jobs, NEW n \in Names, DeleteEntity(j, n) PROVE IdsInv'
    <3>1. CASE ~Exists(entities.live, n)
      BY <2>0, <2>10, <2>c, <2>d, <3>1 DEF DeleteEntity
    <3>2. CASE Exists(entities.live, n)
      <4>1. Deletes(j, n) /\ UNCHANGED <<born, got, pc>>
        BY <2>10, <3>2 DEF DeleteEntity, Deletes, WriteEntity
      <4>2. /\ entities'.snap = entities.snap
            /\ entities'.live[n] = [seq |-> entities.live[n].seq + 1, doc |-> Missing]
            /\ \A m \in Names : m # n => entities'.live[m] = entities.live[m]
        BY <2>0, <4>1, EntitiesAfter DEF Deletes
      <4>3. \A x \in Writers, m \in Names : awaits'[x][m] = awaits[x][m]
        BY <2>0, <4>1 DEF Deletes
      <4>4. FreshInv'
        BY <2>0, <4>1, <4>2 DEF FreshInv, Exists
      <4>5. UniqueInv'
        <5>1. \A m \in Names : Exists(entities'.live, m) => m # n /\ entities'.live[m] = entities.live[m]
          BY <4>2 DEF Exists
        <5>2. \A k, m \in Names : Exists(entities'.live, m) /\ entities'.live[k].doc = entities'.live[m].doc =>
                Exists(entities'.live, k)
          BY DEF Exists
        <5>3. \A k, m \in Names : Exists(entities'.live, m) /\ entities'.live[k].doc = entities'.live[m].doc => k = m
          BY <2>0, <5>1, <5>2 DEF UniqueInv, Exists
        <5>4. \A k, m \in Names :
                Exists(entities'.live, m) /\ entities'.snap[k].doc = entities'.live[m].doc =>
                  k = m /\ entities'.snap[m] = entities'.live[m]
          BY <2>0, <4>2, <5>1 DEF UniqueInv, Exists
        <5> QED BY <5>3, <5>4 DEF UniqueInv, Exists
      <4>6. LagsInv'
        <5>1. entities.snap[n].seq <= entities.live[n].seq
          BY <2>0 DEF LagsInv
        <5>2. /\ entities'.snap[n].seq <= entities'.live[n].seq
              /\ entities'.snap[n].seq # entities'.live[n].seq
          BY <2>a, <4>2, <5>1
        <5> QED BY <2>0, <4>2, <5>2 DEF LagsInv
      <4>7. GotInv'
        <5>1. ASSUME NEW x \in Writers, NEW m \in Names, got[x][m] # NoId, pc[x] = "insert",
                     NEW k \in Names, entities'.live[k].doc = got[x][m]
              PROVE  k = m /\ entities'.live[k].seq <= awaits'[x][m]
          <6>1. got[x][m] \in Ids /\ got[x][m] # Missing
            BY <2>0, <2>a, <5>1
          <6>2. k # n
            BY <4>2, <5>1, <6>1
          <6> QED BY <2>0, <4>2, <4>3, <5>1, <6>2 DEF GotInv
        <5>2. ASSUME NEW x \in Writers, NEW m \in Names, got[x][m] # NoId, pc[x] # "insert"
              PROVE  AsIs(got[x][m])'
          <6>1. got[x][m] \in Ids /\ AsIs(got[x][m]) /\ got'[x][m] = got[x][m]
            BY <2>0, <2>d, <4>1, <5>2
          <6>2. /\ got[x][m] <= born'
                /\ \A k \in Names : entities'.live[k].doc = got[x][m] => entities'.snap[k] = entities'.live[k]
            BY <2>b, <6>1 DEF AsIs
          <6> QED BY <6>1, <6>2 DEF AsIs
        <5> QED BY <4>1, <5>1, <5>2 DEF GotInv, AsIs
      <4> QED BY <4>4, <4>5, <4>6, <4>7 DEF IdsInv
    <3> QED BY <3>1, <3>2
  <2>11. CASE Refresh
    <3>1. CASE UNCHANGED entities
      BY <2>0, <2>11, <2>c, <2>d, <3>1 DEF Refresh, RefreshEntities, RefreshRows, RefreshPairs
    <3>2. CASE RefreshEntities
      <4>1. entities'.live = entities.live /\ entities'.snap = entities.live
            /\ UNCHANGED <<born, got, pc, awaits>>
        BY <2>0, <3>2 DEF RefreshEntities
      <4>2. FreshInv'
        BY <2>0, <4>1 DEF FreshInv, Exists
      <4>3. UniqueInv'
        BY <2>0, <4>1 DEF UniqueInv, Exists
      <4>4. LagsInv'
        BY <2>0, <2>a, <4>1 DEF LagsInv
      <4>5. GotInv'
        BY <2>0, <4>1 DEF GotInv, AsIs
      <4> QED BY <4>2, <4>3, <4>4, <4>5 DEF IdsInv
    <3> QED BY <2>11, <3>1, <3>2 DEF Refresh, RefreshRows, RefreshPairs
  <2>12. CASE UNCHANGED vars
    BY <2>0, <2>12, <2>c, <2>d DEF vars
  <2> QED
    BY <2>1, <2>2, <2>3, <2>4, <2>5, <2>6, <2>7, <2>8, <2>9, <2>10, <2>11, <2>12
       DEF Next, Write, PruneOrphans, PruneStale
<1> QED BY <1>1, <1>2, EntitiesTypeInv, PTL DEF Spec

-----------------------------------------------------------------------------
(* The rows.  One whose insert has returned is searched until its unit is  *)
(* purged, and its entity is searched as long as it is there.              *)

RowsInv ==
  /\ rows.snap \subseteq rows.live
  /\ \A r \in rows.live : AsIs(r[2]) /\ pc[r[1]] # "purged"
  /\ \A w \in Writers : pc[w] \in {"pair", "done"} => RowsOf(w) \subseteq rows.snap

\* its insert has returned, or its unit is gone
Lasts(r) ==
  \/ pc[r[1]] \in {"pair", "done"} /\ r \in RowsOf(r[1])
  \/ pc[r[1]] = "purged"

ShieldInv == \A j \in Jobs : \A r \in shield[j] : Lasts(r)

HeldInv == IdsInv /\ RowsInv /\ ShieldInv

\* Where a step may take a writer.
LEMMA WriterStep ==
  ASSUME TypeOK, [Next]_vars, NEW x \in Writers
  PROVE  \/ pc'[x] = pc[x] /\ (pc[x] \notin {"insert", "fetch"} => got'[x] = got[x])
         \/ pc[x] \in {"insert", "fetch"} /\ pc'[x] \in {"fetch", "row"}
         \/ pc[x] = "row" /\ pc'[x] = "pair" /\ RowsOf(x) \subseteq rows.snap /\ UNCHANGED <<rows, got>>
         \/ pc[x] = "pair" /\ pc'[x] = "done" /\ UNCHANGED <<rows, got>>
         \/ PurgeRows(x)
<1> USE DEF TypeOK, Goto, writer, maintenance
<1>1. ASSUME NEW w \in Writers, Write(w) \/ PurgeRows(w), w # x
      PROVE  pc'[x] = pc[x] /\ got'[x] = got[x]
  BY <1>1 DEF Write, CreateEntity, EntitiesAnswered, FetchMissing, InsertRow, RowsAnswered,
     InsertPair, PurgeRows
<1>2. ASSUME NEW n \in Names, CreateEntity(x, n) PROVE pc'[x] = pc[x] /\ pc[x] = "insert"
  BY <1>2 DEF CreateEntity
<1>3. ASSUME EntitiesAnswered(x) \/ FetchMissing(x)
      PROVE  pc[x] \in {"insert", "fetch"} /\ pc'[x] \in {"fetch", "row"}
  BY <1>3 DEF EntitiesAnswered, FetchMissing
<1>4. ASSUME NEW n \in Names, InsertRow(x, n) PROVE pc'[x] = pc[x] /\ got'[x] = got[x]
  BY <1>4 DEF InsertRow
<1>5. ASSUME RowsAnswered(x)
      PROVE  pc[x] = "row" /\ pc'[x] = "pair" /\ RowsOf(x) \subseteq rows.snap /\ UNCHANGED <<rows, got>>
  BY <1>5 DEF RowsAnswered
<1>6. ASSUME InsertPair(x) PROVE pc[x] = "pair" /\ pc'[x] = "done" /\ UNCHANGED <<rows, got>>
  BY <1>6 DEF InsertPair
<1>7. ASSUME NEW j \in Jobs, PruneOrphans(j) \/ PruneStale(j) PROVE pc' = pc /\ got' = got
  BY <1>7 DEF PruneOrphans, PruneStale, ScanEntities, ProbeRows, DeleteEntity, EntitiesPruned,
     ScanPairs, ReadFirst, ReadSecond, DeletePairs
<1>8. ASSUME Refresh \/ UNCHANGED vars PROVE pc' = pc /\ got' = got
  BY <1>8 DEF Refresh, RefreshEntities, RefreshRows, RefreshPairs, vars
<1>9. ASSUME Write(x)
      PROVE  \/ \E n \in Names : CreateEntity(x, n)
             \/ EntitiesAnswered(x) \/ FetchMissing(x)
             \/ \E n \in Names : InsertRow(x, n)
             \/ RowsAnswered(x) \/ InsertPair(x)
  BY <1>9 DEF Write
<1> QED BY <1>1, <1>2, <1>3, <1>4, <1>5, <1>6, <1>7, <1>8, <1>9 DEF Next

\* What may happen to the rows.
LEMMA RowsStep ==
  ASSUME [Next]_vars
  PROVE  \/ UNCHANGED rows
         \/ \E w \in Writers, n \in Names : InsertRow(w, n)
         \/ \E w \in Writers : PurgeRows(w)
         \/ RefreshRows
<1> USE DEF writer, maintenance
<1>1. ASSUME NEW w \in Writers, Write(w), ~\E n \in Names : InsertRow(w, n)
      PROVE  UNCHANGED rows
  BY <1>1 DEF Write, CreateEntity, EntitiesAnswered, FetchMissing, RowsAnswered, InsertPair
<1>2. ASSUME NEW j \in Jobs, PruneOrphans(j) \/ PruneStale(j) PROVE UNCHANGED rows
  BY <1>2 DEF PruneOrphans, PruneStale, ScanEntities, ProbeRows, DeleteEntity, EntitiesPruned,
     ScanPairs, ReadFirst, ReadSecond, DeletePairs
<1>3. ASSUME RefreshEntities \/ RefreshPairs \/ UNCHANGED vars PROVE UNCHANGED rows
  BY <1>3 DEF RefreshEntities, RefreshPairs, vars
<1> QED BY <1>1, <1>2, <1>3 DEF Next, Refresh

\* What has returned lasts until its unit is purged.
LEMMA StaysLasting ==
  ASSUME TypeOK, [Next]_vars, NEW r \in Writers \X Ids, Lasts(r)
  PROVE  Lasts(r)'
<1>1. CASE pc[r[1]] = "purged"
  BY <1>1, WriterStep DEF Lasts, PurgeRows
<1>2. CASE pc[r[1]] \in {"pair", "done"} /\ r \in RowsOf(r[1])
  <2>1. (pc'[r[1]] \in {"pair", "done"} /\ got'[r[1]] = got[r[1]]) \/ PurgeRows(r[1])
    BY <1>2, WriterStep
  <2>2. CASE pc'[r[1]] \in {"pair", "done"} /\ got'[r[1]] = got[r[1]]
    BY <1>2, <2>2 DEF Lasts, RowsOf, Resolved, HasId
  <2>3. CASE PurgeRows(r[1])
    BY <2>3 DEF PurgeRows, Goto, TypeOK, Lasts
  <2> QED BY <2>1, <2>2, <2>3
<1> QED BY <1>1, <1>2 DEF Lasts

\* How the jobs come to what they spare.
LEMMA ShieldStep ==
  ASSUME TypeOK, [Next]_vars, NEW j \in Jobs
  PROVE  shield'[j] \in {shield[j], Returned, {}}
<1> USE DEF TypeOK, maintenance
<1>1. ASSUME NEW w \in Writers, Write(w) \/ PurgeRows(w) PROVE UNCHANGED shield
  BY <1>1 DEF Write, CreateEntity, EntitiesAnswered, FetchMissing, InsertRow, RowsAnswered,
     InsertPair, PurgeRows
<1>2. ASSUME NEW k \in Jobs, PruneOrphans(k) \/ PruneStale(k)
      PROVE  shield'[j] \in {shield[j], Returned, {}}
  BY <1>2 DEF PruneOrphans, PruneStale, ScanEntities, ProbeRows, DeleteEntity, EntitiesPruned,
     ScanPairs, ReadFirst, ReadSecond, DeletePairs
<1>3. ASSUME Refresh \/ UNCHANGED vars PROVE UNCHANGED shield
  BY <1>3 DEF Refresh, RefreshEntities, RefreshRows, RefreshPairs, vars
<1> QED BY <1>1, <1>2, <1>3 DEF Next

LEMMA ReturnedLasts ==
  ASSUME TypeOK, NEW r \in Returned
  PROVE  Lasts(r)
<1>1. PICK w \in Writers : pc[w] \in {"pair", "done"} /\ r \in RowsOf(w)
  BY DEF Returned
<1>2. r[1] = w
  BY <1>1 DEF RowsOf
<1> QED BY <1>1, <1>2 DEF Lasts

LEMMA EntitiesHeld == Spec => []HeldInv
<1> USE EntitiesAssumption
<1>1. Init /\ IdsInv => HeldInv
  BY DEF Init, HeldInv, RowsInv, ShieldInv
<1>2. HeldInv /\ [Next]_vars /\ IdsInv' => HeldInv'
  <2> SUFFICES ASSUME HeldInv, [Next]_vars, IdsInv' PROVE HeldInv'
    OBVIOUS
  <2>0. /\ TypeOK /\ RowsHaveIds /\ IdsInv /\ RowsInv /\ ShieldInv
        /\ rows.live \subseteq Writers \X Ids /\ rows.snap \subseteq rows.live
        /\ \A j \in Jobs : shield[j] \subseteq Writers \X Ids
        /\ Returned \subseteq Writers \X Ids
    BY ReturnedType DEF HeldInv, IdsInv, TypeInv, TypeOK, RowsInv, Index
  <2>1. ShieldInv'
    <3> SUFFICES ASSUME NEW j \in Jobs, NEW r \in shield'[j] PROVE Lasts(r)'
      BY DEF ShieldInv
    <3>1. r \in shield[j] \/ r \in Returned
      BY <2>0, ShieldStep
    <3>2. r \in Writers \X Ids /\ Lasts(r)
      BY <2>0, <3>1, ReturnedLasts DEF ShieldInv
    <3> QED BY <2>0, <3>2, StaysLasting
  <2>2. rows'.snap \subseteq rows'.live
    <3>1. ASSUME NEW w \in Writers, NEW n \in Names, InsertRow(w, n)
          PROVE  rows'.live = rows.live \union {<<w, got[w][n]>>} /\ rows'.snap = rows.snap
      BY <2>0, <3>1 DEF InsertRow, TypeOK, Index
    <3>2. ASSUME NEW w \in Writers, PurgeRows(w) PROVE rows'.snap = rows'.live
      BY <3>2 DEF PurgeRows
    <3>3. RefreshRows => rows'.snap = rows'.live
      BY <2>0 DEF RefreshRows, TypeOK, Index
    <3> QED BY <2>0, <3>1, <3>2, <3>3, RowsStep
  <2>3. ASSUME NEW r \in rows'.live PROVE AsIs(r[2])' /\ pc'[r[1]] # "purged"
    <3>1. CASE r \in rows.live
      <4>1. r[1] \in Writers /\ r[2] \in Ids /\ AsIs(r[2]) /\ pc[r[1]] # "purged"
        BY <2>0, <3>1 DEF RowsInv
      <4>2. ~PurgeRows(r[1])
        BY <2>3 DEF PurgeRows
      <4>3. AsIs(r[2])'
        BY <2>0, <4>1, StaysAsIs
      <4>4. pc'[r[1]] # "purged"
        BY <2>0, <4>1, <4>2, WriterStep
      <4> QED BY <4>3, <4>4
    <3>2. CASE r \notin rows.live
      <4>1. PICK w \in Writers, n \in Names : InsertRow(w, n)
        BY <2>0, <2>3, <3>2, RowsStep DEF PurgeRows, RefreshRows, TypeOK, Index
      <4>2. /\ pc[w] = "row" /\ n \in todo[w] /\ pc' = pc
            /\ rows'.live = rows.live \union {<<w, got[w][n]>>}
        BY <2>0, <4>1 DEF InsertRow, TypeOK, Index
      <4>3. r[1] = w /\ r[2] = got[w][n]
        BY <2>3, <3>2, <4>2
      <4>4. got[w][n] # NoId /\ got[w][n] \in Ids /\ AsIs(got[w][n])
        BY <2>0, <4>2 DEF RowsHaveIds, Resolved, HasId, IdsInv, GotInv, TypeOK
      <4>5. r[2] \in Ids /\ AsIs(r[2])
        BY <4>3, <4>4
      <4>6. AsIs(r[2])'
        BY <2>0, <4>5, StaysAsIs
      <4> QED BY <4>2, <4>3, <4>6
    <3> QED BY <3>1, <3>2
  <2>4. ASSUME NEW w \in Writers, pc'[w] \in {"pair", "done"}, NEW r \in RowsOf(w)'
        PROVE  r \in rows'.snap
    <3>1. /\ r[1] = w /\ got'[w] = got[w] /\ r \in RowsOf(w) /\ r \in rows.snap /\ ~PurgeRows(w)
      <4>1. ~PurgeRows(w)
        BY <2>0, <2>4 DEF PurgeRows, Goto, TypeOK
      <4>2. got'[w] = got[w] /\ (pc[w] \in {"pair", "done"} \/ RowsOf(w) \subseteq rows.snap)
        BY <2>0, <2>4, <4>1, WriterStep
      <4>3. RowsOf(w)' = RowsOf(w)
        BY <4>2 DEF RowsOf, Resolved, HasId
      <4>4. r[1] = w
        BY <2>4 DEF RowsOf
      <4> QED BY <2>0, <2>4, <4>1, <4>2, <4>3, <4>4 DEF RowsInv
    <3>2. r \in rows.live
      BY <2>0, <3>1
    <3>3. ASSUME NEW x \in Writers, PurgeRows(x) PROVE r \in rows'.snap
      BY <3>1, <3>2, <3>3 DEF PurgeRows
    <3>4. ASSUME NEW x \in Writers, NEW n \in Names, InsertRow(x, n) PROVE r \in rows'.snap
      BY <2>0, <3>1, <3>4 DEF InsertRow, TypeOK, Index
    <3>5. CASE RefreshRows
      BY <2>0, <3>2, <3>5 DEF RefreshRows, TypeOK, Index
    <3> QED BY <3>1, <3>3, <3>4, <3>5, RowsStep
  <2> QED BY <2>1, <2>2, <2>3, <2>4 DEF HeldInv, RowsInv
<1> QED BY <1>1, <1>2, EntitiesIds, PTL DEF Spec

-----------------------------------------------------------------------------
(* The jobs.  What they have in hand was searched after the rows that they *)
(* have to spare, so it agrees with them.                                  *)

\* the rows that the job has to spare
Spared(j) == shield[j] \intersect rows.live

\* an entity of such a row is in the batch under its own uuid, until the rows
\* are probed, and then no more
HitsOk(j) ==
  \A r \in Spared(j), h \in hits[j] :
    /\ job[j] = "probe" /\ entities.live[h[1]].doc = r[2] => h[2] = r[2]
    /\ job[j] = "delete" => entities.live[h[1]].doc # r[2]

\* the units that the job has read are those of such rows at least
CacheOk(j) ==
  \A u \in Writers, e \in Ids : <<u, e>> \in Spared(j) =>
    /\ job[j] = "second" /\ (\E p \in hits[j] : e = p[1]) => u \in cache[j][e]
    /\ job[j] = "stale" /\ (\E p \in hits[j] : e = p[1] \/ e = p[2]) => u \in cache[j][e]

SparesInv == HeldInv /\ \A j \in Jobs : HitsOk(j) /\ CacheOk(j)

\* A row that lasts is searched as long as it is there.
LEMMA SparedSearched ==
  ASSUME HeldInv, NEW j \in Jobs, NEW r \in Spared(j)
  PROVE  /\ r \in rows.snap /\ r \in Writers \X Ids
         /\ AsIs(r[2])
         /\ \E u \in Writers : <<u, r[2]>> \in rows.snap
<1>1. r \in rows.live /\ Lasts(r) /\ r \in Writers \X Ids
  BY DEF Spared, HeldInv, ShieldInv, IdsInv, TypeInv, TypeOK
<1>2. pc[r[1]] # "purged" /\ AsIs(r[2])
  BY <1>1 DEF HeldInv, RowsInv
<1>3. r \in rows.snap
  BY <1>1, <1>2 DEF HeldInv, RowsInv, Lasts
<1>4. r = <<r[1], r[2]>> /\ r[1] \in Writers
  BY <1>1
<1> QED BY <1>1, <1>2, <1>3, <1>4

\* No row becomes one to spare but when the job begins.
LEMMA SparedBefore ==
  ASSUME HeldInv, [Next]_vars, NEW j \in Jobs, shield'[j] = shield[j], NEW r \in Spared(j)'
  PROVE  r \in Spared(j)
<1>0. TypeOK /\ ShieldInv /\ RowsInv /\ shield[j] \subseteq Writers \X Ids /\ rows.snap \subseteq rows.live
  BY DEF HeldInv, IdsInv, TypeInv, TypeOK, RowsInv
<1>1. r \in shield[j] /\ r \in rows'.live /\ r \in Writers \X Ids /\ Lasts(r)
  BY <1>0 DEF Spared, ShieldInv
<1>2. r \in rows.live \/ \E w \in Writers, n \in Names : InsertRow(w, n) /\ r = <<w, got[w][n]>>
  <2>1. ASSUME NEW w \in Writers, NEW n \in Names, InsertRow(w, n)
        PROVE  r \in rows.live \/ r = <<w, got[w][n]>>
    <3>1. rows' = [rows EXCEPT !.live = rows.live \union {<<w, got[w][n]>>}]
      BY <2>1 DEF InsertRow
    <3>2. rows'.live = rows.live \union {<<w, got[w][n]>>}
      BY <1>0, <3>1 DEF TypeOK, Index
    <3> QED BY <1>1, <3>2
  <2>2. ASSUME NEW w \in Writers, PurgeRows(w) PROVE r \in rows.live
    BY <1>1, <2>2 DEF PurgeRows
  <2>3. CASE RefreshRows
    BY <1>0, <1>1, <2>3 DEF RefreshRows, TypeOK, Index
  <2> QED BY <1>1, <2>1, <2>2, <2>3, RowsStep
<1>3. ASSUME NEW w \in Writers, NEW n \in Names, InsertRow(w, n), r = <<w, got[w][n]>> PROVE FALSE
  BY <1>1, <1>3 DEF InsertRow, Lasts
<1> QED BY <1>1, <1>2, <1>3 DEF Spared

\* A uuid that is known is not given to an entity again.
LEMMA NotAgain ==
  ASSUME IdsInv, [Next]_vars, NEW d \in Ids, AsIs(d), NEW m \in Names, entities'.live[m].doc = d
  PROVE  entities.live[m].doc = d
<1>0. TypeOK /\ born \in Nat /\ d \in Nat /\ d # Missing /\ d <= born
  BY EntitiesAssumption DEF IdsInv, TypeInv, TypeOK, Ids, AsIs
<1>1. ASSUME NEW w \in Writers, NEW n \in Names, Creates(w, n) PROVE entities.live[m].doc = d
  <2>1. /\ entities'.live[n] = [seq |-> entities.live[n].seq + 1, doc |-> born + 1]
        /\ \A k \in Names : k # n => entities'.live[k] = entities.live[k]
    BY <1>0, <1>1, EntitiesAfter DEF Creates
  <2>2. born + 1 # d
    BY <1>0
  <2>3. m # n
    BY <2>1, <2>2
  <2> QED BY <2>1, <2>3
<1>2. ASSUME NEW j \in Jobs, NEW n \in Names, Deletes(j, n) PROVE entities.live[m].doc = d
  <2>1. /\ entities'.live[n] = [seq |-> entities.live[n].seq + 1, doc |-> Missing]
        /\ \A k \in Names : k # n => entities'.live[k] = entities.live[k]
    BY <1>0, <1>2, EntitiesAfter DEF Deletes
  <2>2. m # n
    BY <1>0, <2>1
  <2> QED BY <2>1, <2>2
<1>3. CASE entities' = [entities EXCEPT !.snap = entities.live]
  BY <1>0, <1>3 DEF TypeOK
<1> QED BY <1>1, <1>2, <1>3, EntitiesStep

\* A job that has less in hand, or the same, agrees with the rows that it spares.
LEMMA StaysSpared ==
  ASSUME HeldInv, [Next]_vars, NEW j \in Jobs, HitsOk(j), CacheOk(j),
         job'[j] = job[j], hits'[j] \subseteq hits[j], cache'[j] = cache[j], shield'[j] = shield[j],
         hits[j] \subseteq (Names \union Ids) \X Ids,
         job[j] \in {"probe", "delete"} => hits[j] \subseteq Names \X Ids
  PROVE  (HitsOk(j) /\ CacheOk(j))'
<1>1. \A r \in Spared(j)' : r \in Spared(j)
  BY SparedBefore
<1>2. CacheOk(j)'
  BY <1>1 DEF CacheOk
<1>3. ASSUME NEW r \in Spared(j)', NEW h \in hits'[j], job[j] \in {"probe", "delete"},
             entities'.live[h[1]].doc = r[2]
      PROVE  entities.live[h[1]].doc = r[2]
  <2>1. r[2] \in Ids /\ AsIs(r[2]) /\ h[1] \in Names
    BY <1>1, <1>3, SparedSearched
  <2> QED BY <1>3, <2>1, NotAgain DEF HeldInv
<1>4. HitsOk(j)'
  BY <1>1, <1>3 DEF HitsOk
<1> QED BY <1>2, <1>4

LEMMA EntitiesSpares == Spec => []SparesInv
<1> USE EntitiesAssumption
<1>1. Init /\ HeldInv => SparesInv
  BY DEF Init, SparesInv, HitsOk, CacheOk
<1>2. SparesInv /\ [Next]_vars /\ HeldInv' => SparesInv'
  <2> SUFFICES ASSUME SparesInv, [Next]_vars, HeldInv', NEW k \in Jobs PROVE (HitsOk(k) /\ CacheOk(k))'
    BY DEF SparesInv
  <2>0. /\ TypeOK /\ HeldInv /\ RowsInv
        /\ HitsOk(k) /\ CacheOk(k)
        /\ hits \in [Jobs -> SUBSET ((Names \union Ids) \X Ids)]
        /\ job \in [Jobs -> {"idle", "probe", "delete", "first", "second", "stale"}]
        /\ cache \in [Jobs -> [Ids -> SUBSET Writers]]
        /\ shield \in [Jobs -> SUBSET (Writers \X Ids)]
        /\ (job[k] \in {"probe", "delete"} => hits[k] \subseteq Names \X Ids)
        /\ (job[k] \in {"first", "second", "stale"} => hits[k] \subseteq Ids \X Ids)
    BY DEF SparesInv, HeldInv, IdsInv, TypeInv, TypeOK
  <2>a. ASSUME job'[k] = job[k], hits'[k] \subseteq hits[k], cache'[k] = cache[k], shield'[k] = shield[k]
        PROVE  (HitsOk(k) /\ CacheOk(k))'
    BY <2>0, <2>a, StaysSpared
  <2>b. ASSUME job'[k] \in {"idle", "first"} PROVE (HitsOk(k) /\ CacheOk(k))'
    BY <2>b DEF HitsOk, CacheOk
  <2> USE DEF maintenance, GotoJob
  <2>1. ASSUME UNCHANGED maintenance PROVE (HitsOk(k) /\ CacheOk(k))'
    BY <2>1, <2>a
  <2>2. ASSUME NEW j \in Jobs, PruneOrphans(j) \/ PruneStale(j), j # k PROVE (HitsOk(k) /\ CacheOk(k))'
    <3>1. job'[k] = job[k] /\ hits'[k] = hits[k] /\ cache'[k] = cache[k] /\ shield'[k] = shield[k]
      BY <2>0, <2>2 DEF PruneOrphans, PruneStale, ScanEntities, ProbeRows, DeleteEntity,
         EntitiesPruned, ScanPairs, ReadFirst, ReadSecond, DeletePairs, ReadUnits
    <3> QED BY <2>a, <3>1
  <2>3. ASSUME ScanEntities(k) PROVE (HitsOk(k) /\ CacheOk(k))'
    <3>1. /\ hits'[k] = {<<n, entities.snap[n].doc>> : n \in {m \in Names : Exists(entities.snap, m)}}
          /\ job'[k] = "probe" /\ UNCHANGED <<entities, rows>>
      BY <2>0, <2>3 DEF ScanEntities
    <3>2. ASSUME NEW r \in Spared(k)', NEW h \in hits'[k], entities'.live[h[1]].doc = r[2]
          PROVE  h[2] = r[2]
      <4>1. PICK n \in Names : h = <<n, entities.snap[n].doc>>
        BY <3>1
      <4>2. AsIs(r[2]) /\ entities.live[n].doc = r[2]
        BY <2>0, <3>1, <3>2, <4>1 DEF Spared, RowsInv
      <4> QED BY <4>1, <4>2 DEF AsIs
    <3>3. HitsOk(k)'
      BY <3>1, <3>2 DEF HitsOk
    <3>4. CacheOk(k)'
      BY <3>1 DEF CacheOk
    <3> QED BY <3>3, <3>4
  <2>4. ASSUME ProbeRows(k) PROVE (HitsOk(k) /\ CacheOk(k))'
    <3>1. /\ job[k] = "probe" /\ job'[k] = "delete" /\ UNCHANGED <<entities, rows, shield>>
          /\ hits'[k] = {h \in hits[k] : h[2] \notin Referenced({g[2] : g \in hits[k]})}
      BY <2>0, <2>4 DEF ProbeRows
    <3>2. ASSUME NEW r \in Spared(k)', NEW h \in hits'[k]
          PROVE  entities'.live[h[1]].doc # r[2]
      <4>1. r \in Spared(k) /\ h \in hits[k]
        BY <3>1, <3>2 DEF Spared
      <4>2. \E u \in Writers : <<u, r[2]>> \in rows.snap
        BY <2>0, <4>1, SparedSearched
      <4>3. h[2] # r[2]
        BY <3>1, <3>2, <4>1, <4>2 DEF Referenced
      <4> QED BY <2>0, <3>1, <4>1, <4>3 DEF HitsOk
    <3>3. HitsOk(k)'
      BY <3>1, <3>2 DEF HitsOk
    <3>4. CacheOk(k)'
      BY <3>1 DEF CacheOk
    <3> QED BY <3>3, <3>4
  <2>5. ASSUME NEW n \in Names, DeleteEntity(k, n) PROVE (HitsOk(k) /\ CacheOk(k))'
    <3>1. job'[k] = job[k] /\ hits'[k] \subseteq hits[k] /\ cache'[k] = cache[k] /\ shield'[k] = shield[k]
      BY <2>0, <2>5 DEF DeleteEntity
    <3> QED BY <2>a, <3>1
  <2>6. ASSUME EntitiesPruned(k) \/ DeletePairs(k) \/ ScanPairs(k) PROVE (HitsOk(k) /\ CacheOk(k))'
    BY <2>0, <2>6, <2>b DEF EntitiesPruned, DeletePairs, ScanPairs
  <2>7. ASSUME ReadFirst(k) PROVE (HitsOk(k) /\ CacheOk(k))'
    <3>1. /\ job'[k] = "second" /\ UNCHANGED <<rows, shield, hits>>
          /\ \A e \in Ids : (\E p \in hits[k] : e = p[1]) => cache'[k][e] = UnitsOf(e)
      BY <2>0, <2>7 DEF ReadFirst, ReadUnits
    <3>2. ASSUME NEW u \in Writers, NEW e \in Ids, <<u, e>> \in Spared(k)', \E p \in hits[k] : e = p[1]
          PROVE  u \in cache'[k][e]
      <4>1. <<u, e>> \in Spared(k)
        BY <3>1, <3>2 DEF Spared
      <4>2. <<u, e>> \in rows.snap
        BY <2>0, <4>1, SparedSearched
      <4> QED BY <3>1, <3>2, <4>2 DEF UnitsOf
    <3> QED BY <3>1, <3>2 DEF HitsOk, CacheOk
  <2>8. ASSUME ReadSecond(k) PROVE (HitsOk(k) /\ CacheOk(k))'
    <3>1. /\ job[k] = "second" /\ job'[k] = "stale" /\ UNCHANGED <<rows, shield, hits>>
          /\ \A e \in Ids : cache'[k][e] = IF \E p \in hits[k] : e = p[2] THEN UnitsOf(e) ELSE cache[k][e]
      BY <2>0, <2>8 DEF ReadSecond, ReadUnits
    <3>2. ASSUME NEW u \in Writers, NEW e \in Ids, <<u, e>> \in Spared(k)',
                 \E p \in hits[k] : e = p[1] \/ e = p[2]
          PROVE  u \in cache'[k][e]
      <4>1. <<u, e>> \in Spared(k)
        BY <3>1, <3>2 DEF Spared
      <4>2. <<u, e>> \in rows.snap
        BY <2>0, <4>1, SparedSearched
      <4>3. CASE \E p \in hits[k] : e = p[2]
        BY <3>1, <4>2, <4>3 DEF UnitsOf
      <4>4. CASE ~\E p \in hits[k] : e = p[2]
        BY <2>0, <3>1, <3>2, <4>1, <4>4 DEF CacheOk
      <4> QED BY <4>3, <4>4
    <3> QED BY <3>1, <3>2 DEF HitsOk, CacheOk
  <2>9. ASSUME (\E w \in Writers : Write(w) \/ PurgeRows(w)) \/ Refresh \/ UNCHANGED vars
        PROVE  UNCHANGED maintenance
    BY <2>9 DEF Write, CreateEntity, EntitiesAnswered, FetchMissing, InsertRow, RowsAnswered,
       InsertPair, PurgeRows, Refresh, RefreshEntities, RefreshRows, RefreshPairs, vars
  <2> QED
    BY <2>1, <2>2, <2>3, <2>4, <2>5, <2>6, <2>7, <2>8, <2>9 DEF Next, PruneOrphans, PruneStale
<1> QED BY <1>1, <1>2, EntitiesHeld, PTL DEF Spec

\* An entity that a row referred to whose insert had returned when the job began
\* is not deleted by it, for any number of writers, jobs and names.
THEOREM EntitiesPruneSparesReferenced == Spec => PruneSparesReferenced
<1> USE EntitiesAssumption
<1> DEFINE Spares ==
      \A n \in Names :
        /\ Exists(entities.live, n) /\ ~Exists(entities'.live, n)
        => \E j \in Jobs :
             /\ job[j] = "delete" /\ hits'[j] # hits[j]
             /\ \A r \in shield[j] \intersect rows.live : r[2] # entities.live[n].doc
<1>1. SparesInv /\ [Next]_vars => [Spares]_vars
  <2> SUFFICES ASSUME SparesInv, [Next]_vars, NEW n \in Names,
                      Exists(entities.live, n), ~Exists(entities'.live, n)
               PROVE  \E j \in Jobs :
                        /\ job[j] = "delete" /\ hits'[j] # hits[j]
                        /\ \A r \in shield[j] \intersect rows.live : r[2] # entities.live[n].doc
    OBVIOUS
  <2>0. TypeOK /\ born \in Nat /\ \A j \in Jobs : HitsOk(j)
    BY DEF SparesInv, HeldInv, IdsInv, TypeInv, TypeOK
  <2>1. PICK j \in Jobs, m \in Names : DeleteEntity(j, m) /\ entities' # entities
    <3>1. ASSUME NEW w \in Writers, NEW m \in Names, CreateEntity(w, m) PROVE FALSE
      <4>1. entities' # entities
        BY <2>0 DEF Exists
      <4>2. Creates(w, m)
        BY <3>1, <4>1 DEF CreateEntity, Creates, WriteEntity
      <4>3. /\ entities'.live[m] = [seq |-> entities.live[m].seq + 1, doc |-> born + 1]
            /\ \A k \in Names : k # m => entities'.live[k] = entities.live[k]
        BY <2>0, <4>2, EntitiesAfter DEF Creates
      <4>4. born + 1 # Missing
        BY <2>0
      <4> QED BY <4>3, <4>4 DEF Exists
    <3>2. ~RefreshEntities
      BY <2>0 DEF RefreshEntities, TypeOK, Exists
    <3>3. entities' # entities
      BY DEF Exists
    <3> QED
      BY <3>1, <3>2, <3>3 DEF Next, Write, PruneOrphans, PruneStale, EntitiesAnswered, FetchMissing,
         InsertRow, RowsAnswered, InsertPair, PurgeRows, ScanEntities, ProbeRows, EntitiesPruned,
         ScanPairs, ReadFirst, ReadSecond, DeletePairs, Refresh, RefreshRows, RefreshPairs, vars
  <2>2. m = n
    <3>1. entities' = [entities EXCEPT !.live = Put(entities.live, m, Missing)]
      BY <2>1 DEF DeleteEntity, WriteEntity
    <3>2. \A k \in Names : k # m => entities'.live[k] = entities.live[k]
      BY <2>0, <3>1, EntitiesAfter
    <3> QED BY <3>2 DEF Exists
  <2>3. PICK h \in hits[j] : h[1] = n /\ hits'[j] = hits[j] \ {h}
    BY <2>0, <2>1, <2>2 DEF DeleteEntity, TypeOK
  <2>4. job[j] = "delete"
    BY <2>1 DEF DeleteEntity
  <2>5. \A r \in shield[j] \intersect rows.live : r[2] # entities.live[n].doc
    BY <2>0, <2>3, <2>4 DEF HitsOk, Spared
  <2> QED BY <2>3, <2>4, <2>5
<1>2. Spec => [][Spares]_vars
  BY <1>1, EntitiesSpares, PTL DEF Spec
<1> QED BY <1>2 DEF PruneSparesReferenced

\* A pair that a unit witnesses whose rows had returned when the job began is not
\* deleted by it.
THEOREM EntitiesPruneSparesWitnessed == Spec => PruneSparesWitnessed
<1> DEFINE Spares ==
      \A pair \in pairs.live \ pairs'.live :
        \E j \in Jobs :
          /\ job[j] = "stale" /\ hits'[j] # hits[j]
          /\ ~\E u \in Writers : /\ {<<u, pair[1]>>, <<u, pair[2]>>} \subseteq rows.live
                                 /\ {<<u, pair[1]>>, <<u, pair[2]>>} \subseteq shield[j]
<1>1. SparesInv /\ [Next]_vars => [Spares]_vars
  <2> SUFFICES ASSUME SparesInv, [Next]_vars, NEW pair \in pairs.live \ pairs'.live
               PROVE  \E j \in Jobs :
                        /\ job[j] = "stale" /\ hits'[j] # hits[j]
                        /\ ~\E u \in Writers : /\ {<<u, pair[1]>>, <<u, pair[2]>>} \subseteq rows.live
                                               /\ {<<u, pair[1]>>, <<u, pair[2]>>} \subseteq shield[j]
    OBVIOUS
  <2>0. TypeOK /\ pair \in Ids \X Ids /\ \A j \in Jobs : CacheOk(j)
    BY DEF SparesInv, HeldInv, IdsInv, TypeInv, TypeOK, Index
  <2>1. PICK j \in Jobs : DeletePairs(j)
    <3>1. \A w \in Writers : ~InsertPair(w)
      BY <2>0 DEF InsertPair, TypeOK, Index
    <3>2. ~RefreshPairs
      BY <2>0 DEF RefreshPairs, TypeOK, Index
    <3>3. pairs' # pairs
      OBVIOUS
    <3> QED
      BY <3>1, <3>2, <3>3 DEF Next, Write, PruneOrphans, PruneStale, CreateEntity, EntitiesAnswered,
         FetchMissing, InsertRow, RowsAnswered, PurgeRows, ScanEntities, ProbeRows, DeleteEntity,
         EntitiesPruned, ScanPairs, ReadFirst, ReadSecond, Refresh, RefreshEntities, RefreshRows,
         vars
  <2>2. /\ job[j] = "stale" /\ pair \in hits[j] /\ Witnesses(j, pair) = {}
        /\ hits'[j] = {}
    BY <2>0, <2>1 DEF DeletePairs, TypeOK, Index
  <2>3. ASSUME NEW u \in Writers,
               {<<u, pair[1]>>, <<u, pair[2]>>} \subseteq rows.live,
               {<<u, pair[1]>>, <<u, pair[2]>>} \subseteq shield[j]
        PROVE  FALSE
    <3>1. u \in cache[j][pair[1]] /\ u \in cache[j][pair[2]]
      BY <2>0, <2>2, <2>3 DEF CacheOk, Spared
    <3> QED BY <2>2, <3>1 DEF Witnesses
  <2> QED BY <2>2, <2>3
<1>2. Spec => [][Spares]_vars
  BY <1>1, EntitiesSpares, PTL DEF Spec
<1> QED BY <1>2 DEF PruneSparesWitnessed

-----------------------------------------------------------------------------
(* What is read beside the writers and the jobs (Enrichment).              *)

\* A reader changes nothing: whatever holds of the entities holds beside it.
THEOREM EnrichmentReadsOnly == EnrichmentSpec => FairSpec
<1>1. EnrichmentInit => Init
  BY DEF EnrichmentInit
<1>2. [EnrichmentNext]_enrichment => [Next]_vars
  <2> SUFFICES ASSUME [EnrichmentNext]_enrichment PROVE [Next]_vars
    OBVIOUS
  <2>1. CASE Meanwhile
    BY <2>1 DEF Meanwhile
  <2>2. CASE UNCHANGED enrichment
    BY <2>2 DEF enrichment
  <2>3. CASE \/ FetchSources \/ FetchRows \/ FetchNames \/ BeginCount \/ ReadBank \/ ReadLinks
    BY <2>3 DEF FetchSources, FetchRows, FetchNames, BeginCount, ReadBank, ReadLinks
  <2> QED BY <2>1, <2>2, <2>3 DEF EnrichmentNext
<1> QED BY <1>1, <1>2, PTL DEF EnrichmentSpec, FairSpec, Spec

\* A set of numbers has a least one, and a bounded one has a greatest.
LEMMA LeastNumber ==
  ASSUME NEW S \in SUBSET Nat, S # {}
  PROVE  \E n \in S : \A m \in S : n <= m
<1> DEFINE Less == {p \in Nat \X Nat : p[1] < p[2]}
<1>1. IsWellFoundedOn(Less, Nat)
  BY NatLessThanWellFounded DEF OpToRel
<1>2. PICK n \in S : \A m \in S : ~(<<m, n>> \in Less)
  BY <1>1, WFMin
<1>3. \A m \in S : ~(m < n)
  BY <1>2
<1> QED BY <1>3

LEMMA GreatestKey ==
  ASSUME NEW S \in SUBSET Ids, S # {}
  PROVE  Max(S) \in S /\ \A k \in S : k <= Max(S)
<1>0. MaxIds \in Nat /\ \A k \in S : k \in Nat /\ k <= MaxIds
  BY EntitiesAssumption DEF Ids
<1> DEFINE gaps == {MaxIds - k : k \in S}
<1>1. gaps \in SUBSET Nat /\ gaps # {}
  BY <1>0
<1>2. PICK g \in gaps : \A h \in gaps : g <= h
  BY <1>1, LeastNumber
<1>3. PICK k \in S : g = MaxIds - k
  BY <1>2
<1>4. \A h \in S : MaxIds - k <= MaxIds - h
  BY <1>2, <1>3
<1>5. \A h \in S : k >= h
  BY <1>0, <1>4
<1>6. Max(S) \in S /\ \A h \in S : Max(S) >= h
  BY <1>5 DEF Max
<1> QED BY <1>0, <1>6

\* What has a key after the last one is in the page, or comes after all of it.
LEMMA PageIs ==
  ASSUME NEW keys \in SUBSET Ids, after \in Nat
  PROVE  /\ Page(keys) \subseteq keys
         /\ Page(keys) = {} => \A e \in keys : ~(KeyOrder[e] > after)
         /\ Page(keys) # {} =>
              /\ Max({KeyOrder[e] : e \in Page(keys)}) \in Nat
              /\ \A e \in keys \ Page(keys) :
                   KeyOrder[e] > after => KeyOrder[e] > Max({KeyOrder[d] : d \in Page(keys)})
<1>0. /\ KeyOrder \in [Ids -> Ids] /\ Ids \subseteq Nat /\ PageSize \in Nat \ {0} /\ MaxIds \in Nat
  BY EnrichmentAssumption, EntitiesAssumption DEF Ids
<1> DEFINE rest == AfterLast(keys)
<1>1. rest \subseteq Ids /\ IsFiniteSet(rest) /\ \A e \in keys : KeyOrder[e] > after => e \in rest
  <2>1. IsFiniteSet(Ids)
    BY <1>0, FS_Interval DEF Ids
  <2> QED BY <2>1, FS_Subset DEF AfterLast
<1>2. \A e \in rest : /\ IsFiniteSet(Before(e, rest)) /\ Cardinality(Before(e, rest)) \in Nat
  <2> SUFFICES ASSUME NEW e \in rest
               PROVE  IsFiniteSet(Before(e, rest)) /\ Cardinality(Before(e, rest)) \in Nat
    OBVIOUS
  <2>1. Before(e, rest) \in SUBSET rest
    BY DEF Before
  <2> QED BY <1>1, <2>1, FS_Subset, FS_CardinalityType
<1>3. Page(keys) = {e \in rest : Cardinality(Before(e, rest)) < PageSize} /\ rest \subseteq keys
  BY DEF Page, AfterLast
<1> HIDE DEF rest
<1>4. ASSUME Page(keys) = {}, rest # {} PROVE FALSE
  <2> DEFINE orders == {KeyOrder[e] : e \in rest}
  <2>1. orders \in SUBSET Nat /\ orders # {}
    BY <1>0, <1>1, <1>4
  <2>2. PICK k \in orders : \A m \in orders : k <= m
    BY <2>1, LeastNumber
  <2>3. PICK e \in rest : k = KeyOrder[e]
    BY <2>2
  <2>4. Before(e, rest) = {}
    <3> SUFFICES ASSUME NEW d \in rest, KeyOrder[d] < KeyOrder[e] PROVE FALSE
      BY DEF Before
    <3>1. KeyOrder[d] \in orders /\ KeyOrder[d] \in Nat /\ KeyOrder[e] \in Nat
      BY <2>1, <2>3
    <3> QED BY <2>2, <2>3, <3>1
  <2>5. Cardinality(Before(e, rest)) < PageSize
    BY <1>0, <2>4, FS_EmptySet
  <2> QED BY <1>3, <1>4, <2>5
<1>5. ASSUME NEW d \in Page(keys), NEW e \in rest \ Page(keys) PROVE KeyOrder[e] > KeyOrder[d]
  <2>1. KeyOrder[e] \in Nat /\ KeyOrder[d] \in Nat /\ d \in rest
    BY <1>0, <1>1, <1>3
  <2>2. SUFFICES ASSUME KeyOrder[e] <= KeyOrder[d] PROVE FALSE
    BY <2>1
  <2>3. Before(e, rest) \subseteq Before(d, rest)
    <3> SUFFICES ASSUME NEW c \in rest, KeyOrder[c] < KeyOrder[e] PROVE KeyOrder[c] < KeyOrder[d]
      BY DEF Before
    <3>1. KeyOrder[c] \in Nat
      BY <1>0, <1>1
    <3> QED BY <2>1, <2>2, <3>1
  <2>4. Cardinality(Before(e, rest)) <= Cardinality(Before(d, rest))
    BY <1>2, <2>1, <2>3, FS_Subset
  <2>5. Cardinality(Before(d, rest)) < PageSize /\ ~(Cardinality(Before(e, rest)) < PageSize)
    BY <1>3
  <2> QED BY <1>0, <1>2, <2>1, <2>4, <2>5
<1>6. ASSUME Page(keys) # {}
      PROVE  /\ Max({KeyOrder[e] : e \in Page(keys)}) \in Nat
             /\ \A e \in rest \ Page(keys) : KeyOrder[e] > Max({KeyOrder[d] : d \in Page(keys)})
  <2> DEFINE orders == {KeyOrder[e] : e \in Page(keys)}
  <2>1. orders \in SUBSET Ids /\ orders # {}
    BY <1>0, <1>1, <1>3, <1>6
  <2>2. Max(orders) \in orders
    BY <2>1, GreatestKey
  <2>3. PICK d \in Page(keys) : Max(orders) = KeyOrder[d]
    BY <2>2
  <2>4. \A e \in rest \ Page(keys) : KeyOrder[e] > Max(orders)
    BY <1>5, <2>3
  <2> QED BY <1>0, <2>1, <2>2, <2>4
<1> QED BY <1>1, <1>3, <1>4, <1>6

-----------------------------------------------------------------------------
\* the rows of the answer to come are searched until they are told
ToldInv ==
  /\ promised \subseteq rows.snap
  /\ found \subseteq Ids /\ after \in Nat
  /\ reading \in {"rows", "names", "idle"} => after = 0
  /\ reading = "idle" => found = {}
  /\ reading = "names" => promised = {} /\ \A e \in found : AsIs(e)
  /\ Counting => \A r \in promised : r[2] \in SearchedIds
  /\ reading = "bank" => \A r \in promised : r[2] \in found \/ KeyOrder[r[2]] > after
  /\ reading = "links" => \A r \in promised : r[2] \in found /\ KeyOrder[r[2]] > after

AnswerInv == HeldInv /\ ToldInv

\* An entity that is there, and found as it is, has a name.
LEMMA NamedAsIs ==
  ASSUME NEW e \in Ids, AsIs(e), e \in LiveIds
  PROVE  e \in SearchedIds
BY DEF AsIs, LiveIds, SearchedIds

\* A row that is searched is searched after a step that leaves it there.
LEMMA StaysSearched ==
  ASSUME TypeOK, [Next]_vars, NEW r \in rows.snap, r \in rows'.live
  PROVE  r \in rows'.snap
<1>1. ASSUME NEW w \in Writers, NEW n \in Names, InsertRow(w, n) PROVE rows'.snap = rows.snap
  BY <1>1 DEF InsertRow, TypeOK, Index
<1>2. ASSUME NEW w \in Writers, PurgeRows(w) PROVE rows'.snap = rows'.live
  BY <1>2 DEF PurgeRows
<1>3. ASSUME RefreshRows PROVE rows'.snap = rows'.live
  BY <1>3 DEF RefreshRows, TypeOK, Index
<1> QED BY <1>1, <1>2, <1>3, RowsStep

LEMMA EnrichmentTells == EnrichmentSpec => []AnswerInv
<1> USE EntitiesAssumption, EnrichmentAssumption
<1>1. EnrichmentInit => ToldInv
  BY DEF EnrichmentInit, ToldInv, Init, Counting
<1>2. EnrichmentSpec => []HeldInv
  BY EnrichmentReadsOnly, EntitiesHeld, PTL DEF FairSpec
<1>3. AnswerInv /\ [EnrichmentNext]_enrichment /\ HeldInv' => AnswerInv'
  <2> SUFFICES ASSUME AnswerInv, [EnrichmentNext]_enrichment, HeldInv' PROVE ToldInv'
    BY DEF AnswerInv
  <2>0. /\ ToldInv /\ HeldInv /\ TypeOK /\ IdsInv /\ RowsInv
        /\ rows.snap \subseteq rows.live /\ rows.live \subseteq Writers \X Ids
        /\ promised \subseteq rows.snap /\ found \subseteq Ids
        /\ SearchedIds \subseteq Ids /\ (\A e \in Ids : KeyOrder[e] > 0)
        /\ after \in Nat
    <3>1. SearchedIds \subseteq Ids
      BY DEF SearchedIds, AnswerInv, HeldInv, IdsInv, TypeInv, TypeOK, Copies
    <3>2. \A e \in Ids : KeyOrder[e] > 0
      BY DEF Ids
    <3>3. rows.live \subseteq Writers \X Ids
      BY DEF AnswerInv, HeldInv, IdsInv, TypeInv, TypeOK, Index
    <3> QED BY <3>1, <3>2, <3>3 DEF AnswerInv, HeldInv, IdsInv, TypeInv, RowsInv, ToldInv
  <2> USE DEF Counting
  <2>1. ASSUME Meanwhile PROVE ToldInv'
    <3>1. /\ [Next]_vars
          /\ promised' = {r \in promised \intersect rows'.live : Counting => r[2] \in LiveIds'}
          /\ \/ UNCHANGED <<reading, found, after>>
             \/ reading' = "idle" /\ found' = {} /\ after' = 0
      BY <2>1 DEF Meanwhile
    <3>2. promised' \subseteq rows'.snap /\ promised' \subseteq promised
      BY <2>0, <3>1, StaysSearched
    <3>3. \A e \in found : AsIs(e) => AsIs(e)'
      BY <2>0, <3>1, StaysAsIs
    <3>4. ASSUME Counting, NEW r \in promised' PROVE r[2] \in SearchedIds'
      <4>1. r[2] \in LiveIds' /\ r \in rows'.live /\ r[2] \in Ids
        BY <2>0, <3>1, <3>4
      <4>2. AsIs(r[2])'
        BY <4>1 DEF HeldInv, RowsInv
      <4> QED BY <4>1, <4>2 DEF AsIs, LiveIds, SearchedIds
    <3>5. CASE UNCHANGED <<reading, found, after>>
      BY <2>0, <3>2, <3>3, <3>4, <3>5 DEF ToldInv
    <3>6. CASE reading' = "idle" /\ found' = {} /\ after' = 0
      BY <2>0, <3>2, <3>6 DEF ToldInv
    <3> QED BY <3>1, <3>5, <3>6
  <2>2. ASSUME UNCHANGED vars,
               \/ FetchSources \/ BeginCount \/ FetchRows \/ FetchNames \/ ReadBank \/ ReadLinks
        PROVE  /\ SearchedIds' = SearchedIds
               /\ rows' = rows /\ \A e \in found' : AsIs(e) => AsIs(e)'
    BY <2>2 DEF vars, SearchedIds, AsIs
  <2>3. ASSUME FetchSources PROVE ToldInv'
    BY <2>0, <2>3 DEF FetchSources, ToldInv, vars
  <2>4. ASSUME BeginCount PROVE ToldInv'
    <3>1. /\ reading' = "bank" /\ reading = "idle" /\ UNCHANGED <<rows, entities, found, after>>
          /\ promised' = {r \in rows.snap : r[2] \in SearchedIds}
      BY <2>4 DEF BeginCount, vars
    <3>2. \A r \in promised' : r[2] \in Ids /\ KeyOrder[r[2]] > 0
      BY <2>0, <3>1
    <3> QED BY <2>0, <3>1, <3>2 DEF ToldInv, SearchedIds
  <2>5. ASSUME FetchRows PROVE ToldInv'
    <3>1. PICK S \in SUBSET {r \in rows.snap : r[1] \in Lookup} :
            /\ found' = UNION {EntitiesOf(u, S) : u \in Asked}
            /\ promised' = IF S = {r \in rows.snap : r[1] \in Lookup} THEN Untold(S) ELSE {}
      BY <2>5 DEF FetchRows
    <3>2. reading' = "names" /\ reading = "rows" /\ UNCHANGED <<vars, after>>
      BY <2>5 DEF FetchRows
    <3>3. promised' = {}
      <4> SUFFICES ASSUME S = {r \in rows.snap : r[1] \in Lookup}, NEW r \in promised, NEW u \in Asked,
                          r[1] = u \/ (u \in heirs /\ r[1] \in SourcesOf[u])
                   PROVE  r[2] \in EntitiesOf(u, S)
        BY <3>1 DEF Untold
      <4>1. r \in rows.snap /\ r[1] \in Lookup
        BY <2>0 DEF Lookup
      <4> QED BY <4>1 DEF EntitiesOf
    <3>4. \A e \in found' : \E r \in rows.snap : e = r[2]
      BY <3>1 DEF EntitiesOf
    <3>5. \A e \in found' : e \in Ids /\ AsIs(e)
      BY <2>0, <3>4 DEF RowsInv
    <3>6. \A e \in found' : AsIs(e)'
      BY <3>2, <3>5 DEF vars, AsIs
    <3> QED BY <2>0, <3>2, <3>3, <3>5, <3>6 DEF ToldInv
  <2>6. ASSUME FetchNames PROVE ToldInv'
    <3>1. reading = "names" /\ reading' = "idle" /\ found' = {} /\ promised' = {} /\ UNCHANGED <<rows, after>>
      BY <2>6 DEF FetchNames, vars
    <3> QED BY <2>0, <3>1 DEF ToldInv
  <2>7. ASSUME ReadBank PROVE ToldInv'
    <3> DEFINE page == Page(SearchedIds)
    <3>1. /\ reading = "bank" /\ UNCHANGED <<rows, entities>>
          /\ after' = IF page = {} THEN 0 ELSE Max({KeyOrder[e] : e \in page})
          /\ IF page = {} /\ found = {}
               THEN reading' = "idle" /\ found' = {} /\ promised' = {}
               ELSE /\ found' = found \union page
                    /\ reading' = IF page = {} THEN "links" ELSE "bank"
                    /\ promised' = promised
      BY <2>7 DEF ReadBank, Advance, Counted, vars
    <3>2. /\ page \subseteq SearchedIds
          /\ page = {} => \A e \in SearchedIds : ~(KeyOrder[e] > after)
          /\ page # {} =>
               /\ Max({KeyOrder[e] : e \in page}) \in Nat
               /\ \A e \in SearchedIds \ page :
                    KeyOrder[e] > after => KeyOrder[e] > Max({KeyOrder[d] : d \in page})
      BY <2>0, PageIs
    <3> HIDE DEF page
    <3>3. \A r \in promised : r[2] \in SearchedIds /\ (r[2] \in found \/ KeyOrder[r[2]] > after)
      BY <2>0, <3>1 DEF ToldInv
    <3>4. SearchedIds' = SearchedIds /\ found' \subseteq Ids /\ after' \in Nat
      BY <2>0, <3>1, <3>2 DEF SearchedIds
    <3>5. CASE page = {} /\ found = {}
      BY <2>0, <3>1, <3>4, <3>5 DEF ToldInv
    <3>6. CASE page = {} /\ found # {}
      <4>1. \A r \in promised : r[2] \in found /\ KeyOrder[r[2]] > 0
        BY <2>0, <3>2, <3>3, <3>6
      <4> QED BY <2>0, <3>1, <3>3, <3>4, <3>6, <4>1 DEF ToldInv
    <3>7. CASE page # {}
      <4>1. \A r \in promised : r[2] \in found' \/ KeyOrder[r[2]] > after'
        BY <3>1, <3>2, <3>3, <3>7
      <4> QED BY <2>0, <3>1, <3>3, <3>4, <3>7, <4>1 DEF ToldInv
    <3> QED BY <3>5, <3>6, <3>7
  <2>8. ASSUME ReadLinks PROVE ToldInv'
    <3> DEFINE keys == {r[2] : r \in rows.snap}
               page == Page(keys)
    <3>1. /\ reading = "links" /\ UNCHANGED <<rows, entities>>
          /\ after' = IF page = {} THEN 0 ELSE Max({KeyOrder[e] : e \in page})
          /\ IF page = {}
               THEN reading' = "idle" /\ found' = {} /\ promised' = {}
               ELSE /\ promised' = {r \in promised : r[2] \notin page \intersect found}
                    /\ reading' = reading /\ found' = found
      BY <2>8 DEF ReadLinks, Advance, Counted, vars
    <3>a. keys \in SUBSET Ids
      BY <2>0
    <3>b. \A r \in promised : r[2] \in keys
      BY <2>0
    <3> HIDE DEF keys
    <3>2. page # {} =>
            /\ Max({KeyOrder[e] : e \in page}) \in Nat
            /\ \A e \in keys \ page :
                 KeyOrder[e] > after => KeyOrder[e] > Max({KeyOrder[d] : d \in page})
      BY <2>0, <3>a, PageIs
    <3> HIDE DEF page
    <3>3. \A r \in promised : r[2] \in SearchedIds /\ r[2] \in found /\ KeyOrder[r[2]] > after
      BY <2>0, <3>1 DEF ToldInv
    <3>4. SearchedIds' = SearchedIds /\ found' \subseteq Ids /\ after' \in Nat
      BY <2>0, <3>1, <3>2 DEF SearchedIds
    <3>5. CASE page = {}
      BY <2>0, <3>1, <3>4, <3>5 DEF ToldInv
    <3>6. CASE page # {}
      <4>1. \A r \in promised' : r \in promised /\ r[2] \in found /\ KeyOrder[r[2]] > after'
        BY <3>1, <3>2, <3>3, <3>b, <3>6
      <4> QED BY <2>0, <3>1, <3>3, <3>4, <3>6, <4>1 DEF ToldInv
    <3> QED BY <3>5, <3>6
  <2>9. CASE UNCHANGED enrichment
    BY <2>0, <2>9 DEF enrichment, vars, reader, ToldInv, AsIs, SearchedIds
  <2> QED BY <2>1, <2>3, <2>4, <2>5, <2>6, <2>7, <2>8, <2>9 DEF EnrichmentNext
<1>4. HeldInv /\ ToldInv => AnswerInv
  BY DEF AnswerInv
<1>5. EnrichmentSpec => EnrichmentInit /\ [][EnrichmentNext]_enrichment
  BY PTL DEF EnrichmentSpec
<1> QED BY <1>1, <1>2, <1>3, <1>4, <1>5, PTL

\* What is read over several searches lacks nothing that was there throughout, and
\* gives no entity without its name that is there.
THEOREM EnrichmentAnswersAreWhole == EnrichmentSpec => AnswersAreWhole
<1> USE EntitiesAssumption, EnrichmentAssumption
<1>1. AnswerInv /\ [EnrichmentNext]_enrichment => [NamesAreWhole /\ CountsAreWhole]_enrichment
  <2> SUFFICES ASSUME AnswerInv, EnrichmentNext PROVE NamesAreWhole /\ CountsAreWhole
    OBVIOUS
  <2>0. /\ ToldInv /\ after \in Nat /\ promised \subseteq rows.snap /\ found \subseteq Ids
        /\ rows.snap \subseteq Writers \X Ids /\ SearchedIds \subseteq Ids
    <3>1. SearchedIds \subseteq Ids
      BY DEF SearchedIds, AnswerInv, HeldInv, IdsInv, TypeInv, TypeOK, Copies
    <3> QED BY <3>1 DEF AnswerInv, HeldInv, IdsInv, TypeInv, TypeOK, ToldInv, Index
  <2>1. NamesAreWhole
    BY <2>0, NamedAsIs DEF NamesAreWhole, Nameless, ToldInv
  <2>2. ASSUME Counting, reading' = "idle", NEW r \in promised \intersect rows'.live
        PROVE  r[2] \notin LiveIds'
    <3>1. CASE Meanwhile
      BY <2>2, <3>1 DEF Meanwhile, Counting
    <3>2. CASE ReadBank
      <4>1. Page(SearchedIds) = {} /\ found = {} /\ reading = "bank"
        BY <2>2, <3>2 DEF ReadBank
      <4>2. r[2] \in SearchedIds /\ KeyOrder[r[2]] > after
        BY <2>0, <2>2, <4>1 DEF ToldInv
      <4> QED BY <2>0, <4>1, <4>2, PageIs
    <3>3. CASE ReadLinks
      <4> DEFINE keys == {q[2] : q \in rows.snap}
      <4>1. Page(keys) = {} /\ reading = "links"
        BY <2>2, <3>3 DEF ReadLinks
      <4>2. r[2] \in keys /\ KeyOrder[r[2]] > after /\ keys \in SUBSET Ids
        BY <2>0, <2>2, <4>1 DEF ToldInv
      <4> HIDE DEF keys
      <4> QED BY <2>0, <4>1, <4>2, PageIs
    <3>4. CASE FetchSources \/ FetchRows \/ FetchNames \/ BeginCount
      BY <2>2, <3>4 DEF FetchSources, FetchRows, FetchNames, BeginCount, Counting
    <3> QED BY <3>1, <3>2, <3>3, <3>4 DEF EnrichmentNext
  <2> QED BY <2>1, <2>2 DEF CountsAreWhole
<1>2. EnrichmentSpec => [][EnrichmentNext]_enrichment
  BY PTL DEF EnrichmentSpec
<1> QED BY <1>1, <1>2, EnrichmentTells, PTL DEF AnswersAreWhole
=============================================================================
