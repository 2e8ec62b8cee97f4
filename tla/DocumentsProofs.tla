--------------------------- MODULE DocumentsProofs ---------------------------
(***************************************************************************)
(* Documents for every number of ingests, documents and faults.            *)
(*                                                                         *)
(* What has returned can be searched as it is (AnswerInv), so a purge that *)
(* begins then collects it, and deletes what it collects, if nobody has    *)
(* before (PurgeInv). A unit only goes with a purge that took it, so an    *)
(* end that is missing belongs to a link that came after such a purge had  *)
(* begun (TakenInv). An ingest that nobody overlaps finds all of the       *)
(* former ones, and leaves its own unit and row (SoloInv).                 *)
(***************************************************************************)
EXTENDS Documents, ElasticProofs

\* Writing a document keeps an index what it is, and changes no other one.
LEMMA WrittenIs ==
  ASSUME NEW docs, NEW index \in Index(docs), NEW w \in Ingests, NEW doc \in docs,
         doc # Missing
  PROVE  /\ Written(index, w, doc) \in Index(docs)
         /\ Written(index, w, doc).snap = index.snap
         /\ Written(index, w, doc).live[w] = [seq |-> index.live[w].seq + 1, doc |-> doc]
         /\ \A u \in Ingests : u # w => Written(index, w, doc).live[u] = index.live[u]
<1>1. Put(index.live, w, doc) \in [Ingests -> Copies(docs)]
  BY PutType DEF Index
<1> QED BY <1>1 DEF Written, Index, Put

\* delete_by_query: what is left was there, what was found as it is is gone, and
\* what can be searched waits for the refresh.
LEMMA DeletedIs ==
  ASSUME NEW docs, NEW index \in Index(docs), NEW ids
  PROVE  /\ DeleteByQuery(index, ids) \in Index(docs)
         /\ DeleteByQuery(index, ids).snap = index.snap
         /\ \A u \in Ingests :
              /\ Exists(DeleteByQuery(index, ids).live, u) =>
                   /\ Exists(index.live, u)
                   /\ DeleteByQuery(index, ids).live[u] = index.live[u]
              /\ u \in ids /\ index.live[u].seq = index.snap[u].seq =>
                   ~Exists(DeleteByQuery(index, ids).live, u)
<1> DEFINE kept == [u \in Ingests |->
                     IF u \in ids /\ index.live[u].seq = index.snap[u].seq
                       THEN [seq |-> index.live[u].seq + 1, doc |-> Missing]
                       ELSE index.live[u]]
<1>1. DeleteByQuery(index, ids) = [index EXCEPT !.live = kept]
  BY DEF DeleteByQuery
<1>2. kept \in [Ingests -> Copies(docs)]
  BY DEF Index, Copies
<1>3. \A u \in Ingests : kept[u] = IF u \in ids /\ index.live[u].seq = index.snap[u].seq
                                     THEN [seq |-> index.live[u].seq + 1, doc |-> Missing]
                                     ELSE index.live[u]
  OBVIOUS
<1> HIDE DEF kept
<1> QED BY <1>1, <1>2, <1>3 DEF Index, Exists

\* delete_by_query leaves alone what it was not asked for, and no write is undone
LEMMA DeletedOnly ==
  ASSUME NEW docs, NEW index \in Index(docs), NEW ids, NEW u \in Ingests
  PROVE  /\ u \notin ids => DeleteByQuery(index, ids).live[u] = index.live[u]
         /\ index.live[u].seq # 0 => DeleteByQuery(index, ids).live[u].seq # 0
         /\ DeleteByQuery(index, ids).live[u].seq # 0 => index.live[u].seq # 0 \/ u \in ids
<1> DEFINE kept == [v \in Ingests |->
                     IF v \in ids /\ index.live[v].seq = index.snap[v].seq
                       THEN [seq |-> index.live[v].seq + 1, doc |-> Missing]
                       ELSE index.live[v]]
<1>1. DeleteByQuery(index, ids).live = kept
  BY DEF DeleteByQuery, Index
<1>2. kept[u] = IF u \in ids /\ index.live[u].seq = index.snap[u].seq
                  THEN [seq |-> index.live[u].seq + 1, doc |-> Missing]
                  ELSE index.live[u]
  OBVIOUS
<1>3. index.live[u].seq \in Nat
  BY DEF Index, Copies
<1> HIDE DEF kept
<1> QED BY <1>1, <1>2, <1>3

LEMMA RefreshedIs ==
  ASSUME NEW docs, NEW index \in Index(docs)
  PROVE  /\ Refreshed(index) \in Index(docs) /\ AfterDeletes(index) = Refreshed(index)
         /\ Refreshed(index).live = index.live /\ Refreshed(index).snap = index.live
BY DEF Refreshed, AfterDeletes, Index

-----------------------------------------------------------------------------
\* whoever is about a link has picked a unit to link to
HasTarget == \A w \in Ingests : pc[w] \in {"check", "create", "created"} => target[w] \in Ingests

TypeInv == TypeOK /\ HasTarget

\* The types are preserved by every call of an ingest, by faults and by the
\* server.
LEMMA DocumentsTypeInv == Spec => []TypeInv
<1> USE DocumentsAssumption
<1>1. Init => TypeInv
  BY DEF Init, TypeInv, HasTarget, TypeOK, Index, Empty, EmptyIndex, Copies, Active, Purging, Calls
<1>2. TypeInv /\ [Next]_vars => TypeInv'
  <2> SUFFICES ASSUME TypeInv, [Next]_vars PROVE TypeInv'
    OBVIOUS
  <2> USE DEF TypeInv, HasTarget, TypeOK, Goto, indexes, history, Active, Purging
  <2>1. ASSUME NEW w \in Ingests, Lock(w) PROVE TypeInv'
    BY <2>1 DEF Lock, TheDocuments
  <2>2. ASSUME NEW w \in Ingests, ReadHash(w) PROVE TypeInv'
    BY <2>2 DEF ReadHash
  <2>3. ASSUME NEW w \in Ingests, CollectUnits(w) PROVE TypeInv'
    <3>1. AllPages(w) \subseteq Ingests
      BY DEF AllPages, InSearch
    <3> QED BY <2>3, <3>1 DEF CollectUnits
  <2>4. ASSUME NEW w \in Ingests, DeleteLinks(w) PROVE TypeInv'
    BY <2>4, DeletedIs DEF DeleteLinks
  <2>5. ASSUME NEW w \in Ingests, DeleteRows(w) PROVE TypeInv'
    BY <2>5, DeletedIs DEF DeleteRows
  <2>6. ASSUME NEW w \in Ingests, DeleteUnits(w) PROVE TypeInv'
    BY <2>6, DeletedIs DEF DeleteUnits
  <2>7. ASSUME NEW w \in Ingests, InsertFacts(w) PROVE TypeInv'
    BY <2>7, WrittenIs DEF InsertFacts
  <2>8. ASSUME NEW w \in Ingests, FactsAnswered(w) PROVE TypeInv'
    BY <2>8 DEF FactsAnswered, Calls
  <2>9. ASSUME NEW w \in Ingests, InsertRow(w) PROVE TypeInv'
    BY <2>9, WrittenIs DEF InsertRow
  <2>10. ASSUME NEW w \in Ingests, RowAnswered(w) PROVE TypeInv'
    BY <2>10 DEF RowAnswered, Calls
  <2>11. ASSUME NEW w \in Ingests, PickTarget(w) PROVE TypeInv'
    BY <2>11 DEF PickTarget, InSearch
  <2>12. ASSUME NEW w \in Ingests, CheckEndpoints(w) PROVE TypeInv'
    BY <2>12 DEF CheckEndpoints
  <2>13. ASSUME NEW w \in Ingests, CreateLink(w) PROVE TypeInv'
    <3>1. target[w] \in Ingests /\ target[w] # Missing
      BY <2>13 DEF CreateLink
    <3>2. Written(links, w, target[w]) \in Index(Ingests)
      BY <3>1, WrittenIs
    <3> QED BY <2>13, <3>2 DEF CreateLink
  <2>14. ASSUME NEW w \in Ingests, LinkAnswered(w) PROVE TypeInv'
    BY <2>14 DEF LinkAnswered, Calls
  <2>15. ASSUME NEW w \in Ingests, Finalize(w) PROVE TypeInv'
    BY <2>15 DEF Finalize
  <2>16. ASSUME NEW w \in Ingests, Crash(w) PROVE TypeInv'
    BY <2>16 DEF Crash
  <2>17. ASSUME NEW w \in Ingests, InsertTimesOut(w) PROVE TypeInv'
    BY <2>17 DEF InsertTimesOut
  <2>18. CASE Refresh
    BY <2>18, RefreshedIs DEF Refresh
  <2>19. CASE UNCHANGED vars
    BY <2>19 DEF vars
  <2>20. ASSUME NEW w \in Ingests, LinksDeleted(w) PROVE TypeInv'
    BY <2>20, RefreshedIs DEF LinksDeleted
  <2>21. ASSUME NEW w \in Ingests, RowsDeleted(w) PROVE TypeInv'
    BY <2>21, RefreshedIs DEF RowsDeleted
  <2>22. ASSUME NEW w \in Ingests, UnitsDeleted(w) PROVE TypeInv'
    BY <2>22, RefreshedIs DEF UnitsDeleted
  <2> QED
    BY <2>1, <2>2, <2>3, <2>4, <2>5, <2>6, <2>7, <2>8, <2>9, <2>10, <2>11, <2>12, <2>13,
       <2>14, <2>15, <2>16, <2>17, <2>18, <2>19, <2>20, <2>21, <2>22 DEF Next
<1> QED BY <1>1, <1>2, PTL DEF Spec

\* The types, as the runs state them.
THEOREM DocumentsType == Spec => []TypeOK
<1>1. TypeInv => TypeOK
  BY DEF TypeInv
<1> QED BY <1>1, DocumentsTypeInv, PTL

-----------------------------------------------------------------------------
(* What an insert that has returned leaves behind. *)

Over == {"finalize", "done", "dead"}
AfterRow == Over \union {"pick", "check", "create", "created"}
AfterUnit == AfterRow \union {"row", "rowed"}

\* the copy that can be searched is an older one, or the same
Lags(index) ==
  \A u \in Ingests : /\ index.snap[u].seq <= index.live[u].seq
                     /\ index.snap[u].seq = index.live[u].seq => index.snap[u] = index.live[u]

\* what has returned can be searched as it is until it is deleted, and is not
\* inserted again
Answered(call, index, phases) ==
  \A u \in Ingests : <<call, u>> \in returned =>
    pc[u] \in phases /\ (Exists(index.live, u) => index.snap[u] = index.live[u])

\* a link goes where its ingest has picked
LinkGoes ==
  \A u \in Ingests : Exists(links.live, u) =>
    /\ links.live[u].doc = target[u]
    /\ pc[u] \in Over \union {"check", "create", "created"}

AnswerInv ==
  /\ TypeInv
  /\ Lags(units) /\ Lags(rows) /\ Lags(links)
  /\ Answered("unit", units, AfterUnit)
  /\ Answered("row", rows, AfterRow)
  /\ Answered("link", links, Over)
  /\ LinkGoes

\* Writing and deleting make an index lag.
LEMMA WrittenLags ==
  ASSUME NEW docs, NEW index \in Index(docs), NEW w \in Ingests, NEW doc \in docs,
         doc # Missing, Lags(index)
  PROVE  Lags(Written(index, w, doc))
<1> DEFINE new == Written(index, w, doc)
<1>1. /\ new.snap = index.snap
      /\ new.live[w] = [seq |-> index.live[w].seq + 1, doc |-> doc]
      /\ \A u \in Ingests : u # w => new.live[u] = index.live[u]
  BY WrittenIs
<1>2. index.live[w].seq \in Nat /\ index.snap[w].seq \in Nat
  BY DEF Index, Copies
<1> HIDE DEF new
<1>3. ASSUME NEW u \in Ingests
      PROVE  /\ new.snap[u].seq <= new.live[u].seq
             /\ new.snap[u].seq = new.live[u].seq => new.snap[u] = new.live[u]
  <2>1. CASE u = w
    <3>1. index.snap[w].seq <= index.live[w].seq
      BY DEF Lags
    <3>2. new.live[w].seq = index.live[w].seq + 1 /\ new.snap[w] = index.snap[w]
      BY <1>1
    <3> QED BY <2>1, <3>1, <3>2, <1>2
  <2>2. CASE u # w
    BY <1>1, <2>2 DEF Lags
  <2> QED BY <2>1, <2>2
<1> QED BY <1>3 DEF Lags, new

LEMMA DeletedLags ==
  ASSUME NEW docs, NEW index \in Index(docs), NEW ids, Lags(index)
  PROVE  Lags(DeleteByQuery(index, ids))
<1> DEFINE new == DeleteByQuery(index, ids)
<1>1. /\ new.snap = index.snap
      /\ \A u \in Ingests : new.live[u] = index.live[u] \/ new.live[u].seq = index.live[u].seq + 1
  BY DEF DeleteByQuery, Index
<1>2. \A u \in Ingests : index.live[u].seq \in Nat /\ index.snap[u].seq \in Nat
  BY DEF Index, Copies
<1> HIDE DEF new
<1>3. ASSUME NEW u \in Ingests
      PROVE  /\ new.snap[u].seq <= new.live[u].seq
             /\ new.snap[u].seq = new.live[u].seq => new.snap[u] = new.live[u]
  <2>1. CASE new.live[u] = index.live[u]
    BY <1>1, <2>1 DEF Lags
  <2>2. CASE new.live[u].seq = index.live[u].seq + 1
    <3>1. index.snap[u].seq <= index.live[u].seq /\ new.snap[u] = index.snap[u]
      BY <1>1 DEF Lags
    <3> QED BY <1>2, <2>2, <3>1
  <2> QED BY <1>1, <2>1, <2>2
<1> QED BY <1>3 DEF Lags, new

LEMMA EvenLags ==
  ASSUME NEW docs, NEW index \in Index(docs), index.snap = index.live
  PROVE  Lags(index)
BY DEF Lags, Index, Copies

\* A refreshed insert can be searched as it is, or is deleted by now.
LEMMA RefreshedAnswer ==
  ASSUME NEW docs, NEW index \in Index(docs), NEW w \in Ingests, Lags(index),
         IsRefreshed(index, w), Exists(index.live, w)
  PROVE  index.snap[w] = index.live[w]
<1>1. index.live[w].seq \in Nat /\ index.snap[w].seq \in Nat
  BY DEF Index, Copies
<1>2. index.snap[w].seq = index.live[w].seq
  BY <1>1 DEF Lags, IsRefreshed, Searchable
<1> QED BY <1>2 DEF Lags

\* Whatever has returned stays: it can be searched as it is, or is deleted.
LEMMA DocumentsAnswers == Spec => []AnswerInv
<1> USE DocumentsAssumption
<1>1. Init /\ TypeInv => AnswerInv
  BY DEF Init, AnswerInv, Lags, Answered, LinkGoes, Empty, EmptyIndex, Exists, Over
<1>2. AnswerInv /\ [Next]_vars /\ TypeInv' => AnswerInv'
  <2> SUFFICES ASSUME AnswerInv, [Next]_vars, TypeInv' PROVE AnswerInv'
    OBVIOUS
  <2> USE DEF AnswerInv, Goto, indexes, history
  <2>0. /\ units \in Index({"row"}) /\ rows \in Index({"row"}) /\ links \in Index(Ingests)
        /\ pc \in [Ingests -> Active \union {"lock", "done", "dead"}]
        /\ target \in [Ingests -> Ingests \union {NoLink}]
    BY DEF TypeInv, TypeOK
  <2> USE DEF Answered, LinkGoes, Over, AfterRow, AfterUnit
  <2>1. ASSUME NEW w \in Ingests, Lock(w) PROVE AnswerInv'
    BY <2>0, <2>1 DEF Lock, Lags
  <2>2. ASSUME NEW w \in Ingests, ReadHash(w) PROVE AnswerInv'
    BY <2>0, <2>2 DEF ReadHash, Lags
  <2>3. ASSUME NEW w \in Ingests, CollectUnits(w) PROVE AnswerInv'
    BY <2>0, <2>3 DEF CollectUnits, Lags
  <2>4. ASSUME NEW w \in Ingests, DeleteLinks(w) PROVE AnswerInv'
    <3> DEFINE ids == LinksTouching(collected[w])
    <3>1. links' = DeleteByQuery(links, ids) /\ UNCHANGED <<units, rows, target, returned>>
      BY <2>4 DEF DeleteLinks
    <3>2. \A u \in Ingests : pc'[u] = pc[u] \/ pc[u] = "links"
      BY <2>0, <2>4 DEF DeleteLinks
    <3> HIDE DEF ids
    <3>3. Lags(links')
      BY <2>0, <3>1, DeletedLags
    <3>4. /\ links'.snap = links.snap
          /\ \A u \in Ingests : Exists(links'.live, u) =>
               Exists(links.live, u) /\ links'.live[u] = links.live[u]
      BY <2>0, <3>1, DeletedIs
    <3> QED BY <3>1, <3>2, <3>3, <3>4 DEF Lags, Exists
  <2>5. ASSUME NEW w \in Ingests, DeleteRows(w) PROVE AnswerInv'
    <3> DEFINE ids == collected[w] \intersect InSearch(rows)
    <3>1. rows' = DeleteByQuery(rows, ids) /\ UNCHANGED <<units, links, target, returned>>
      BY <2>5 DEF DeleteRows
    <3>2. \A u \in Ingests : pc'[u] = pc[u] \/ pc[u] = "rows"
      BY <2>0, <2>5 DEF DeleteRows
    <3> HIDE DEF ids
    <3>3. Lags(rows')
      BY <2>0, <3>1, DeletedLags
    <3>4. /\ rows'.snap = rows.snap
          /\ \A u \in Ingests : Exists(rows'.live, u) =>
               Exists(rows.live, u) /\ rows'.live[u] = rows.live[u]
      BY <2>0, <3>1, DeletedIs
    <3> QED BY <3>1, <3>2, <3>3, <3>4 DEF Lags, Exists
  <2>6. ASSUME NEW w \in Ingests, DeleteUnits(w) PROVE AnswerInv'
    <3> DEFINE ids == collected[w] \intersect InSearch(units)
    <3>1. units' = DeleteByQuery(units, ids) /\ UNCHANGED <<rows, links, target, returned>>
      BY <2>6 DEF DeleteUnits
    <3>2. \A u \in Ingests : pc'[u] = pc[u] \/ pc[u] = "units"
      BY <2>0, <2>6 DEF DeleteUnits
    <3> HIDE DEF ids
    <3>3. Lags(units')
      BY <2>0, <3>1, DeletedLags
    <3>4. /\ units'.snap = units.snap
          /\ \A u \in Ingests : Exists(units'.live, u) =>
               Exists(units.live, u) /\ units'.live[u] = units.live[u]
      BY <2>0, <3>1, DeletedIs
    <3> QED BY <3>1, <3>2, <3>3, <3>4 DEF Lags, Exists
  <2>7. ASSUME NEW w \in Ingests, InsertFacts(w) PROVE AnswerInv'
    <3> DEFINE new == Written(units, w, "row")
    <3>1. /\ new.snap = units.snap /\ Lags(new)
          /\ new.live[w].doc = "row"
          /\ \A u \in Ingests : u # w => new.live[u] = units.live[u]
      <4>1. "row" \in {"row"} /\ "row" # Missing /\ units \in Index({"row"}) /\ Lags(units)
        BY <2>0
      <4>2. Lags(new)
        BY <4>1, WrittenLags
      <4>3. /\ new.snap = units.snap
            /\ new.live[w] = [seq |-> units.live[w].seq + 1, doc |-> "row"]
            /\ \A u \in Ingests : u # w => new.live[u] = units.live[u]
        BY <4>1, WrittenIs
      <4> HIDE DEF new
      <4> QED BY <4>2, <4>3
    <3>2. units' \in {units, new}
      BY <2>7 DEF InsertFacts
    <3> HIDE DEF new
    <3>3. Lags(units')
      BY <3>1, <3>2
    <3> QED BY <2>0, <2>7, <3>1, <3>2, <3>3 DEF InsertFacts, Lags, Exists
  <2>8. ASSUME NEW w \in Ingests, FactsAnswered(w) PROVE AnswerInv'
    BY <2>0, <2>8, RefreshedAnswer DEF FactsAnswered, Lags
  <2>9. ASSUME NEW w \in Ingests, InsertRow(w) PROVE AnswerInv'
    <3> DEFINE new == Written(rows, w, "row")
    <3>1. /\ new.snap = rows.snap /\ Lags(new)
          /\ new.live[w].doc = "row"
          /\ \A u \in Ingests : u # w => new.live[u] = rows.live[u]
      <4>1. "row" \in {"row"} /\ "row" # Missing /\ rows \in Index({"row"}) /\ Lags(rows)
        BY <2>0
      <4>2. Lags(new)
        BY <4>1, WrittenLags
      <4>3. /\ new.snap = rows.snap
            /\ new.live[w] = [seq |-> rows.live[w].seq + 1, doc |-> "row"]
            /\ \A u \in Ingests : u # w => new.live[u] = rows.live[u]
        BY <4>1, WrittenIs
      <4> HIDE DEF new
      <4> QED BY <4>2, <4>3
    <3>2. rows' \in {rows, new}
      BY <2>9 DEF InsertRow
    <3> HIDE DEF new
    <3>3. Lags(rows')
      BY <3>1, <3>2
    <3> QED BY <2>0, <2>9, <3>1, <3>2, <3>3 DEF InsertRow, Lags, Exists
  <2>10. ASSUME NEW w \in Ingests, RowAnswered(w) PROVE AnswerInv'
    BY <2>0, <2>10, RefreshedAnswer DEF RowAnswered, Lags
  <2>11. ASSUME NEW w \in Ingests, PickTarget(w) PROVE AnswerInv'
    BY <2>0, <2>11 DEF PickTarget, Lags
  <2>12. ASSUME NEW w \in Ingests, CheckEndpoints(w) PROVE AnswerInv'
    BY <2>0, <2>12 DEF CheckEndpoints, Lags
  <2>13. ASSUME NEW w \in Ingests, CreateLink(w) PROVE AnswerInv'
    <3>0. target[w] \in Ingests /\ target[w] # Missing
      BY <2>13 DEF CreateLink, TypeInv, HasTarget
    <3> DEFINE new == Written(links, w, target[w])
    <3>1. /\ new.snap = links.snap /\ Lags(new)
          /\ new.live[w].doc = target[w]
          /\ \A u \in Ingests : u # w => new.live[u] = links.live[u]
      <4>1. target[w] \in Ingests /\ target[w] # Missing /\ links \in Index(Ingests) /\ Lags(links)
        BY <3>0, <2>0
      <4>2. Lags(new)
        BY <4>1, WrittenLags
      <4>3. /\ new.snap = links.snap
            /\ new.live[w] = [seq |-> links.live[w].seq + 1, doc |-> target[w]]
            /\ \A u \in Ingests : u # w => new.live[u] = links.live[u]
        BY <4>1, WrittenIs
      <4> HIDE DEF new
      <4> QED BY <4>2, <4>3
    <3>2. links' \in {links, new}
      BY <2>13 DEF CreateLink
    <3> HIDE DEF new
    <3>3. Lags(links')
      BY <3>1, <3>2
    <3> QED BY <3>0, <2>0, <2>13, <3>1, <3>2, <3>3 DEF CreateLink, Lags, Exists
  <2>14. ASSUME NEW w \in Ingests, LinkAnswered(w) PROVE AnswerInv'
    BY <2>0, <2>14, RefreshedAnswer DEF LinkAnswered, Lags
  <2>15. ASSUME NEW w \in Ingests, Finalize(w) PROVE AnswerInv'
    BY <2>0, <2>15 DEF Finalize, Lags
  <2>16. ASSUME NEW w \in Ingests, Crash(w) PROVE AnswerInv'
    BY <2>0, <2>16 DEF Crash, Lags
  <2>17. ASSUME NEW w \in Ingests, InsertTimesOut(w) PROVE AnswerInv'
    BY <2>0, <2>17 DEF InsertTimesOut, Lags
  <2>18. CASE Refresh
    BY <2>0, <2>18, RefreshedIs, EvenLags DEF Refresh, Lags
  <2>19. CASE UNCHANGED vars
    BY <2>0, <2>19 DEF vars, Lags
  <2>20. ASSUME NEW w \in Ingests, LinksDeleted(w) PROVE AnswerInv'
    <3>1. links'.live = links.live /\ links'.snap = links.live /\ UNCHANGED <<units, rows, target, returned>>
      BY <2>0, <2>20, RefreshedIs DEF LinksDeleted
    <3>2. \A u \in Ingests : pc'[u] = pc[u] \/ pc[u] = "linksGone"
      BY <2>0, <2>20 DEF LinksDeleted
    <3>3. \A u \in Ingests : links.live[u].seq \in Nat
      BY <2>0 DEF Index, Copies
    <3> QED BY <3>1, <3>2, <3>3 DEF Lags, Exists
  <2>21. ASSUME NEW w \in Ingests, RowsDeleted(w) PROVE AnswerInv'
    <3>1. rows'.live = rows.live /\ rows'.snap = rows.live /\ UNCHANGED <<units, links, target, returned>>
      BY <2>0, <2>21, RefreshedIs DEF RowsDeleted
    <3>2. \A u \in Ingests : pc'[u] = pc[u] \/ pc[u] = "rowsGone"
      BY <2>0, <2>21 DEF RowsDeleted
    <3>3. \A u \in Ingests : rows.live[u].seq \in Nat
      BY <2>0 DEF Index, Copies
    <3> QED BY <3>1, <3>2, <3>3 DEF Lags, Exists
  <2>22. ASSUME NEW w \in Ingests, UnitsDeleted(w) PROVE AnswerInv'
    <3>1. units'.live = units.live /\ units'.snap = units.live /\ UNCHANGED <<rows, links, target, returned>>
      BY <2>0, <2>22, RefreshedIs DEF UnitsDeleted
    <3>2. \A u \in Ingests : pc'[u] = pc[u] \/ pc[u] = "unitsGone"
      BY <2>0, <2>22 DEF UnitsDeleted
    <3>3. \A u \in Ingests : units.live[u].seq \in Nat
      BY <2>0 DEF Index, Copies
    <3> QED BY <3>1, <3>2, <3>3 DEF Lags, Exists
  <2> QED
    BY <2>1, <2>2, <2>3, <2>4, <2>5, <2>6, <2>7, <2>8, <2>9, <2>10, <2>11, <2>12, <2>13,
       <2>14, <2>15, <2>16, <2>17, <2>18, <2>19, <2>20, <2>21, <2>22 DEF Next
<1> QED BY <1>1, <1>2, DocumentsTypeInv, PTL DEF Spec

-----------------------------------------------------------------------------
(* The purge: what it has to take, phase by phase. *)

AfterPurge == Active \ ({"read", "collect"} \union Purging)

\* it has collected the units, and then deleted them
UnitsGo ==
  \A w, u \in Ingests : <<"unit", u>> \in due[w] /\ u \in SameDocument(w) =>
    /\ (pc[w] \in Purging /\ Exists(units.live, u) => u \in collected[w])
    /\ (pc[w] \in AfterPurge \union {"unitsGone"} => ~Exists(units.live, u))

RowsGo ==
  \A w, u \in Ingests : <<"row", u>> \in due[w] /\ u \in collected[w] =>
    (pc[w] \in AfterPurge \union {"rowsGone", "units", "unitsGone"} => ~Exists(rows.live, u))

LinksGo ==
  \A w, u \in Ingests :
    <<"link", u>> \in due[w] /\ (u \in collected[w] \/ target[u] \in collected[w]) =>
      (pc[w] \in AfterPurge \union (Purging \ {"links"}) => ~Exists(links.live, u))

PurgeInv ==
  /\ AnswerInv
  /\ \A w \in Ingests : due[w] \subseteq returned
  /\ UnitsGo /\ RowsGo /\ LinksGo

LEMMA DocumentsPurge == Spec => []PurgeInv
<1> USE DocumentsAssumption
<1>1. Init /\ AnswerInv => PurgeInv
  BY DEF Init, PurgeInv, UnitsGo, RowsGo, LinksGo
<1>2. PurgeInv /\ [Next]_vars /\ AnswerInv' => PurgeInv'
  <2> SUFFICES ASSUME PurgeInv, [Next]_vars, AnswerInv' PROVE PurgeInv'
    OBVIOUS
  <2> USE DEF PurgeInv, Goto, indexes, history
  <2>0. /\ units \in Index({"row"}) /\ rows \in Index({"row"}) /\ links \in Index(Ingests)
        /\ pc \in [Ingests -> Active \union {"lock", "done", "dead"}]
        /\ target \in [Ingests -> Ingests \union {NoLink}]
        /\ collected \in [Ingests -> SUBSET Ingests]
        /\ due \in [Ingests -> SUBSET Calls]
    BY DEF AnswerInv, TypeInv, TypeOK
  <2>a. /\ Answered("unit", units, AfterUnit) /\ Answered("row", rows, AfterRow)
        /\ Answered("link", links, Over)
        /\ \A u \in Ingests : Exists(links.live, u) => links.live[u].doc = target[u]
    BY DEF AnswerInv, LinkGoes
  <2> USE DEF UnitsGo, RowsGo, LinksGo, AfterPurge, Active, Purging
  <2>1. ASSUME NEW w \in Ingests, Lock(w) PROVE PurgeInv'
    BY <2>0, <2>1 DEF Lock
  <2>2. ASSUME NEW w \in Ingests, ReadHash(w) PROVE PurgeInv'
    BY <2>0, <2>2 DEF ReadHash
  <2>3. ASSUME NEW w \in Ingests, CollectUnits(w) PROVE PurgeInv'
    BY <2>0, <2>a, <2>3 DEF CollectUnits, AllPages, InSearch, Answered, Exists
  <2>4. ASSUME NEW w \in Ingests, DeleteLinks(w) PROVE PurgeInv'
    BY <2>0, <2>a, <2>4, DeletedIs DEF DeleteLinks, Answered, LinksTouching, InSearch, Exists
  <2>5. ASSUME NEW w \in Ingests, DeleteRows(w) PROVE PurgeInv'
    BY <2>0, <2>a, <2>5, DeletedIs DEF DeleteRows, Answered, InSearch, Exists
  <2>6. ASSUME NEW w \in Ingests, DeleteUnits(w) PROVE PurgeInv'
    BY <2>0, <2>a, <2>6, DeletedIs DEF DeleteUnits, Answered, InSearch, Exists
  <2>7. ASSUME NEW w \in Ingests, InsertFacts(w) PROVE PurgeInv'
    <3> DEFINE new == Written(units, w, "row")
    <3>2. \A u \in Ingests : u # w => new.live[u] = units.live[u]
      <4>1. "row" \in {"row"} /\ "row" # Missing /\ units \in Index({"row"})
        BY <2>0
      <4>2. /\ new.snap = units.snap
            /\ new.live[w] = [seq |-> units.live[w].seq + 1, doc |-> "row"]
            /\ \A u \in Ingests : u # w => new.live[u] = units.live[u]
        BY <4>1, WrittenIs
      <4> QED BY <4>2
    <3>3. units' \in {units, new}
      BY <2>7 DEF InsertFacts
    <3> HIDE DEF new
    <3>4. \A u \in Ingests : u # w => Exists(units.live, u)' = Exists(units.live, u)
      BY <3>2, <3>3 DEF Exists
    <3> QED BY <2>0, <2>a, <2>7, <3>4 DEF InsertFacts, Answered, AfterUnit, AfterRow, Over
  <2>8. ASSUME NEW w \in Ingests, FactsAnswered(w) PROVE PurgeInv'
    BY <2>0, <2>8 DEF FactsAnswered
  <2>9. ASSUME NEW w \in Ingests, InsertRow(w) PROVE PurgeInv'
    <3> DEFINE new == Written(rows, w, "row")
    <3>2. \A u \in Ingests : u # w => new.live[u] = rows.live[u]
      <4>1. "row" \in {"row"} /\ "row" # Missing /\ rows \in Index({"row"})
        BY <2>0
      <4>2. /\ new.snap = rows.snap
            /\ new.live[w] = [seq |-> rows.live[w].seq + 1, doc |-> "row"]
            /\ \A u \in Ingests : u # w => new.live[u] = rows.live[u]
        BY <4>1, WrittenIs
      <4> QED BY <4>2
    <3>3. rows' \in {rows, new}
      BY <2>9 DEF InsertRow
    <3> HIDE DEF new
    <3>4. \A u \in Ingests : u # w => Exists(rows.live, u)' = Exists(rows.live, u)
      BY <3>2, <3>3 DEF Exists
    <3> QED BY <2>0, <2>a, <2>9, <3>4 DEF InsertRow, Answered, AfterRow, Over
  <2>10. ASSUME NEW w \in Ingests, RowAnswered(w) PROVE PurgeInv'
    BY <2>0, <2>10 DEF RowAnswered
  <2>11. ASSUME NEW w \in Ingests, PickTarget(w) PROVE PurgeInv'
    BY <2>0, <2>a, <2>11 DEF PickTarget, Answered, Over
  <2>12. ASSUME NEW w \in Ingests, CheckEndpoints(w) PROVE PurgeInv'
    BY <2>0, <2>12 DEF CheckEndpoints
  <2>13. ASSUME NEW w \in Ingests, CreateLink(w) PROVE PurgeInv'
    <3>1. target[w] \in Ingests /\ target[w] # Missing
      BY <2>13 DEF CreateLink, AnswerInv, TypeInv, HasTarget
    <3> DEFINE new == Written(links, w, target[w])
    <3>2. \A u \in Ingests : u # w => new.live[u] = links.live[u]
      <4>1. target[w] \in Ingests /\ target[w] # Missing /\ links \in Index(Ingests)
        BY <3>1, <2>0
      <4>2. /\ new.snap = links.snap
            /\ new.live[w] = [seq |-> links.live[w].seq + 1, doc |-> target[w]]
            /\ \A u \in Ingests : u # w => new.live[u] = links.live[u]
        BY <4>1, WrittenIs
      <4> QED BY <4>2
    <3>3. links' \in {links, new}
      BY <2>13 DEF CreateLink
    <3> HIDE DEF new
    <3>4. \A u \in Ingests : u # w => Exists(links.live, u)' = Exists(links.live, u)
      BY <3>2, <3>3 DEF Exists
    <3> QED BY <2>0, <2>a, <2>13, <3>4 DEF CreateLink, Answered, Over
  <2>14. ASSUME NEW w \in Ingests, LinkAnswered(w) PROVE PurgeInv'
    BY <2>0, <2>14 DEF LinkAnswered
  <2>15. ASSUME NEW w \in Ingests, Finalize(w) PROVE PurgeInv'
    BY <2>0, <2>15 DEF Finalize
  <2>16. ASSUME NEW w \in Ingests, Crash(w) PROVE PurgeInv'
    BY <2>0, <2>16 DEF Crash
  <2>17. ASSUME NEW w \in Ingests, InsertTimesOut(w) PROVE PurgeInv'
    BY <2>0, <2>17 DEF InsertTimesOut
  <2>18. CASE Refresh
    BY <2>0, <2>18, RefreshedIs DEF Refresh
  <2>19. CASE UNCHANGED vars
    BY <2>0, <2>19 DEF vars
  <2>20. ASSUME NEW w \in Ingests, LinksDeleted(w) PROVE PurgeInv'
    BY <2>0, <2>20, RefreshedIs DEF LinksDeleted
  <2>21. ASSUME NEW w \in Ingests, RowsDeleted(w) PROVE PurgeInv'
    BY <2>0, <2>21, RefreshedIs DEF RowsDeleted
  <2>22. ASSUME NEW w \in Ingests, UnitsDeleted(w) PROVE PurgeInv'
    BY <2>0, <2>22, RefreshedIs DEF UnitsDeleted
  <2> QED
    BY <2>1, <2>2, <2>3, <2>4, <2>5, <2>6, <2>7, <2>8, <2>9, <2>10, <2>11, <2>12, <2>13,
       <2>14, <2>15, <2>16, <2>17, <2>18, <2>19, <2>20, <2>21, <2>22 DEF Next
<1> QED BY <1>1, <1>2, DocumentsAnswers, PTL DEF Spec

\* A purge removes every unit, entity row and link whose insert had returned
\* when it began, for any number of ingests that run, die and retry beside it.
THEOREM DocumentsPurgeTakesAnswered == Spec => []PurgeTakesAnswered
<1>1. PurgeInv => PurgeTakesAnswered
  BY DEF PurgeInv, UnitsGo, RowsGo, LinksGo, PurgeTakesAnswered, Purged, AfterPurge, InIndex
<1> QED BY <1>1, DocumentsPurge, PTL

-----------------------------------------------------------------------------
\* a unit that is gone and can still be searched: the purge that took it has yet
\* to refresh, or is dead
FoundWhilePurged ==
  \A u \in Ingests : Exists(units.snap, u) /\ ~Exists(units.live, u) =>
    \E v \in Ingests : u \in collected[v] /\ pc[v] \in {"unitsGone", "dead"}

LEMMA DocumentsSearch == Spec => [](TypeInv /\ FoundWhilePurged)
<1> USE DocumentsAssumption
<1>1. Init => FoundWhilePurged
  BY DEF Init, Empty, EmptyIndex, FoundWhilePurged, Exists
<1>2. TypeInv /\ FoundWhilePurged /\ [Next]_vars => FoundWhilePurged'
  <2> SUFFICES ASSUME TypeInv, FoundWhilePurged, [Next]_vars PROVE FoundWhilePurged'
    OBVIOUS
  <2>0. /\ units \in Index({"row"})
        /\ pc \in [Ingests -> Active \union {"lock", "done", "dead"}]
        /\ collected \in [Ingests -> SUBSET Ingests]
    BY DEF TypeInv, TypeOK
  \* whoever has deleted its units leaves them collected until it refreshes
  <2>1. ASSUME UNCHANGED units,
               \A v \in Ingests : pc[v] \in {"unitsGone", "dead"} =>
                 pc'[v] \in {"unitsGone", "dead"} /\ collected'[v] = collected[v]
        PROVE  FoundWhilePurged'
    BY <2>1 DEF FoundWhilePurged, Exists
  <2>2. ASSUME NEW w \in Ingests, InsertFacts(w) PROVE FoundWhilePurged'
    <3>1. /\ units'.snap = units.snap
          /\ units'.live[w] = [seq |-> units.live[w].seq + 1, doc |-> "row"]
          /\ \A u \in Ingests : u # w => units'.live[u] = units.live[u]
      BY <2>0, <2>2, WrittenIs DEF InsertFacts
    <3>2. UNCHANGED collected /\ pc[w] = "insert" /\ pc' = [pc EXCEPT ![w] = "inserted"]
      BY <2>2 DEF InsertFacts, Goto
    <3>3. \A v \in Ingests : pc[v] \in {"unitsGone", "dead"} => pc'[v] = pc[v]
      BY <2>0, <3>2
    <3> QED BY <3>1, <3>2, <3>3 DEF FoundWhilePurged, Exists
  <2>3. ASSUME NEW w \in Ingests, DeleteUnits(w) PROVE FoundWhilePurged'
    <3> DEFINE ids == collected[w] \intersect InSearch(units)
    <3>1. /\ units' = DeleteByQuery(units, ids) /\ UNCHANGED collected
          /\ pc[w] = "units" /\ pc' = [pc EXCEPT ![w] = "unitsGone"]
      BY <2>3 DEF DeleteUnits, Goto
    <3>2. /\ units'.snap = units.snap
          /\ \A u \in Ingests : u \notin ids => units'.live[u] = units.live[u]
      BY <2>0, <3>1, DeletedIs, DeletedOnly
    <3>3. ids \subseteq collected[w]
      OBVIOUS
    <3> HIDE DEF ids
    <3>4. /\ pc'[w] = "unitsGone"
          /\ \A v \in Ingests : pc[v] \in {"unitsGone", "dead"} => pc'[v] = pc[v]
      BY <2>0, <3>1
    <3> QED BY <3>1, <3>2, <3>3, <3>4 DEF FoundWhilePurged, Exists
  <2>4. CASE units'.snap = units'.live
    BY <2>4 DEF FoundWhilePurged, Exists
  <2>5. ASSUME NEW w \in Ingests, UnitsDeleted(w) PROVE FoundWhilePurged'
    BY <2>0, <2>5, <2>4, RefreshedIs DEF UnitsDeleted
  <2>6. CASE Refresh
    BY <2>0, <2>1, <2>4, <2>6, RefreshedIs DEF Refresh
  <2>7. ASSUME NEW w \in Ingests,
               \/ Lock(w) \/ ReadHash(w) \/ CollectUnits(w) \/ DeleteLinks(w) \/ LinksDeleted(w)
               \/ DeleteRows(w) \/ RowsDeleted(w) \/ FactsAnswered(w) \/ InsertRow(w)
        PROVE  FoundWhilePurged'
    BY <2>0, <2>1, <2>7 DEF Goto, indexes, Lock, ReadHash, CollectUnits, DeleteLinks, LinksDeleted,
       DeleteRows, RowsDeleted, FactsAnswered, InsertRow
  <2>8. ASSUME NEW w \in Ingests,
               \/ RowAnswered(w) \/ PickTarget(w) \/ CheckEndpoints(w) \/ CreateLink(w)
               \/ LinkAnswered(w) \/ Finalize(w) \/ Crash(w) \/ InsertTimesOut(w)
        PROVE  FoundWhilePurged'
    BY <2>0, <2>1, <2>8 DEF Goto, indexes, RowAnswered, PickTarget, CheckEndpoints, CreateLink,
       LinkAnswered, Finalize, Crash, InsertTimesOut
  <2>9. CASE UNCHANGED vars
    BY <2>1, <2>9 DEF vars
  <2> QED BY <2>2, <2>3, <2>5, <2>6, <2>7, <2>8, <2>9 DEF Next
<1> QED BY <1>1, <1>2, DocumentsTypeInv, PTL DEF Spec

\* An end that is gone when the check lets a link through was taken by a purge
\* that has yet to refresh its deletes, or died before it had.
THEOREM DocumentsEndsExist == Spec => EndsExistWhenChecked
<1> DEFINE Checked == \A w \in Ingests : pc[w] = "check" /\ pc'[w] = "create" =>
                        \A end \in {w, target[w]} \ InIndex(units) :
                          \E v \in Ingests : end \in collected[v] /\ pc[v] \in {"unitsGone", "dead"}
<1>1. TypeInv /\ FoundWhilePurged /\ [Next]_vars => [Checked]_vars
  <2> SUFFICES ASSUME TypeInv, FoundWhilePurged, Next,
                      NEW w \in Ingests, pc[w] = "check", pc'[w] = "create",
                      NEW end \in {w, target[w]} \ InIndex(units)
               PROVE  \E v \in Ingests : end \in collected[v] /\ pc[v] \in {"unitsGone", "dead"}
    OBVIOUS
  <2>0. pc \in [Ingests -> Active \union {"lock", "done", "dead"}]
    BY DEF TypeInv, TypeOK
  <2>1. PICK v \in Ingests :
          \/ Lock(v) \/ ReadHash(v)
          \/ CollectUnits(v)
          \/ DeleteLinks(v) \/ LinksDeleted(v) \/ DeleteRows(v) \/ RowsDeleted(v)
          \/ DeleteUnits(v) \/ UnitsDeleted(v)
          \/ InsertFacts(v) \/ FactsAnswered(v) \/ InsertRow(v) \/ RowAnswered(v)
          \/ PickTarget(v) \/ CheckEndpoints(v) \/ CreateLink(v) \/ LinkAnswered(v)
          \/ Finalize(v)
          \/ Crash(v) \/ InsertTimesOut(v)
    BY DEF Next, Refresh
  <2>2. ~(\/ Lock(v) \/ ReadHash(v) \/ CollectUnits(v) \/ DeleteLinks(v) \/ LinksDeleted(v)
          \/ DeleteRows(v) \/ RowsDeleted(v) \/ DeleteUnits(v) \/ UnitsDeleted(v))
    BY <2>0 DEF Goto, Lock, ReadHash, CollectUnits, DeleteLinks, LinksDeleted, DeleteRows,
       RowsDeleted, DeleteUnits, UnitsDeleted
  <2>3. ~(InsertFacts(v) \/ FactsAnswered(v) \/ InsertRow(v) \/ RowAnswered(v) \/ PickTarget(v))
    BY <2>0 DEF Goto, InsertFacts, FactsAnswered, InsertRow, RowAnswered, PickTarget
  <2>4. ~(CreateLink(v) \/ LinkAnswered(v) \/ Finalize(v) \/ Crash(v) \/ InsertTimesOut(v))
    BY <2>0 DEF Goto, CreateLink, LinkAnswered, Finalize, Crash, InsertTimesOut
  <2>5. CheckEndpoints(v)
    BY <2>1, <2>2, <2>3, <2>4
  <2>6. v = w /\ BothEnds(w)
    BY <2>0, <2>5 DEF CheckEndpoints, Goto
  <2> QED BY <2>6 DEF BothEnds, InSearch, InIndex, FoundWhilePurged
<1> QED BY <1>1, DocumentsSearch, PTL DEF Spec, EndsExistWhenChecked

-----------------------------------------------------------------------------
(* A link without an end: the purge that took the end did not know the     *)
(* link.  What was ever inserted and is gone was taken by some purge, and  *)
(* the links that purge had to know of went before.                        *)

\* a purge takes units of its own document, and collects them once
OwnDocument ==
  \A w \in Ingests :
    /\ collected[w] \subseteq SameDocument(w)
    /\ pc[w] \in {"lock", "read", "collect"} => collected[w] = {}

\* the unit of v was inserted, whatever became of it
Born(v) == units.live[v].seq # 0

EndsWereBorn ==
  /\ \A v \in Ingests : Exists(units.live, v) \/ Exists(units.snap, v) => Born(v)
  /\ \A u \in Ingests : pc[u] \in {"create", "created"} \/ Exists(links.live, u) =>
       Born(u) /\ Born(target[u])

\* the purge of w took v, and no link of v that it had to know of is left
TakenBy(w, v) ==
  /\ v \in collected[w]
  /\ \A u \in Ingests : <<"link", u>> \in due[w] /\ (v = u \/ v = target[u]) =>
       ~Exists(links.live, u)

GoneWasTaken ==
  \A v \in Ingests : Born(v) /\ ~Exists(units.live, v) => \E w \in Ingests : TakenBy(w, v)

TakenInv ==
  /\ PurgeInv
  /\ OwnDocument /\ EndsWereBorn /\ GoneWasTaken

\* What a purge took stays taken: a link that had returned is not inserted again.
LEMMA StaysTaken ==
  ASSUME PurgeInv, NEW w \in Ingests, NEW v \in Ingests, TakenBy(w, v),
         collected'[w] = collected[w], due'[w] = due[w],
         \A u \in Ingests : <<"link", u>> \in returned =>
           target'[u] = target[u] /\ (Exists(links.live, u)' => Exists(links.live, u))
  PROVE  TakenBy(w, v)'
<1>1. due[w] \subseteq returned
  BY DEF PurgeInv
<1> QED BY <1>1 DEF TakenBy

LEMMA DocumentsTaken == Spec => []TakenInv
<1> USE DocumentsAssumption
<1>1. Init /\ PurgeInv => TakenInv
  BY DEF Init, TakenInv, OwnDocument, EndsWereBorn, GoneWasTaken, Born, Empty, EmptyIndex, Exists
<1>2. TakenInv /\ [Next]_vars /\ PurgeInv' => TakenInv'
  <2> SUFFICES ASSUME TakenInv, [Next]_vars, PurgeInv' PROVE TakenInv'
    OBVIOUS
  <2> USE DEF Goto, indexes, history
  <2>0. /\ units \in Index({"row"}) /\ rows \in Index({"row"}) /\ links \in Index(Ingests)
        /\ pc \in [Ingests -> Active \union {"lock", "done", "dead"}]
        /\ target \in [Ingests -> Ingests \union {NoLink}]
        /\ collected \in [Ingests -> SUBSET Ingests]
        /\ due \in [Ingests -> SUBSET Calls]
    BY DEF TakenInv, PurgeInv, AnswerInv, TypeInv, TypeOK
  <2>a. /\ \A u \in Ingests : <<"link", u>> \in returned => pc[u] \in Over
        /\ \A u \in Ingests : Exists(links.live, u) => pc[u] \in Over \union {"check", "create", "created"}
        /\ \A u \in Ingests : pc[u] \in {"check", "create", "created"} => target[u] \in Ingests
        /\ \A u \in Ingests : Exists(links.live, u) => target[u] \in Ingests
    <3>1. \A u \in Ingests : Exists(links.live, u) => links.live[u].doc \in Ingests
      BY <2>0 DEF Index, Copies, Exists
    <3> QED BY <3>1 DEF TakenInv, PurgeInv, AnswerInv, TypeInv, HasTarget, LinkGoes, Answered
  <2>b. \A u \in Ingests : units.live[u].seq \in Nat
    BY <2>0 DEF Index, Copies
  <2>c. OwnDocument /\ EndsWereBorn /\ GoneWasTaken /\ PurgeInv
    BY DEF TakenInv
  <2>d. OwnDocument' /\ EndsWereBorn' /\ GoneWasTaken' => TakenInv'
    BY DEF TakenInv
  \* most calls leave alone what these are about
  <2>e. ASSUME UNCHANGED <<units, collected, due, target>>, links'.live = links.live,
               \A u \in Ingests : /\ pc'[u] \in {"create", "created"} => pc[u] \in {"create", "created"}
                                  /\ pc'[u] \in {"lock", "read", "collect"} => pc[u] \in {"lock", "read", "collect"}
        PROVE  OwnDocument' /\ EndsWereBorn' /\ GoneWasTaken'
    BY <2>c, <2>e DEF OwnDocument, EndsWereBorn, GoneWasTaken, Born, TakenBy, Exists, SameDocument
  <2>1. ASSUME NEW w \in Ingests, Lock(w) PROVE TakenInv'
    BY <2>0, <2>1, <2>e, <2>d DEF Lock
  <2>2. ASSUME NEW w \in Ingests, ReadHash(w) PROVE TakenInv'
    BY <2>0, <2>2, <2>e, <2>d DEF ReadHash
  <2>3. ASSUME NEW w \in Ingests, CollectUnits(w) PROVE TakenInv'
    <3>1. OwnDocument'
      BY <2>0, <2>c, <2>3 DEF CollectUnits, OwnDocument, AllPages, SameDocument
    <3>2. EndsWereBorn'
      BY <2>0, <2>c, <2>3 DEF CollectUnits, EndsWereBorn, Born, Exists
    <3>3. collected[w] = {} /\ UNCHANGED <<links, target, units>>
      BY <2>c, <2>3 DEF OwnDocument, CollectUnits
    <3>4. \A x \in Ingests : x # w => collected'[x] = collected[x] /\ due'[x] = due[x]
      BY <2>0, <2>3 DEF CollectUnits
    <3>5. ASSUME NEW v \in Ingests, Born(v)', ~Exists(units.live, v)'
          PROVE  \E x \in Ingests : TakenBy(x, v)'
      <4>1. PICK x \in Ingests : TakenBy(x, v)
        BY <2>c, <3>3, <3>5 DEF GoneWasTaken, Born, Exists
      <4>2. x # w
        BY <3>3, <4>1 DEF TakenBy
      <4>3. TakenBy(x, v)'
        BY <3>3, <3>4, <4>1, <4>2 DEF TakenBy, Exists
      <4> QED BY <4>3
    <3> QED BY <3>1, <3>2, <3>5, <2>d DEF GoneWasTaken
  <2>4. ASSUME NEW w \in Ingests, DeleteLinks(w) PROVE TakenInv'
    <3>1. \A u \in Ingests : Exists(links.live, u)' => Exists(links.live, u)
      BY <2>0, <2>4, DeletedIs DEF DeleteLinks, Exists
    <3>2. UNCHANGED <<units, target, collected, due>>
      BY <2>4 DEF DeleteLinks
    <3>3. OwnDocument'
      BY <2>0, <2>c, <2>4 DEF DeleteLinks, OwnDocument, SameDocument
    <3>4. EndsWereBorn'
      BY <2>0, <2>c, <2>4, <3>1 DEF DeleteLinks, EndsWereBorn, Born, Exists
    <3>5. GoneWasTaken'
      BY <2>c, <3>1, <3>2, StaysTaken DEF GoneWasTaken, Born, Exists
    <3> QED BY <3>3, <3>4, <3>5, <2>d
  <2>5. ASSUME NEW w \in Ingests, DeleteRows(w) PROVE TakenInv'
    BY <2>0, <2>5, <2>e, <2>d DEF DeleteRows
  <2>6. ASSUME NEW w \in Ingests, DeleteUnits(w) PROVE TakenInv'
    <3> DEFINE ids == collected[w] \intersect InSearch(units)
    <3>1. /\ units' = DeleteByQuery(units, ids) /\ UNCHANGED <<links, target, collected, due>>
          /\ pc[w] = "units" /\ pc' = [pc EXCEPT ![w] = "unitsGone"]
      BY <2>6 DEF DeleteUnits
    <3>2. /\ units'.snap = units.snap
          /\ \A u \in Ingests : /\ u \notin ids => units'.live[u] = units.live[u]
                                /\ Born(u) => Born(u)'
                                /\ Exists(units.live, u)' => Exists(units.live, u)
      BY <2>0, <3>1, DeletedOnly, DeletedIs DEF Born, Exists
    <3>3. ids \subseteq collected[w]
      OBVIOUS
    <3> HIDE DEF ids
    <3>4. OwnDocument'
      BY <2>0, <2>c, <3>1 DEF OwnDocument, SameDocument
    <3>5. EndsWereBorn'
      BY <2>0, <2>a, <2>c, <3>1, <3>2 DEF EndsWereBorn, Exists
    <3>6. \A v \in collected[w] : TakenBy(w, v)
      BY <2>0, <2>c, <3>1 DEF TakenBy, PurgeInv, LinksGo, Purging
    <3>7. \A x, v \in Ingests : TakenBy(x, v) => TakenBy(x, v)'
      BY <3>1 DEF TakenBy, Exists
    <3>8. ASSUME NEW v \in Ingests, Born(v)', ~Exists(units.live, v)'
          PROVE  \E x \in Ingests : TakenBy(x, v)'
      <4>1. CASE v \in collected[w]
        BY <3>6, <3>7, <4>1
      <4>2. CASE v \notin collected[w]
        <5>1. units'.live[v] = units.live[v]
          BY <3>2, <3>3, <4>2
        <5> QED BY <2>c, <3>7, <3>8, <5>1 DEF GoneWasTaken, Born, Exists
      <4> QED BY <4>1, <4>2
    <3> QED BY <3>4, <3>5, <3>8, <2>d DEF GoneWasTaken
  <2>7. ASSUME NEW w \in Ingests, InsertFacts(w) PROVE TakenInv'
    <3>1. /\ units'.snap = units.snap
          /\ units'.live[w] = [seq |-> units.live[w].seq + 1, doc |-> "row"]
          /\ \A u \in Ingests : u # w => units'.live[u] = units.live[u]
      BY <2>0, <2>7, WrittenIs DEF InsertFacts
    <3>2. Born(w)' /\ Exists(units.live, w)'
      BY <2>b, <3>1 DEF Born, Exists
    <3>3. \A u \in Ingests : u # w => Born(u)' = Born(u) /\ Exists(units.live, u)' = Exists(units.live, u)
      BY <3>1 DEF Born, Exists
    <3>4. /\ UNCHANGED <<links, target, collected, due>>
          /\ pc[w] = "insert" /\ pc' = [pc EXCEPT ![w] = "inserted"]
      BY <2>7 DEF InsertFacts
    <3>5. OwnDocument'
      BY <2>0, <2>c, <3>4 DEF OwnDocument, SameDocument
    <3>6. EndsWereBorn'
      BY <2>0, <2>a, <2>c, <3>1, <3>2, <3>3, <3>4 DEF EndsWereBorn, Exists
    <3>7. \A x, v \in Ingests : TakenBy(x, v) => TakenBy(x, v)'
      BY <3>4 DEF TakenBy, Exists
    <3>8. GoneWasTaken'
      BY <2>c, <3>2, <3>3, <3>7 DEF GoneWasTaken
    <3> QED BY <3>5, <3>6, <3>8, <2>d
  <2>8. ASSUME NEW w \in Ingests, FactsAnswered(w) PROVE TakenInv'
    BY <2>0, <2>8, <2>e, <2>d DEF FactsAnswered
  <2>9. ASSUME NEW w \in Ingests, InsertRow(w) PROVE TakenInv'
    BY <2>0, <2>9, <2>e, <2>d DEF InsertRow
  <2>10. ASSUME NEW w \in Ingests, RowAnswered(w) PROVE TakenInv'
    BY <2>0, <2>10, <2>e, <2>d DEF RowAnswered
  <2>11. ASSUME NEW w \in Ingests, PickTarget(w) PROVE TakenInv'
    <3>1. /\ pc[w] = "pick" /\ UNCHANGED <<units, links, collected, due>>
          /\ \A u \in Ingests : u # w => target'[u] = target[u] /\ pc'[u] = pc[u]
          /\ pc'[w] \in {"check", "finalize"}
      BY <2>0, <2>11 DEF PickTarget
    <3>2. <<"link", w>> \notin returned /\ ~Exists(links.live, w)
      BY <2>a, <3>1 DEF Over
    <3>3. OwnDocument'
      BY <2>c, <3>1 DEF OwnDocument, SameDocument
    <3>4. EndsWereBorn'
      BY <2>c, <3>1, <3>2 DEF EndsWereBorn, Born, Exists
    <3>5. \A x, v \in Ingests : TakenBy(x, v) => TakenBy(x, v)'
      BY <2>c, <3>1, <3>2, StaysTaken
    <3>6. GoneWasTaken'
      BY <2>c, <3>1, <3>5 DEF GoneWasTaken, Born, Exists
    <3> QED BY <3>3, <3>4, <3>6, <2>d
  <2>12. ASSUME NEW w \in Ingests, CheckEndpoints(w) PROVE TakenInv'
    <3>1. /\ pc[w] = "check" /\ UNCHANGED <<units, links, collected, due, target>>
          /\ \A u \in Ingests : u # w => pc'[u] = pc[u]
          /\ pc'[w] = "create" => BothEnds(w)
          /\ pc'[w] \in {"create", "finalize"}
      BY <2>0, <2>12 DEF CheckEndpoints
    <3>2. target[w] \in Ingests
      BY <2>a, <3>1
    <3>3. BothEnds(w) => Born(w) /\ Born(target[w])
      BY <2>c, <3>2 DEF BothEnds, InSearch, EndsWereBorn
    <3>4. OwnDocument'
      BY <2>c, <3>1 DEF OwnDocument, SameDocument
    <3>5. EndsWereBorn'
      BY <2>c, <3>1, <3>3 DEF EndsWereBorn, Born, Exists
    <3>6. GoneWasTaken'
      BY <2>c, <3>1 DEF GoneWasTaken, Born, Exists, TakenBy
    <3> QED BY <3>4, <3>5, <3>6, <2>d
  <2>13. ASSUME NEW w \in Ingests, CreateLink(w) PROVE TakenInv'
    <3>1. /\ pc[w] = "create" /\ UNCHANGED <<units, collected, due, target>>
          /\ pc' = [pc EXCEPT ![w] = "created"]
          /\ links' \in {links, Written(links, w, target[w])}
      BY <2>13 DEF CreateLink
    <3>2. target[w] \in Ingests /\ target[w] # Missing /\ links \in Index(Ingests)
      BY <2>0, <2>a, <3>1
    <3>3. \A u \in Ingests : u # w => Written(links, w, target[w]).live[u] = links.live[u]
      <4>1. /\ Written(links, w, target[w]).snap = links.snap
            /\ Written(links, w, target[w]).live[w] = [seq |-> links.live[w].seq + 1, doc |-> target[w]]
            /\ \A u \in Ingests : u # w => Written(links, w, target[w]).live[u] = links.live[u]
        BY <3>2, WrittenIs
      <4> QED BY <4>1
    <3>4. \A u \in Ingests : u # w => Exists(links.live, u)' = Exists(links.live, u)
      BY <3>1, <3>3 DEF Exists
    <3>5. <<"link", w>> \notin returned
      BY <2>a, <3>1 DEF Over
    <3>6. OwnDocument'
      BY <2>0, <2>c, <3>1 DEF OwnDocument, SameDocument
    <3>7. EndsWereBorn'
      BY <2>0, <2>c, <3>1, <3>4 DEF EndsWereBorn, Born, Exists
    <3>8. \A x, v \in Ingests : TakenBy(x, v) => TakenBy(x, v)'
      BY <2>c, <3>1, <3>4, <3>5, StaysTaken
    <3>9. GoneWasTaken'
      BY <2>c, <3>1, <3>8 DEF GoneWasTaken, Born, Exists
    <3> QED BY <3>6, <3>7, <3>9, <2>d
  <2>14. ASSUME NEW w \in Ingests, LinkAnswered(w) PROVE TakenInv'
    BY <2>0, <2>14, <2>e, <2>d DEF LinkAnswered
  <2>15. ASSUME NEW w \in Ingests, Finalize(w) PROVE TakenInv'
    BY <2>0, <2>15, <2>e, <2>d DEF Finalize
  <2>16. ASSUME NEW w \in Ingests, Crash(w) PROVE TakenInv'
    BY <2>0, <2>16, <2>e, <2>d DEF Crash
  <2>17. ASSUME NEW w \in Ingests, InsertTimesOut(w) PROVE TakenInv'
    BY <2>0, <2>17, <2>e, <2>d DEF InsertTimesOut
  <2>18. CASE Refresh
    <3>1. units'.live = units.live /\ links'.live = links.live /\ units'.snap \in {units.snap, units.live}
      BY <2>0, <2>18, RefreshedIs DEF Refresh
    <3>2. UNCHANGED <<pc, collected, target, due>>
      BY <2>18 DEF Refresh
    <3> QED BY <2>c, <2>d, <3>1, <3>2
        DEF OwnDocument, EndsWereBorn, GoneWasTaken, Born, TakenBy, Exists, SameDocument
  <2>19. CASE UNCHANGED vars
    BY <2>19, <2>e, <2>d DEF vars
  <2>20. ASSUME NEW w \in Ingests, LinksDeleted(w) PROVE TakenInv'
    BY <2>0, <2>20, <2>e, <2>d, RefreshedIs DEF LinksDeleted
  <2>21. ASSUME NEW w \in Ingests, RowsDeleted(w) PROVE TakenInv'
    BY <2>0, <2>21, <2>e, <2>d DEF RowsDeleted
  <2>22. ASSUME NEW w \in Ingests, UnitsDeleted(w) PROVE TakenInv'
    <3>1. units'.live = units.live /\ units'.snap = units.live
      BY <2>0, <2>22, RefreshedIs DEF UnitsDeleted
    <3>2. /\ UNCHANGED <<links, collected, target, due>>
          /\ pc[w] = "unitsGone" /\ pc' = [pc EXCEPT ![w] = "insert"]
      BY <2>22 DEF UnitsDeleted
    <3> QED BY <2>0, <2>c, <2>d, <3>1, <3>2
        DEF OwnDocument, EndsWereBorn, GoneWasTaken, Born, TakenBy, Exists, SameDocument
  <2> QED
    BY <2>1, <2>2, <2>3, <2>4, <2>5, <2>6, <2>7, <2>8, <2>9, <2>10, <2>11, <2>12, <2>13,
       <2>14, <2>15, <2>16, <2>17, <2>18, <2>19, <2>20, <2>21, <2>22 DEF Next
<1> QED BY <1>1, <1>2, DocumentsPurge, PTL DEF Spec

\* A link whose end is gone was not known to the purge that took the end: its
\* insert had not returned when that purge began.
THEOREM DocumentsDanglingHadNotReturned == Spec => []DanglingHadNotReturned
<1>1. TakenInv => DanglingHadNotReturned
  <2> SUFFICES ASSUME TakenInv, NEW u \in InIndex(links),
                      NEW end \in {u, links.live[u].doc} \ InIndex(units)
               PROVE  \E w \in Ingests : end \in collected[w] /\ <<"link", u>> \notin due[w]
    BY DEF DanglingHadNotReturned
  <2>1. u \in Ingests /\ Exists(links.live, u) /\ links.live[u].doc = target[u]
    BY DEF InIndex, TakenInv, PurgeInv, AnswerInv, LinkGoes
  <2>2. target[u] \in Ingests
    BY <2>1 DEF TakenInv, PurgeInv, AnswerInv, TypeInv, TypeOK, Index, Copies, Exists
  <2>3. end \in Ingests /\ (end = u \/ end = target[u]) /\ Born(end) /\ ~Exists(units.live, end)
    BY <2>1, <2>2 DEF TakenInv, EndsWereBorn, InIndex
  <2>4. PICK w \in Ingests : TakenBy(w, end)
    BY <2>3 DEF TakenInv, GoneWasTaken
  <2> QED BY <2>1, <2>3, <2>4 DEF TakenBy
<1> QED BY <1>1, DocumentsTaken, PTL

-----------------------------------------------------------------------------
(* An ingest that runs alone: nobody else writes what belongs to its       *)
(* document, so its purge finds all of it, and what it inserts stays.      *)

Collected == {"links", "linksGone", "rows", "rowsGone", "units"}
HasRow == {"rowed", "pick", "check", "create", "created", "finalize", "done"}
HasUnit == HasRow \union {"inserted", "row"}

Solo(w) ==
  /\ pc[w] \notin {"lock", "read", "collect"}
  /\ \A v \in SameDocument(w) : v # w => pc[v] \notin Active
  /\ \A v \in SameDocument(w) : Exists(units.live, v) =>
       /\ pc[w] \in Collected => v \in collected[w] /\ units.snap[v] = units.live[v]
       /\ pc[w] \in HasUnit \union {"unitsGone", "insert"} => v = w
  /\ pc[w] \in HasUnit => Exists(units.live, w)
  /\ pc[w] \in HasRow => Exists(rows.live, w)
  /\ pc[w] = "done" => hash[DocumentOf[w]] = w

SoloInv == TakenInv /\ \A w \in Ingests : alone[w] => Solo(w)

\* what a call of w does for w itself
Step(w) ==
  \/ Lock(w) \/ ReadHash(w)
  \/ CollectUnits(w)
  \/ DeleteLinks(w) \/ LinksDeleted(w) \/ DeleteRows(w) \/ RowsDeleted(w)
  \/ DeleteUnits(w) \/ UnitsDeleted(w)
  \/ InsertFacts(w) \/ FactsAnswered(w) \/ InsertRow(w) \/ RowAnswered(w)
  \/ PickTarget(w) \/ CheckEndpoints(w) \/ CreateLink(w) \/ LinkAnswered(w)
  \/ Finalize(w)
  \/ Crash(w) \/ InsertTimesOut(w)

\* what Solo says of v is as it was
Untouched(v) ==
  /\ pc'[v] = pc[v]
  /\ collected'[v] = collected[v]
  /\ hash'[DocumentOf[v]] = hash[DocumentOf[v]]
  /\ Exists(units.live, v)' = Exists(units.live, v)
  /\ Exists(rows.live, v)' = Exists(rows.live, v)
  /\ units.snap[v] = units.live[v] => units'.snap[v] = units'.live[v]

\* A call changes nothing of another document, a purge included.
LEMMA OtherDocuments ==
  ASSUME TakenInv, NEW w \in Ingests, Step(w),
         NEW v \in Ingests, DocumentOf[v] # DocumentOf[w]
  PROVE  Untouched(v) /\ alone'[v] = alone[v]
<1> USE DEF Goto, indexes, history, Untouched
<1>0. /\ units \in Index({"row"}) /\ rows \in Index({"row"}) /\ links \in Index(Ingests)
      /\ pc \in [Ingests -> Active \union {"lock", "done", "dead"}]
      /\ collected \in [Ingests -> SUBSET Ingests]
      /\ hash \in [TheDocuments -> {Missing, Pending} \union Ingests]
      /\ alone \in [Ingests -> BOOLEAN]
      /\ DocumentOf[v] \in TheDocuments
    BY DEF TakenInv, PurgeInv, AnswerInv, TypeInv, TypeOK, TheDocuments
<1>a. /\ "row" \in {"row"} /\ "row" # Missing
      /\ units \in Index({"row"}) /\ rows \in Index({"row"})
  BY <1>0, DocumentsAssumption
<1>1. v # w /\ v \notin collected[w] /\ v \notin SameDocument(w)
  BY DEF TakenInv, OwnDocument, SameDocument
<1>2. CASE Lock(w)
  BY <1>0, <1>1, <1>2 DEF Lock, Exists, SameDocument
<1>3. CASE CollectUnits(w)
  BY <1>0, <1>1, <1>3 DEF CollectUnits, Exists
<1>4. CASE DeleteRows(w)
  <2>1. rows'.live[v] = rows.live[v]
    BY <1>0, <1>1, <1>4, DeletedOnly DEF DeleteRows
  <2> QED BY <1>0, <1>1, <1>4, <2>1 DEF DeleteRows, Exists
<1>5. CASE DeleteUnits(w)
  <2>1. units'.live[v] = units.live[v] /\ units'.snap = units.snap
    BY <1>0, <1>1, <1>5, DeletedOnly, DeletedIs DEF DeleteUnits
  <2> QED BY <1>0, <1>1, <1>5, <2>1 DEF DeleteUnits, Exists
<1>6. CASE InsertFacts(w)
  <2>0. /\ Written(units, w, "row").snap = units.snap
        /\ Written(units, w, "row").live[w] = [seq |-> units.live[w].seq + 1, doc |-> "row"]
        /\ \A u \in Ingests : u # w => Written(units, w, "row").live[u] = units.live[u]
    BY <1>a, WrittenIs
  <2>1. units'.live[v] = units.live[v] /\ units'.snap = units.snap
    BY <1>1, <1>6, <2>0 DEF InsertFacts
  <2> QED BY <1>0, <1>1, <1>6, <2>1 DEF InsertFacts, Exists
<1>7. CASE InsertRow(w)
  <2>0. /\ Written(rows, w, "row").snap = rows.snap
        /\ Written(rows, w, "row").live[w] = [seq |-> rows.live[w].seq + 1, doc |-> "row"]
        /\ \A u \in Ingests : u # w => Written(rows, w, "row").live[u] = rows.live[u]
    BY <1>a, WrittenIs
  <2>1. rows'.live[v] = rows.live[v]
    BY <1>1, <1>7, <2>0 DEF InsertRow
  <2> QED BY <1>0, <1>1, <1>7, <2>1 DEF InsertRow, Exists
<1>8. CASE Finalize(w)
  BY <1>0, <1>1, <1>8 DEF Finalize, Exists
<1>9. CASE ReadHash(w) \/ DeleteLinks(w) \/ FactsAnswered(w) \/ RowAnswered(w) \/ PickTarget(w)
  BY <1>0, <1>1, <1>9 DEF ReadHash, DeleteLinks, FactsAnswered, RowAnswered, PickTarget, Exists
<1>10. CASE \/ CheckEndpoints(w) \/ CreateLink(w) \/ LinkAnswered(w) \/ Crash(w)
            \/ InsertTimesOut(w)
  BY <1>0, <1>1, <1>10
     DEF CheckEndpoints, CreateLink, LinkAnswered, Crash, InsertTimesOut, Exists
<1>11. CASE LinksDeleted(w) \/ RowsDeleted(w)
  BY <1>0, <1>1, <1>11, RefreshedIs DEF LinksDeleted, RowsDeleted, Exists
<1>12. CASE UnitsDeleted(w)
  BY <1>0, <1>1, <1>12, RefreshedIs DEF UnitsDeleted, Exists
<1> QED BY <1>2, <1>3, <1>4, <1>5, <1>6, <1>7, <1>8, <1>9, <1>10, <1>11, <1>12 DEF Step

\* Who runs alone does, as long as nothing of its document is touched.
LEMMA SoloStays ==
  ASSUME NEW x \in Ingests, Solo(x), \A v \in SameDocument(x) : Untouched(v)
  PROVE  Solo(x)'
<1>1. x \in SameDocument(x) /\ SameDocument(x)' = SameDocument(x)
  BY DEF SameDocument
<1>2. Untouched(x)
  BY <1>1
<1> QED BY <1>1, <1>2 DEF Solo, Untouched

\* What the calls of an ingest do to its own unit, row and hash when it is alone.
LEMMA OwnCalls ==
  ASSUME TakenInv, NEW w \in Ingests, Step(w), alone'[w], alone[w] => Solo(w)
  PROVE  Solo(w)'
<1> USE DEF Goto, indexes, history, Active, Purging, Collected, HasUnit, HasRow
<1>0. /\ units \in Index({"row"}) /\ rows \in Index({"row"}) /\ links \in Index(Ingests)
      /\ pc \in [Ingests -> Active \union {"lock", "done", "dead"}]
      /\ collected \in [Ingests -> SUBSET Ingests]
      /\ hash \in [TheDocuments -> {Missing, Pending} \union Ingests]
      /\ alone \in [Ingests -> BOOLEAN]
      /\ DocumentOf[w] \in TheDocuments
    BY DEF TakenInv, PurgeInv, AnswerInv, TypeInv, TypeOK, TheDocuments
<1>1. w \in SameDocument(w) /\ SameDocument(w)' = SameDocument(w) /\ SameDocument(w) \subseteq Ingests
  BY DEF SameDocument
<1>2. ~Lock(w)
  BY <1>1 DEF Lock
<1>3. CASE CollectUnits(w)
  <2>1. /\ units.snap = units.live /\ \A v \in SameDocument(w) : v # w => pc[v] \notin Active
        /\ UNCHANGED units
        /\ collected'[w] = AllPages(w)
        /\ pc'[w] = (IF AllPages(w) = {} THEN "insert" ELSE "links")
        /\ \A v \in Ingests : v # w => pc'[v] = pc[v]
    BY <1>0, <1>3 DEF CollectUnits, Settled
  <2>2. \A v \in SameDocument(w) : Exists(units.live, v) => v \in AllPages(w)
    BY <1>1, <2>1 DEF AllPages, InSearch, Exists
  <2> QED BY <1>1, <2>1, <2>2 DEF Solo, Exists
<1>4. ASSUME ~CollectUnits(w) PROVE alone[w] /\ Solo(w)
  BY <1>2, <1>4 DEF Step, ReadHash, DeleteLinks, LinksDeleted, DeleteRows, RowsDeleted, DeleteUnits,
     UnitsDeleted,
     InsertFacts, FactsAnswered, InsertRow, RowAnswered, PickTarget, CheckEndpoints, CreateLink,
     LinkAnswered, Finalize, Crash, InsertTimesOut
<1>5. CASE ReadHash(w)
  BY <1>4, <1>5 DEF ReadHash, CollectUnits, Solo
<1>6. CASE DeleteLinks(w)
  BY <1>0, <1>1, <1>4, <1>6 DEF DeleteLinks, CollectUnits, Solo, Exists
<1>7. CASE DeleteRows(w)
  BY <1>0, <1>1, <1>4, <1>7 DEF DeleteRows, CollectUnits, Solo, Exists
<1>8. CASE DeleteUnits(w)
  <2>0. Solo(w) /\ pc[w] = "units" /\ pc' = [pc EXCEPT ![w] = "unitsGone"]
    BY <1>4, <1>8 DEF DeleteUnits, CollectUnits
  <2>1. \A v \in SameDocument(w) : Exists(units.live, v) =>
          v \in collected[w] \intersect InSearch(units) /\ units.live[v].seq = units.snap[v].seq
    BY <1>1, <2>0 DEF Solo, InSearch, Exists
  <2>2. \A v \in SameDocument(w) : ~Exists(units.live, v)'
    <3> SUFFICES ASSUME NEW v \in SameDocument(w) PROVE ~Exists(units'.live, v)
      BY DEF Exists
    <3> QED BY <1>0, <1>1, <1>8, <2>1, DeletedIs DEF DeleteUnits
  <2> QED BY <1>0, <1>1, <2>0, <2>2 DEF Solo
<1>9. CASE InsertFacts(w)
  <2>0. Solo(w) /\ pc[w] = "insert" /\ pc' = [pc EXCEPT ![w] = "inserted"]
    BY <1>4, <1>9 DEF InsertFacts, CollectUnits
  <2>1. /\ units'.live[w] = [seq |-> units.live[w].seq + 1, doc |-> "row"]
        /\ \A u \in Ingests : u # w => units'.live[u] = units.live[u]
    BY <1>0, <1>9, WrittenIs, DocumentsAssumption DEF InsertFacts
  <2>2. Exists(units.live, w)' /\ \A u \in Ingests : u # w => Exists(units.live, u)' = Exists(units.live, u)
    BY <2>1, DocumentsAssumption DEF Exists
  <2> QED BY <1>0, <1>1, <2>0, <2>2 DEF Solo
<1>10. CASE FactsAnswered(w)
  BY <1>0, <1>1, <1>4, <1>10 DEF FactsAnswered, CollectUnits, Solo, Exists
<1>11. CASE InsertRow(w)
  <2>0. Solo(w) /\ pc[w] = "row" /\ pc' = [pc EXCEPT ![w] = "rowed"] /\ UNCHANGED units
    BY <1>4, <1>11 DEF InsertRow, CollectUnits
  <2>1. Exists(rows.live, w) \/ rows'.live[w] = [seq |-> rows.live[w].seq + 1, doc |-> "row"]
    BY <1>0, <1>11, WrittenIs, DocumentsAssumption DEF InsertRow
  <2>2. Exists(rows.live, w)'
    BY <1>11, <2>1, DocumentsAssumption DEF Exists, InsertRow
  <2> QED BY <1>0, <1>1, <2>0, <2>2 DEF Solo, Exists
<1>12. CASE RowAnswered(w)
  BY <1>0, <1>1, <1>4, <1>12 DEF RowAnswered, CollectUnits, Solo, Exists
<1>13. CASE PickTarget(w)
  BY <1>0, <1>1, <1>4, <1>13 DEF PickTarget, CollectUnits, Solo, Exists
<1>14. CASE CheckEndpoints(w)
  BY <1>0, <1>1, <1>4, <1>14 DEF CheckEndpoints, CollectUnits, Solo, Exists
<1>15. CASE CreateLink(w)
  BY <1>0, <1>1, <1>4, <1>15 DEF CreateLink, CollectUnits, Solo, Exists
<1>16. CASE LinkAnswered(w)
  BY <1>0, <1>1, <1>4, <1>16 DEF LinkAnswered, CollectUnits, Solo, Exists
<1>17. CASE Finalize(w)
  BY <1>0, <1>1, <1>4, <1>17 DEF Finalize, CollectUnits, Solo, Exists
<1>18. CASE Crash(w)
  BY <1>0, <1>1, <1>4, <1>18 DEF Crash, CollectUnits, Solo, Exists
<1>19. CASE InsertTimesOut(w)
  BY <1>0, <1>1, <1>4, <1>19 DEF InsertTimesOut, CollectUnits, Solo, Exists
<1>20. CASE LinksDeleted(w) \/ RowsDeleted(w)
  BY <1>0, <1>1, <1>4, <1>20, RefreshedIs DEF LinksDeleted, RowsDeleted, CollectUnits, Solo, Exists
<1>21. CASE UnitsDeleted(w)
  BY <1>0, <1>1, <1>4, <1>21, RefreshedIs DEF UnitsDeleted, CollectUnits, Solo, Exists
<1> QED BY <1>2, <1>3, <1>5, <1>6, <1>7, <1>8, <1>9, <1>10, <1>11, <1>12, <1>13, <1>14, <1>15,
           <1>16, <1>17, <1>18, <1>19, <1>20, <1>21 DEF Step

LEMMA DocumentsSolo == Spec => []SoloInv
<1>1. Init /\ TakenInv => SoloInv
  BY DEF Init, SoloInv
<1>2. SoloInv /\ [Next]_vars /\ TakenInv' => SoloInv'
  <2> SUFFICES ASSUME SoloInv, [Next]_vars, TakenInv', NEW x \in Ingests, alone'[x]
               PROVE  Solo(x)'
    BY DEF SoloInv
  <2>0. units \in Index({"row"}) /\ rows \in Index({"row"}) /\ alone \in [Ingests -> BOOLEAN]
    BY DEF SoloInv, TakenInv, PurgeInv, AnswerInv, TypeInv, TypeOK
  <2>1. ASSUME NEW w \in Ingests, Step(w) PROVE Solo(x)'
    <3>1. CASE x = w
      BY <2>1, <3>1, OwnCalls DEF SoloInv
    <3>2. CASE DocumentOf[x] # DocumentOf[w]
      <4>1. \A v \in SameDocument(x) : Untouched(v)
        BY <2>1, <3>2, OtherDocuments DEF SoloInv, SameDocument
      <4>2. alone[x]
        BY <2>1, <3>2, OtherDocuments DEF SoloInv
      <4> QED BY <4>1, <4>2, SoloStays DEF SoloInv
    <3>3. CASE x # w /\ DocumentOf[x] = DocumentOf[w]
      <4>1. x \in SameDocument(w) /\ w \in SameDocument(x)
        BY <3>3 DEF SameDocument
      <4>2. ~Lock(w)
        BY <4>1 DEF Lock
      <4>3. alone[x] /\ pc[w] \in Active
        BY <2>0, <2>1, <3>3, <4>2
           DEF Step, ReadHash, CollectUnits, DeleteLinks, LinksDeleted, DeleteRows, RowsDeleted,
               DeleteUnits, UnitsDeleted, Purging,
               InsertFacts, FactsAnswered, InsertRow, RowAnswered, PickTarget, CheckEndpoints,
               CreateLink, LinkAnswered, Finalize, Crash, InsertTimesOut, Active, history
      <4> QED BY <3>3, <4>1, <4>3 DEF SoloInv, Solo
    <3> QED BY <3>1, <3>2, <3>3
  <2>2. CASE Refresh
    <3>1. alone[x] /\ UNCHANGED <<pc, collected, hash>> /\ rows'.live = rows.live
      BY <2>0, <2>2, RefreshedIs DEF Refresh, history
    <3>2. units' = units \/ (units'.live = units.live /\ units'.snap = units.live)
      BY <2>0, <2>2, RefreshedIs DEF Refresh
    <3>3. \A v \in Ingests : Untouched(v)
      BY <3>1, <3>2 DEF Untouched, Exists
    <3> QED BY <3>1, <3>3, SoloStays DEF SoloInv, SameDocument
  <2>3. CASE UNCHANGED vars
    <3>1. \A v \in Ingests : Untouched(v)
      BY <2>3 DEF vars, Untouched, Exists
    <3> QED BY <2>3, <3>1, SoloStays DEF SoloInv, SameDocument, vars
  <2> QED BY <2>1, <2>2, <2>3 DEF Next, Step
<1> QED BY <1>1, <1>2, DocumentsTaken, PTL DEF Spec

\* An ingest that began when all could be searched, and ran alone, leaves its own
\* unit, row and hash and no other unit, whatever was there before.
THEOREM DocumentsSoloIngestIsWhole == Spec => []SoloIngestIsWhole
<1>1. SoloInv => SoloIngestIsWhole
  <2> SUFFICES ASSUME SoloInv, NEW w \in Ingests, pc[w] = "done", alone[w]
               PROVE  /\ InIndex(units) \intersect SameDocument(w) = {w}
                      /\ w \in InIndex(rows)
                      /\ hash[DocumentOf[w]] = w
    BY DEF SoloIngestIsWhole
  <2>1. Solo(w) /\ w \in SameDocument(w)
    BY DEF SoloInv, SameDocument
  <2> QED BY <2>1 DEF Solo, HasUnit, HasRow, InIndex
<1> QED BY <1>1, DocumentsSolo, PTL
=============================================================================
