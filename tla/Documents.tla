------------------------------ MODULE Documents ------------------------------
(***************************************************************************)
(* Ingesting documents again and again: every ingest locks the document,  *)
(* purges the memory units of the earlier ones with their links and entity *)
(* rows, inserts a unit of its own, its entity row and a link to a unit it *)
(* has found, and gives the document its hash.  There are no transactions  *)
(* and no foreign keys: the purge cascades by hand, from what it can       *)
(* search, and a link is inserted after its two ends were searched for.    *)
(* Ingests overlap, die, and send again what has timed out.                *)
(*                                                                         *)
(* An ingest stands for its unit, its row, its link and its hash.  The     *)
(* order of the calls is the caller's, which is outside this code; the     *)
(* docstrings tell it (first batch, end of retain).                        *)
(***************************************************************************)
EXTENDS Elastic

CONSTANTS
  Ingests,
  DocumentOf,   \* the document of each ingest
  NoLink,
  MaxFaults     \* bound: ingests that die and requests that time out

Pending == "__pending__"

ASSUME DocumentsAssumption ==
  /\ NoLink \notin Ingests
  /\ Missing \notin Ingests /\ Missing # Pending /\ Missing # "row"
  /\ MaxFaults \in Nat

TheDocuments == {DocumentOf[w] : w \in Ingests}

VARIABLES
  units,      \* memory_units: [live, snap], for each ingest its unit
  rows,       \* unit_entities: [live, snap]
  links,      \* memory_links: [live, snap], the document is where the link goes
  hash,       \* content_hash of each document
  pc,
  collected,  \* the unit ids that a purge has found
  target,     \* where the link of an ingest is to go
  returned,   \* history: the <<call, ingest>> whose insert has returned
  due,        \* history: what had returned when a purge began
  alone,      \* history: no other ingest ran since this one's purge began
  faults

vars == <<units, rows, links, hash, pc, collected, target, returned, due, alone, faults>>
indexes == <<units, rows, links>>
history == <<returned, due, alone>>

Index(docs) == [live : [Ingests -> Copies(docs)], snap : [Ingests -> Copies(docs)]]

Empty == [live |-> EmptyIndex(Ingests), snap |-> EmptyIndex(Ingests)]

Init ==
  /\ units = Empty /\ rows = Empty /\ links = Empty
  /\ hash = [d \in TheDocuments |-> Missing]
  /\ pc = [w \in Ingests |-> "lock"]
  /\ collected = [w \in Ingests |-> {}]
  /\ target = [w \in Ingests |-> NoLink]
  /\ returned = {}
  /\ due = [w \in Ingests |-> {}]
  /\ alone = [w \in Ingests |-> FALSE]
  /\ faults = 0

Goto(w, phase) == pc' = [pc EXCEPT ![w] = phase]

InIndex(index) == {u \in Ingests : Exists(index.live, u)}

InSearch(index) == {u \in Ingests : Exists(index.snap, u)}

Written(index, w, doc) == [index EXCEPT !.live = Put(index.live, w, doc)]

Refreshed(index) == [index EXCEPT !.snap = index.live]

\* mutant: refresh=False
AtOnce(index, w) == TRUE

\* refresh=wait_for, of the last write of w; if that is deleted by now, a search
\* had found it
IsRefreshed(index, w) ==
  Exists(index.live, w) => Searchable(index.snap, w, index.live[w].seq)

\* delete_by_query with conflicts=proceed: what its search finds is deleted,
\* unless it was written since.  It can be searched until the next refresh.
DeleteByQuery(index, hits) ==
  [index EXCEPT !.live = [u \in Ingests |->
     IF u \in hits /\ index.live[u].seq = index.snap[u].seq
       THEN [seq |-> index.live[u].seq + 1, doc |-> Missing]
       ELSE index.live[u]]]

\* mutant: delete_by_query without refresh=True
NotRefreshed(index) == index

\* ... and with refresh=True it answers when it has refreshed the index
AfterDeletes(index) == Refreshed(index)

SameDocument(w) == {v \in Ingests : DocumentOf[v] = DocumentOf[w]}

Purging == {"links", "linksGone", "rows", "rowsGone", "units", "unitsGone"}

Active == {"read", "collect", "insert", "inserted", "row", "rowed", "pick", "check",
           "create", "created", "finalize"} \union Purging

-----------------------------------------------------------------------------
(* lock_document_for_write *)

\* op_type=create of the placeholder.  The document is not deleted, and is not
\* searched for either: the refresh makes no difference.
Lock(w) ==
  /\ pc[w] = "lock"
  /\ IF hash[DocumentOf[w]] = Missing
       THEN hash' = [hash EXCEPT ![DocumentOf[w]] = Pending] /\ Goto(w, "collect")
       ELSE Goto(w, "read") /\ UNCHANGED hash
  /\ alone' = [v \in Ingests |-> alone[v] /\ v \notin SameDocument(w)]
  /\ UNCHANGED <<indexes, collected, target, returned, due, faults>>

\* after a 409: the hash is read and returned, and nothing is locked
ReadHash(w) ==
  /\ pc[w] = "read"
  /\ Goto(w, "collect")
  /\ UNCHANGED <<indexes, hash, collected, target, history, faults>>

-----------------------------------------------------------------------------
(* purge_document_units *)

Settled == \A index \in {units, rows, links} : index.snap = index.live

\* mutant: search_after is set before the first page
PagesAfterFirst(w) ==
  LET ids == InSearch(units) \intersect SameDocument(w)
  IN {u \in ids : u # CHOOSE v \in ids : TRUE}

\* the unit ids of the document, from searches, page after page
AllPages(w) == InSearch(units) \intersect SameDocument(w)

CollectUnits(w) ==
  /\ pc[w] = "collect"
  /\ collected' = [collected EXCEPT ![w] = AllPages(w)]
  /\ Goto(w, IF AllPages(w) = {} THEN "insert" ELSE "links")
  /\ due' = [due EXCEPT ![w] = returned]
  /\ alone' = [alone EXCEPT ![w] = Settled /\ \A v \in SameDocument(w) \ {w} : pc[v] \notin Active]
  /\ UNCHANGED <<indexes, hash, target, returned, faults>>

\* mutant: only the links that start at the units
LinksFrom(ids) == InSearch(links) \intersect ids

\* the links that start or end at one of the units
LinksTouching(ids) == {u \in InSearch(links) : u \in ids \/ links.snap[u].doc \in ids}

DeleteLinks(w) ==
  /\ pc[w] = "links"
  /\ links' = DeleteByQuery(links, LinksTouching(collected[w]))
  /\ Goto(w, "linksGone")
  /\ UNCHANGED <<units, rows, hash, collected, target, history, faults>>

LinksDeleted(w) ==
  /\ pc[w] = "linksGone"
  /\ links' = AfterDeletes(links)
  /\ Goto(w, "rows")
  /\ UNCHANGED <<units, rows, hash, collected, target, history, faults>>

\* (the rows of the graph maintenance queue are in GraphQueue)
DeleteRows(w) ==
  /\ pc[w] = "rows"
  /\ rows' = DeleteByQuery(rows, collected[w] \intersect InSearch(rows))
  /\ Goto(w, "rowsGone")
  /\ UNCHANGED <<units, links, hash, collected, target, history, faults>>

RowsDeleted(w) ==
  /\ pc[w] = "rowsGone"
  /\ rows' = AfterDeletes(rows)
  /\ Goto(w, "units")
  /\ UNCHANGED <<units, links, hash, collected, target, history, faults>>

\* the units come last: whoever dies before has left no link without ends
DeleteUnits(w) ==
  /\ pc[w] = "units"
  /\ units' = DeleteByQuery(units, collected[w] \intersect InSearch(units))
  /\ Goto(w, "unitsGone")
  /\ UNCHANGED <<rows, links, hash, collected, target, history, faults>>

UnitsDeleted(w) ==
  /\ pc[w] = "unitsGone"
  /\ units' = AfterDeletes(units)
  /\ Goto(w, "insert")
  /\ UNCHANGED <<rows, links, hash, collected, target, history, faults>>

-----------------------------------------------------------------------------
(* The inserts.  An insert returns when it is refreshed. *)

\* insert_facts_batch: a new id, and an unconditional index
InsertFacts(w) ==
  /\ pc[w] = "insert"
  /\ units' = Written(units, w, "row")
  /\ Goto(w, "inserted")
  /\ UNCHANGED <<rows, links, hash, collected, target, history, faults>>

FactsAnswered(w) ==
  /\ pc[w] = "inserted" /\ IsRefreshed(units, w)
  /\ returned' = returned \union {<<"unit", w>>}
  /\ Goto(w, "row")
  /\ UNCHANGED <<indexes, hash, collected, target, due, alone, faults>>

\* bulk_insert_unit_entities: op_type=create, 409 ignored
InsertRow(w) ==
  /\ pc[w] = "row"
  /\ rows' = IF Exists(rows.live, w) THEN rows ELSE Written(rows, w, "row")
  /\ Goto(w, "rowed")
  /\ UNCHANGED <<units, links, hash, collected, target, history, faults>>

RowAnswered(w) ==
  /\ pc[w] = "rowed" /\ IsRefreshed(rows, w)
  /\ returned' = returned \union {<<"row", w>>}
  /\ Goto(w, "pick")
  /\ UNCHANGED <<indexes, hash, collected, target, due, alone, faults>>

\* external: the caller has found a unit to link to, or none
PickTarget(w) ==
  /\ pc[w] = "pick"
  /\ \/ \E v \in InSearch(units) \ {w} :
          target' = [target EXCEPT ![w] = v] /\ Goto(w, "check")
     \/ Goto(w, "finalize") /\ UNCHANGED target
  /\ UNCHANGED <<indexes, hash, collected, history, faults>>

BothEnds(w) == {w, target[w]} \subseteq InSearch(units)

\* bulk_insert_links: are both ends there?
CheckEndpoints(w) ==
  /\ pc[w] = "check"
  /\ Goto(w, IF BothEnds(w) THEN "create" ELSE "finalize")
  /\ UNCHANGED <<indexes, hash, collected, target, history, faults>>

\* op_type=create, 409 ignored
CreateLink(w) ==
  /\ pc[w] = "create"
  /\ links' = IF Exists(links.live, w) THEN links ELSE Written(links, w, target[w])
  /\ Goto(w, "created")
  /\ UNCHANGED <<units, rows, hash, collected, target, history, faults>>

LinkAnswered(w) ==
  /\ pc[w] = "created" /\ IsRefreshed(links, w)
  /\ returned' = returned \union {<<"link", w>>}
  /\ Goto(w, "finalize")
  /\ UNCHANGED <<indexes, hash, collected, target, due, alone, faults>>

\* finalize_document: an unconditional upsert
Finalize(w) ==
  /\ pc[w] = "finalize"
  /\ hash' = [hash EXCEPT ![DocumentOf[w]] = w]
  /\ Goto(w, "done")
  /\ UNCHANGED <<indexes, collected, target, history, faults>>

-----------------------------------------------------------------------------
\* the process dies between two requests, or waits for an answer in vain
Crash(w) ==
  /\ pc[w] \in Active /\ faults < MaxFaults
  /\ faults' = faults + 1
  /\ Goto(w, "dead")
  /\ UNCHANGED <<indexes, hash, collected, target, history>>

\* the client sends the bulk of a timed-out insert again, with the same ids
InsertTimesOut(w) ==
  /\ faults < MaxFaults
  /\ faults' = faults + 1
  /\ \/ pc[w] = "inserted" /\ Goto(w, "insert")
     \/ pc[w] = "rowed" /\ Goto(w, "row")
     \/ pc[w] = "created" /\ Goto(w, "create")
  /\ UNCHANGED <<indexes, hash, collected, target, history>>

\* external: Elasticsearch refreshes an index
Refresh ==
  /\ \/ /\ units.snap # units.live
        /\ units' = Refreshed(units) /\ UNCHANGED <<rows, links>>
     \/ /\ rows.snap # rows.live
        /\ rows' = Refreshed(rows) /\ UNCHANGED <<units, links>>
     \/ /\ links.snap # links.live
        /\ links' = Refreshed(links) /\ UNCHANGED <<units, rows>>
  /\ UNCHANGED <<hash, pc, collected, target, history, faults>>

-----------------------------------------------------------------------------
Next ==
  \/ \E w \in Ingests :
       \/ Lock(w) \/ ReadHash(w)
       \/ CollectUnits(w)
       \/ DeleteLinks(w) \/ LinksDeleted(w) \/ DeleteRows(w) \/ RowsDeleted(w)
       \/ DeleteUnits(w) \/ UnitsDeleted(w)
       \/ InsertFacts(w) \/ FactsAnswered(w) \/ InsertRow(w) \/ RowAnswered(w)
       \/ PickTarget(w) \/ CheckEndpoints(w) \/ CreateLink(w) \/ LinkAnswered(w)
       \/ Finalize(w)
       \/ Crash(w) \/ InsertTimesOut(w)
  \/ Refresh

Spec == Init /\ [][Next]_vars

-----------------------------------------------------------------------------
Calls == {"unit", "row", "link"} \X Ingests

\* The type invariant.
TypeOK ==
  /\ units \in Index({"row"}) /\ rows \in Index({"row"}) /\ links \in Index(Ingests)
  /\ hash \in [TheDocuments -> {Missing, Pending} \union Ingests]
  /\ pc \in [Ingests -> Active \union {"lock", "done", "dead"}]
  /\ collected \in [Ingests -> SUBSET Ingests]
  /\ target \in [Ingests -> Ingests \union {NoLink}]
  /\ returned \subseteq Calls
  /\ due \in [Ingests -> SUBSET Calls]
  /\ alone \in [Ingests -> BOOLEAN]
  /\ faults \in Nat

Purged(w) == pc[w] \in Active \ ({"read", "collect"} \union Purging)

\* A purge removes every unit of its document whose insert had returned when it began, and from
\* the units it removes the entity rows and the links, in both directions,
\* whose inserts had returned, however many ingests run beside it.
PurgeTakesAnswered ==
  \A w \in Ingests : Purged(w) =>
    \A u \in Ingests :
      /\ <<"unit", u>> \in due[w] /\ u \in SameDocument(w) => u \notin InIndex(units)
      /\ <<"row", u>> \in due[w] /\ u \in collected[w] => u \notin InIndex(rows)
      /\ <<"link", u>> \in due[w] /\ {u, target[u]} \intersect collected[w] # {}
            => u \notin InIndex(links)

\* The endpoint check takes a unit that is gone for alive only while the purge
\* that took it has not answered: it deletes first and refreshes then, and one
\* that dies in between leaves the refresh to the server.
EndsExistWhenChecked ==
  [][\A w \in Ingests : pc[w] = "check" /\ pc'[w] = "create" =>
       \A end \in {w, target[w]} \ InIndex(units) :
         \E v \in Ingests : end \in collected[v] /\ pc[v] \in {"unitsGone", "dead"}]_vars

\* A link is left without one of its ends only by an insert that had not
\* returned when the purge of that end began.
DanglingHadNotReturned ==
  \A u \in InIndex(links) :
    \A end \in {u, links.live[u].doc} \ InIndex(units) :
      \E w \in Ingests : end \in collected[w] /\ <<"link", u>> \notin due[w]

\* An ingest that ran alone, and began when everything before it could be
\* searched, leaves the document with its own unit and hash and no other unit,
\* whatever earlier ingests that died or overlapped had left.
SoloIngestIsWhole ==
  \A w \in Ingests : pc[w] = "done" /\ alone[w] =>
    /\ InIndex(units) \intersect SameDocument(w) = {w}
    /\ w \in InIndex(rows)
    /\ hash[DocumentOf[w]] = w
=============================================================================
