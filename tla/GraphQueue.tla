------------------------------ MODULE GraphQueue ------------------------------
(***************************************************************************)
(* The graph-maintenance queue of one bank: enqueue_graph_maintenance      *)
(* creates a row with the deterministic id bank::unit, and                 *)
(* claim_graph_maintenance_batch searches the oldest rows and deletes them *)
(* conditionally, while a purge of a document deletes the rows of its      *)
(* units.  A bulk request is not atomic: its items are applied one by one, *)
(* in no order, between the requests of others.                            *)
(***************************************************************************)
EXTENDS Elastic, FiniteSets

CONSTANTS
  Workers, Units,
  Limit,         \* the batch size of a claim
  MaxEnqueues,   \* bound: rows ever created
  FaultKinds,    \* the faults considered: some of "timeout", "error", "crash"
  MaxFaults      \* bound: how many of them

ASSUME QueueAssumption ==
  /\ Units \subseteq Nat
  /\ Limit \in Nat \ {0}
  /\ MaxEnqueues \in Nat /\ MaxFaults \in Nat
  /\ Missing \notin Nat

\* a row as a search returned it; with its sequence number, it is also the
\* name of that row among all the rows its id has ever had
Rows == [id : Units, seq : Nat]

VARIABLES
  live,       \* graph_maintenance_queue as writes see it; a row is its enqueued_at
  snap,       \* ... as _search and _delete_by_query see it
  clock,      \* the time, in rows enqueued
  pc,         \* idle, in a bulk delete, or in one that had an item rejected
  hits,       \* the deletes of the bulk that are not applied yet
  won,        \* those that answered 200/deleted
  delivered,  \* the rows some call returned
  doomed,     \* the rows a purge has found and not deleted yet
  faults

vars == <<live, snap, clock, pc, hits, won, delivered, doomed, faults>>

Init ==
  /\ live = EmptyIndex(Units)
  /\ snap = live
  /\ clock = 0
  /\ pc = [w \in Workers |-> "idle"]
  /\ hits = [w \in Workers |-> {}]
  /\ won = [w \in Workers |-> {}]
  /\ delivered = {}
  /\ doomed = {}
  /\ faults = 0

-----------------------------------------------------------------------------
\* mutant: op_type=index
MayWrite(u) == TRUE

\* op_type=create: a row that exists already answers 409, which is ignored
MayCreate(u) == ~Exists(live, u)

EnqueueUnit(u) ==
  /\ clock < MaxEnqueues
  /\ MayCreate(u)
  /\ live' = Put(live, u, clock)
  /\ clock' = clock + 1
  /\ UNCHANGED <<snap, pc, hits, won, delivered, doomed, faults>>

\* by (enqueued_at, _id)
Before(u, v) ==
  \/ snap[u].doc < snap[v].doc
  \/ snap[u].doc = snap[v].doc /\ u < v

\* mutant: the size of the search is one short
OldestRowsShort ==
  LET queue == {u \in Units : Exists(snap, u)} IN
  {u \in queue : Cardinality({v \in queue : Before(v, u)}) < Limit - 1}

OldestRows ==
  LET queue == {u \in Units : Exists(snap, u)} IN
  {u \in queue : Cardinality({v \in queue : Before(v, u)}) < Limit}

\* with seq_no_primary_term
Hit(u) == [id |-> u, seq |-> snap[u].seq]

SearchRows(w) ==
  /\ pc[w] = "idle"
  /\ OldestRows # {}
  /\ hits' = [hits EXCEPT ![w] = {Hit(u) : u \in OldestRows}]
  /\ pc' = [pc EXCEPT ![w] = "bulk"]
  /\ UNCHANGED <<live, snap, clock, won, delivered, doomed, faults>>

DeleteWins(w, row) ==
  /\ row \in hits[w]
  /\ Unchanged(live, row)
  /\ live' = Put(live, row.id, Missing)
  /\ hits' = [hits EXCEPT ![w] = @ \ {row}]
  /\ won' = [won EXCEPT ![w] = @ \union {row}]
  /\ UNCHANGED <<snap, clock, pc, delivered, doomed, faults>>

\* mutant: a delete that answers 404 or 409 counts as done
DeleteLosesCounts(w, row) ==
  /\ row \in hits[w]
  /\ ~Unchanged(live, row)
  /\ hits' = [hits EXCEPT ![w] = @ \ {row}]
  /\ won' = [won EXCEPT ![w] = @ \union {row}]
  /\ UNCHANGED <<live, snap, clock, pc, delivered, doomed, faults>>

\* 404 or 409: somebody else deleted the row, and perhaps it is back
DeleteLoses(w, row) ==
  /\ row \in hits[w]
  /\ ~Unchanged(live, row)
  /\ hits' = [hits EXCEPT ![w] = @ \ {row}]
  /\ UNCHANGED <<live, snap, clock, pc, won, delivered, doomed, faults>>

ReturnRows(w) ==
  /\ pc[w] = "bulk" /\ hits[w] = {}
  /\ \A row \in won[w] : Searchable(snap, row.id, row.seq + 1)
  /\ delivered' = delivered \union won[w]
  /\ won' = [won EXCEPT ![w] = {}]
  /\ pc' = [pc EXCEPT ![w] = "idle"]
  /\ UNCHANGED <<live, snap, clock, hits, doomed, faults>>

-----------------------------------------------------------------------------
Fails(kind) ==
  /\ kind \in FaultKinds /\ faults < MaxFaults
  /\ faults' = faults + 1

\* the server rejects an item of the bulk with another status
ItemRejected(w, row) ==
  /\ Fails("error")
  /\ row \in hits[w]
  /\ hits' = [hits EXCEPT ![w] = @ \ {row}]
  /\ pc' = [pc EXCEPT ![w] = "failing"]
  /\ UNCHANGED <<live, snap, clock, won, delivered, doomed>>

\* ... and the call raises, with the rows it had deleted
RaiseError(w) ==
  /\ pc[w] = "failing" /\ hits[w] = {}
  /\ won' = [won EXCEPT ![w] = {}]
  /\ pc' = [pc EXCEPT ![w] = "idle"]
  /\ UNCHANGED <<live, snap, clock, hits, delivered, doomed, faults>>

\* The answer is lost and the client sends the bulk again: every row that was
\* deleted answers 404 now, and the call returns nothing.
AnswerTimesOut(w) ==
  /\ Fails("timeout")
  /\ pc[w] = "bulk" /\ hits[w] = {} /\ won[w] # {}
  /\ won' = [won EXCEPT ![w] = {}]
  /\ pc' = [pc EXCEPT ![w] = "idle"]
  /\ UNCHANGED <<live, snap, clock, hits, delivered, doomed>>

Crash(w) ==
  /\ Fails("crash")
  /\ pc[w] # "idle"
  /\ hits' = [hits EXCEPT ![w] = {}]
  /\ won' = [won EXCEPT ![w] = {}]
  /\ pc' = [pc EXCEPT ![w] = "idle"]
  /\ UNCHANGED <<live, snap, clock, delivered, doomed>>

-----------------------------------------------------------------------------
\* step 2 of purge_document_units, on this queue: delete_by_query reads the
\* rows of the units, then deletes each unless it was written since
StartPurge(units) ==
  /\ doomed = {}
  /\ doomed' = {Hit(u) : u \in {v \in units : Exists(snap, v)}}
  /\ UNCHANGED <<live, snap, clock, pc, hits, won, delivered, faults>>

PurgeRow(row) ==
  /\ row \in doomed
  /\ live' = IF Unchanged(live, row) THEN Put(live, row.id, Missing) ELSE live
  /\ doomed' = doomed \ {row}
  /\ UNCHANGED <<snap, clock, pc, hits, won, delivered, faults>>

\* external: Elasticsearch refreshes the index
Refresh ==
  /\ snap # live
  /\ snap' = live
  /\ UNCHANGED <<live, clock, pc, hits, won, delivered, doomed, faults>>

-----------------------------------------------------------------------------
ClaimStep(w) ==
  \/ SearchRows(w)
  \/ \E row \in hits[w] : DeleteWins(w, row) \/ DeleteLoses(w, row)
  \/ ReturnRows(w)
  \/ RaiseError(w)

Fault(w) ==
  \/ \E row \in hits[w] : ItemRejected(w, row)
  \/ AnswerTimesOut(w)
  \/ Crash(w)

Next ==
  \/ \E u \in Units : EnqueueUnit(u)
  \/ \E w \in Workers : ClaimStep(w) \/ Fault(w)
  \/ \E units \in SUBSET Units : StartPurge(units)
  \/ \E row \in doomed : PurgeRow(row)
  \/ Refresh

Spec == Init /\ [][Next]_vars

\* A worker keeps claiming (its loop is outside), the event loop and the
\* server go on.
Fairness == /\ \A w \in Workers : WF_vars(ClaimStep(w))
            /\ WF_vars(Refresh)

FairSpec == Spec /\ Fairness

-----------------------------------------------------------------------------
\* The type invariant.
TypeOK ==
  /\ live \in [Units -> Copies(Nat)]
  /\ snap \in [Units -> Copies(Nat)]
  /\ clock \in Nat
  /\ pc \in [Workers -> {"idle", "bulk", "failing"}]
  /\ hits \in [Workers -> SUBSET Rows]
  /\ won \in [Workers -> SUBSET Rows]
  /\ delivered \subseteq Rows
  /\ doomed \subseteq Rows
  /\ faults \in Nat

\* Claim-and-delete never hands a row out twice: not to two workers, not to a
\* worker when an earlier call has returned it, whatever stale rows the
\* searches see, whichever items fail and whoever dies.
\* ("Exactly-once claiming" it is without faults only.)
AtMostOnce ==
  /\ \A v, w \in Workers : v # w => won[v] \cap won[w] = {}
  /\ \A w \in Workers : won[w] \cap delivered = {}

\* A row does not stay in the queue for ever: the workers reach it, however
\* many rows are enqueued, purged and enqueued again meanwhile.
NoStarvation ==
  \A u \in Units : Exists(live, u) ~> ~Exists(live, u)

-----------------------------------------------------------------------------
\* the rows in the index, which are the jobs of the queue
QueuedRows ==
  {[id |-> u, seq |-> live[u].seq] : u \in {v \in Units : Exists(live, v)}}

\* an id is created and deleted at most once per row that was enqueued
NamedRows == [id : Units, seq : 0..(2 * MaxEnqueues)]

Queue == INSTANCE WorkQueue WITH
  Jobs <- NamedRows, Lossy <- MaxFaults > 0,
  queued <- QueuedRows, taken <- won, done <- delivered

\* The index with its searches that lag, its conditional deletes and its
\* purges is such a queue: each row that is enqueued is taken by one worker, or
\* by a purge, and "claimed exactly once" if no call meets a fault.
ImplementsWorkQueue == Queue!Spec
=============================================================================
