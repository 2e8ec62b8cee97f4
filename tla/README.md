# TLA+ models of the Elasticsearch backend for Hindsight

The repository replaces the PostgreSQL storage of the Hindsight API by
Elasticsearch. Elasticsearch has no transactions, no row locks, no foreign keys,
and its searches lag behind its writes; the code makes up for that with
deterministic ids and `op_type=create`, conditional writes (`if_seq_no`),
`refresh=wait_for`, cascades by hand and loops that try again. Whether that is
enough depends on how the requests of several processes interleave, on what a
search has not seen yet, and on which request times out or dies: this is what
the models here are about, and what unit tests hardly reach.

Paths below are relative to `src/hindsight-api-slim/hindsight_api/`.

## 1. The system

| Part | Code | State | Operations |
|---|---|---|---|
| Index semantics | external server; client settings in `engine/db/elasticsearch.py` | documents with sequence numbers, and the copy that searches see | create, index, update, delete, conditional writes, `delete_by_query`, refresh |
| Task queue | `engine/db/ops_elasticsearch.py:1438-1633`, `engine/db/elasticsearch_engine_ops.py` | `async_operations` | `claim_tasks` (pools, bank serialization, priorities), completion, cancellation, deletion, retry |
| Graph maintenance queue | `ops_elasticsearch.py:523-596` | `graph_maintenance_queue` | enqueue, claim-and-delete, purge |
| Migrations, start of a process | `engine/db/migrations_elasticsearch.py`, `engine/db/elasticsearch.py` | tracking index, the indexes and aliases, initialized or not | `run_migrations` (in a thread, then in `initialize`), `create_index`, `reindex_to`, `shutdown` |
| Operations | `elasticsearch_engine_ops.py` | parent and child rows of `async_operations`, webhook outbox | complete a child, decide the parent, merge progress metadata, delete |
| Documents, units, links | `ops_elasticsearch.py:201-410`, `elasticsearch_engine_ops.py:344-420` | `documents`, `memory_units`, `memory_links`, `unit_entities` | lock, purge cascade, inserts, finalize |
| Entities, cooccurrences | `ops_elasticsearch.py:412-519`, `598-712` | `entities`, `unit_entities`, `entity_cooccurrences` | resolve names, insert rows, prune orphans and stale pairs |
| Recall | `engine/search/retrieval.py`, `engine/search/retrieval_elasticsearch.py`, `ops_elasticsearch.py:869-1036` | none of its own: budgets, frontiers, scores of one call | filters, semantic and BM25 arms, temporal spreading, graph expansion; on Elasticsearch, PostgreSQL or Oracle |
| Searches for an ingest and for observations | `ops_elasticsearch.py:716-832`, `1037-1138` | none of its own | `fetch_unit_dates`, `fetch_temporal_neighbors`, `expand_observations` |
| Webhooks | `ops_elasticsearch.py:1180-1436` | `webhooks`, delivery tasks in `async_operations` | create, update, delete, dispatch, paged listing |
| Reads for enrichment, statistics | `elasticsearch_engine_ops.py` | none of its own | `fetch_entities_for_units`, `compute_bank_stats`; single searches |
| Chunks, tag lists | `ops_elasticsearch.py` | single documents | one request each |
| Pool, SQL dialect, alembic dispatch | `engine/db/elasticsearch.py`, `engine/sql/elasticsearch.py`, `alembic/_dialect.py` | none | raise, or hand out one shared client |

**How they interact.** Every part talks to the server only, through one shared
asynchronous client; the parts meet in the indexes. A worker claims a child
operation from the task queue, ingests a document (lock, purge, inserts), which
puts units on the maintenance queue, resolves entities, then completes the child,
tells the webhooks of the bank, and perhaps decides the parent. Maintenance jobs prune entities and pairs at the
same time. Recall reads units, links and entity rows without any lock while
ingests and purges go on.

**What is hard.** Every `await` is a place where any other process may act. A
search returns what was there at the last refresh. A purge is four requests, a
decision is four, a claim is a search and up to twice the limit of updates. The
client retries a request that times out by itself (`retry_on_timeout`), so an
applied `create` or conditional update may be answered with 409. A process may
die between any two requests, and nothing rolls back.

**What makes each part correct.**

- *Task queue*: nobody owns a task twice; a task is claimed only while it is
  pending and due; the limit of a pool holds over all its searches; pools of one
  call do not claim two consolidations of one bank; calls end, no runnable task
  waits for ever.
- *Graph queue*: a row is handed out once, or removed by a purge; no row is lost
  without a fault; rows do not starve.
- *Migrations*: a version runs once and by one process, a failure stops later
  starts, what is recorded as applied was applied, every start ends; a process
  that serves is migrated, and a move of an index keeps its documents.
- *Operations*: a parent is decided when and as its children finished, once, by
  the last one, without losing progress.
- *Webhooks*: an edit that was answered holds for every later dispatch; a list
  read page by page is complete.
- *Documents*: a purge leaves nothing of what was there when it began; links have
  ends; a new full ingest repairs what dead ones left.
- *Entities*: pruning spares what is referenced or witnessed, and gets the rest
  in the end.
- *Reads*: what is put together from several searches lacks nothing that was there
  all the time.
- *Recall*: the filters mean what they say, budgets hold, slices of the time window are served evenly, results
  are reachable along strong enough links, nothing reachable is missed while
  budget remains, no unit is displaced by a weaker one, and only a request
  without a substitute fails the recall.

`PROJECT.json` lists the parts with their status, every hazard at the line where
it bites with the properties that would catch it, and for every definition the
lines of code it stands for.

## 2. The modules

| Module | Models | State and actions |
|---|---|---|
| `Elastic` | one index | `[seq, doc]` per id; a component keeps a live copy (GET and writes) and a searchable copy; `Put`, `Unchanged` (`if_seq_no`), `Searchable` (`refresh=wait_for`) |
| `TaskQueue`, `Leases` | `claim_tasks` request by request and the life of a task; and what a queue of leased tasks promises | one program counter per worker: pool, busy banks, pass (priority tier), search, try, wait; `frame` holds the local variables of the call. A task is leased to the worker whose update of it was applied |
| `GraphQueue`, `WorkQueue` | the maintenance queue, and what a claim-and-delete queue promises | the bulk delete is applied item by item; rows are named by id and sequence number |
| `Migrations`, `Ledger` | `run_migrations`, and what a ledger of versions promises | claim by create, apply, mark as failed; 409 leads to a GET of the status. An entry of the ledger is read off the tracking document, the schema and the faults |
| `Startup`; EXTENDS `Migrations` | the life of a process around it, and what the versions do | `stage`: thread, migrated, init, half, up; version 1 is `CreateIndex` per table, version 2 is `reindex_to` in four requests; processes that are up write |
| `Operations`, `Join` | completion of children and the decision of the parent; and that decision as one step | `MarkChild … InsertOutbox`, then `ReadParent`, `FindChildren`, `ReadMetadata`, `UpdateParent`; a refused update begins again, at most `MaxTries` times (`Again`); a partial update merges metadata key by key. The states of `Join` are the statuses of the rows |
| `Webhooks`; EXTENDS `Operations` | what the worker of a completed child tells, and to whom | administrators that read and then write, `FindWebhooks`, `InsertDelivery`; `ListPage` with its cursor |
| `Documents` | ingests of documents | lock, collect, three `delete_by_query` on the modelled indexes (what each deletes is one step, its refresh and answer the next), inserts, endpoint check, finalize |
| `Entities` | resolution and pruning | bulk creates item by item, the search for conflicting names, two maintenance jobs |
| `Enrichment`; EXTENDS `Entities` | two readers beside the writers and jobs | the names of a recall's entities (three searches), the count of a bank's links (pages of two aggregations) |
| `Memories` | what recall reads | units by rank, links, entity rows, deletions, the budget, the backend |
| `TemporalRetrieval` | coverage selection and spreading | one action per request or statement and one per link taken |
| `GraphRetrieval` | seeds, two concurrent expansions, the merge | one action per request |
| `Recall`; EXTENDS the two arms | the orchestration on three backends | fast path, fallback, SQL statements, temporal arm, graph arm, failures, deletions |
| `TagFilters`; EXTENDS `Recall` | the translation of tags, groups and a creation range | `Translate` builds queries, each the set of units that the server finds by it; `IsTagged` and `IsCreated` are what the filter means; `Depth` is how deep a group nests |
| `Lookups`; EXTENDS `Recall` | neighbours in time; expansion of observations | one action per search or sub-search; facts come and go |
| `Reads`; EXTENDS `Lookups`, `TagFilters` | one call: a filtered recall, or one of the lookups | composes the steps of both, and has the bounds of the instance |
| `MC…` | instances for TLC | definitions that a `.cfg` cannot write |
| `…Proofs` | theorems and their proofs | see section 5 |

An action is the code between two answers of the server: the request that is sent
and what the server does with it, with the local computation around it. A write
with `refresh=wait_for` is two actions, the write and its answer, since others
act in between. Mutations of several documents in one bulk are applied item by
item where the outcome of the items matters. Definitions preceded by a comment
`mutant:` are not part of the models: they are plausible bugs, one for every
checked property, and the property is violated when the definition after it is
replaced by them.

## 3. The runs

Sizes are distinct states.

| Run | Question | Specification and instance | States |
|---|---|---|---|
| `TaskQueue_safety` | are claims exclusive, limited, serial across pools, is none forgotten, and does each step of a call bring it nearer to its end, whatever goes wrong once? | `TaskQueue!Spec`: two workers, two consolidations of one bank, a reserved and the shared pool, two priority tiers, one retry, one task that is cancelled or deleted, one fault | 5 160 000 |
| `TaskQueue_live` | are tasks leased as `Leases` says? do calls return, and are tasks claimed in the end? | `TaskQueue!FairSpec`: two workers, two tasks, one retry, one fault | 318 000 |
| `GraphQueue_live` | is every row handed out at most once, and is this a `WorkQueue`? do rows leave? | `GraphQueue!FairSpec`: two claimers, two ids, three enqueues, batch of one, one fault | 57 000 |
| `Migrations_live` | is the tracking index a `Ledger`, does a failure block, is who serves migrated, what does a move destroy, does a start end? | `StartupSpec`: two processes, a baseline and a breaking change, three starts, one failure, one fault, one document | 913 000 |
| `Operations_decide` | is the parent decided rightly and by somebody, and as one `Join`? who is told? | `WebhooksSpec`: two children, two progress writers, cancellation and deletion, one dead worker; two webhooks, two administrators, two edits, one list with pages of one; two tries of a decision | 1 920 000 |
| `Documents_purge` | what do purges and inserts leave? | `Documents!Spec`: two ingests of one document, one of another, one crash or retried insert | 6 150 000 |
| `Entities_prune` | what does pruning spare, what goes in the end, what do readers miss? | `EnrichmentSpec`: two writers sharing a name, one job, three uuids, one recall or count after the other | 472 000 |
| `Recall_arms` | what do the filters mean, what do the arms and searches find, under deletions and failures? | `ReadsSpec`: six units, 6 date tables × 13 link tables × 2 entity tables × 3 budgets × 3 backends, two failures; 7 facts; 4100 filters | 1 160 000 |
| `TaskQueue_banks`, `Migrations_hole`, `Operations_outbox`, `Entities_cascade` | documented claims that the code does not keep, section 4 | the smallest instance with the case | |

**Why the bounds are enough.** Two processes are enough for every race here: each
conflict is about one document that one process writes between the read and the
write of another, and a third process can only play the part of the second. A
retry, a second start, or a third ingest gives an id a second life, which is what
stale hits are about. One fault at any moment reaches every state between two
requests; two faults repeat it. `MaxAttempts` is the 5 of the code; `MaxTries` is the engine's, which only a comment
mentions: two tries are the least that tell one which begins again from the last. The pages of
the readers are smaller than what they read, and their keys are born out of order
(`MCKeyOrder`). The date tables of `Recall_arms` have dates before, after, across
and exactly at the ends of the window and units without any; the budgets are
below the number of entry points, in the middle of a round and above what can be
found; six units and batches of two make three rounds. One of the link tables
(`MCCrowd`) has more heavy links from one source than a batch may return. The
facts of `Lookups` have equal dates, equal distances, other types and none.

Bounds that cut behaviours, and why nothing else hides behind them:

- `focus` of `Webhooks` chooses at the start who acts beside the children: writers
  and cancellations, or administrators, or a reader of deliveries. They meet in
  no document of each other.
- `errand` of `Lookups` chooses a recall, a search for neighbours or an expansion:
  calls that share nothing but the indexes. An expansion and the filters are
  looked at over one of the memories (`SomeMemory`, `OneMemory` of `Reads`): filters do not read
  links, and the links that an expansion follows at its end are followed over all
  the tables by the graph arm of the recall.
- A recall goes on after its filters for one request (`Served`); the others only
  translate. `TagFiltersAssumption` ties that request to the constants `Tagged`
  and `Created` that the arms filter by.
- A count of which nothing is promised any more is not followed to its end
  (`Meanwhile` in `Enrichment`): it can only fall short of what has gone.

**Deadlock** is checked in the two task-queue runs, where some step is always
possible. Elsewhere the system really stops: enqueues, starts, ingests, uuids or
the call are used up (`CHECK_DEADLOCK FALSE`).

**Symmetry** is used in runs without liveness only: workers, children,
administrators, starters, and the two ingests of one document are
interchangeable.

**Types.** The type of every component is proved, so only the run with the most
variables checks one too (`LookupsType`). What `Enrichment`, `Webhooks` and `Startup`
add to their components is typed by the invariants of their proofs.

**Fairness.** Weak fairness of a coroutine's next step: the event loop runs what
can run, and the server answers. Weak fairness of `Refresh`: the server refreshes
an index periodically (and `refresh=wait_for` relies on it). Workers poll and
finish what they execute, and `next_retry_at` comes: the poller's loop is outside
the sources, and this is what it is for. The pruning jobs are started again and
again, and not always while there is nothing to do (strong fairness of their two
starts). No fairness is assumed of purges, faults, cancellations, enqueues, edits,
readers or new starts of a process. Liveness is checked with faults in the task
queue, the graph queue and the migrations: a task that a dead worker leaves in
processing is taken back by nobody in this code, so it keeps the bank of a
consolidation busy for ever, and `NoStarvation` says that it stops nothing else.

## 4. Where the code and its documentation differ

Four have a run whose counterexample shows it:

1. `TaskQueue_banks` — *"consolidation inside the shared pool still honours bank
   serialization"* (`ops_elasticsearch.py:1621-1622`): the busy banks are read
   once per pool, and the claims of that pool are not added to them, so a shared
   pool with two slots claims two consolidations of one bank. Across pools of one
   call it does hold (`SerialAcrossPools`), thanks to the refresh of each claim.
2. `Migrations_hole` — *"instead of silently continuing past a hole in the
   tree"* (`migrations_elasticsearch.py:217-219`): a starter that finds a version
   claimed skips it, applies the next one, and then the first fails.
3. `Operations_outbox` — *"status first, outbox second … is the at-least-once
   guarantee"* (`elasticsearch_engine_ops.py:481-483`): a worker that dies between
   the two leaves a completed child that nobody announces.
4. `Entities_cascade` — *"Delete cooccurrence rows whose two entities are no longer
   witnessed together by any unit"* (`ops_elasticsearch.py:666-667`): pairs are
   found through the entities of the bank; once the first entity of a pair is
   pruned the pair stays for ever.

Four more are what a property that holds has to except. It says exactly when the
documented claim fails, and that it fails in no other way:

5. *"a 409 means another child won the race — re-read and retry the whole decision
   (the engine snippet loops, bounded)"* (`elasticsearch_engine_ops.py:427-429`):
   any write of the parent refuses the update, also that of a progress writer
   (`set_operation_result_metadata`). A worker that loses all its tries to such
   writers leaves; if it was the last, no child has won, and the parent stays in
   processing for ever. `LastOneDecides`: it is left so only by a worker that gave
   up after as many writes of the parent as it had tries.
6. *"graph maintenance queue with exactly-once claiming"* (`README.md:61-62` of the
   repository): a bulk delete whose answer is late is sent again, its rows then
   answer 404, and are returned to nobody; so are the rows that were deleted before
   an item makes the call raise, or before the process dies. `AtMostOnce` and
   `ImplementsWorkQueue` (with `Lossy`): at most once; exactly once without faults.
7. *"A graph-arm failure degrades to an empty arm with a warning instead of failing
   the whole recall"* (`README.md:219-220` of the repository): a recall
   gives the graph arm no seeds (`retrieval.py:872-873`), so it searches for them
   itself (`retrieval_elasticsearch.py:703`), outside of the `try` around its
   expansions, and a failure of this search fails the recall. `RaisesOnlyIfItMust`
   (`"seeds"`): a failed expansion does not.
8. *"top-10 per source"* (`README.md:79` of the repository, and
   `retrieval_elasticsearch.py:525` with it): one search of 30 hits per source serves
   a whole batch, so a source with very many heavy links takes the places of others.
   `NothingMissed` (`Crowded`): nothing else is missed.

Other behaviours that reading and modelling showed, and that no doc denies:

- Two workers may claim two consolidations of one bank, from searches of the busy
  banks that precede both claims.
- An answer that is lost, or an error after the first claims of a call, leaves
  tasks in processing that nobody executes. `NoOrphan` names the tasks that a fault
  may leave so and says that there are no others.
- A create of a migration document that is retried by the client, or a process
  that dies while it applies one, leaves a version that is recorded as applied and
  was never run. `AppliedIsTrue` says that no other document lies. A starter that
  skips a claimed version may serve before that version has been applied
  (`Excused` in `UpIsMigrated`).
- `reindex_to` is four requests. What is written between the copy and the delete
  goes with the old index; after a death between the delete and the alias the name
  stands for nothing, a write makes an index of it, and the alias is then refused:
  the documents are all in the new index, but under no name that is used.
- `set_operation_result_metadata(merge=True)` is a read and an unconditional
  write: a value that another writer reported in between goes back to the one that
  was read. No key is lost, because a partial update merges objects; for the same
  reason `merge=False` does not remove the keys that it does not name.
- `update_webhook` answers None both for a webhook that is not there and for one
  that was written since it was read, and raises if the webhook is deleted before
  it is read back. `delete_webhook` deletes what it finds by then.
- The cursor of a list of deliveries is a time: of deliveries of one tick across the
  end of a page the rest is not shown (`ListsMissOnlyTies`).
- The range of creation is not enforced in the expansions of the graph arm, nor
  in the spreading of the SQL backends.
- A group of tags leaves its empty members out: under `or`, an empty leaf does not
  let everything through.
- `lock_document_for_write` gives `__pending__` to the losers too and excludes
  nobody. An ingest that dies after its purge leaves the old hash.
- Entity rows that are inserted after their unit was purged stay, and keep their
  entities alive. Pruning deletes an entity whose rows arrive while the job runs,
  and by name: if it was pruned and inserted again meanwhile, the new one.
- A name whose winner is not searchable yet has no id in the result of
  `fetch_missing_entity_ids`.
- While a purge has deleted its units and not yet refreshed their index, the check
  of the ends of a link still finds them (`EndsExistWhenChecked` says that there is
  no other way to it).
- An expansion of the graph arm cuts its rows to the budget before the seeds and
  the units that the tag filters exclude are dropped (`StrongestFound` says so).
  When one expansion raises, the other goes on by itself.

## 5. What is proved

Checked by the TLA+ proof system, for every value of the constants that meets the
named assumptions. Every theorem is about the specification without fairness; the
faults are included. Every safety property that a passing run checks is a theorem.

| Theorems | The argument |
|---|---|
| `TaskQueueType`, `TaskQueueClaimsAreDue`, `TaskQueueExclusiveClaim` | `TypeOK` is not inductive: the quota must stay a number when a claim is answered, so `WaitHoldsSlot` says that an awaited update still holds a slot. `HitsInv`: the searchable copy is an old one, and the same if the number is the same (`SnapIsOld`), so a hit whose number is still that of the task is a pending, due task (`HitsAreFresh`). `OwnInv`: what a worker holds or is claiming is not pending (`Taken`), so no conditional update can give it to another one. |
| `TaskQueueNoOrphan` | The other direction, `OrphanInv`: a task in processing is in the hands, the counted claims or the awaited update of the worker that its row names (`Minds`), or a fault took it. |
| `TaskQueueLimitsRespected` | `CountInv`: the claims of the current pool and its quota add up to at most its limit, and later pools have claimed nothing; an awaited update has its slot, so counting it lowers the quota. |
| `TaskQueueSerialAcrossPools` | `SeenInv`: a claim that was counted can be searched as it is, since its update waited for that, and an update that was applied is one of its hit. `SerialInv`: so the search of busy banks at the start of a pool finds those of the earlier pools, and no hit of a busy bank is tried. |
| `TaskQueueIsLeased` | The queue implements `Leases`. A hit whose number is still that of its task is due (`HitsInv`), so a claim is a `Lease` of an open task; what a worker has is no longer pending (`OwnInv`), so `PutBack` and `End` are of its own; only what was written exists (`WrittenInv`); and what a call has still to try it has not claimed (`ApartInv`), so a fault loses exactly the tasks that it names. `ClaimsAreDue` and `ExclusiveClaim` follow from it, and have theorems of their own. |
| `TaskQueueCallAdvances` | The part of `CallReturns` that is no matter of fairness: each step of a call takes a pool, a tier, a search or a hit off what is left (`StepAdvances`), and the steps of others leave the call alone (`OthersCall`). |
| `GraphQueueType`, `GraphQueueAtMostOnce`, `GraphQueueRefines` | A row that was taken has a sequence number below that of its id (`Gone`), so it is never deleted again. For the refinement: ids are written at most twice per enqueue (`Bounded`, so the rows have names in `NamedRows`), and rows are lost only if faults are allowed (`Faultless`); each step is then one of `Enqueue`, `Take`, `Drop`, `Deliver`, `Lose` or a stutter. |
| `MigrationsType`, `MigrationsExclusiveRun`, `MigrationsFailureBlocks`, `MigrationsAppliedIsTrue` | `Claimed`: while a starter runs a version its document says "applied", so nobody can create or reset it; what was run stays "applied". `Barred`: a version that was read as failed stays failed, is not among the versions read as applied, and the starter never gets past it. |
| `StartupRunsMigrations`, `StartupKeepsMigrations` | `Startup` implements `run_migrations` in which a step may also fail because a request of it is refused (`Refusal`, a failure that the bound on failures does not count). The lemmas above are proved of that (`RunsSpec`), and hold of both. |
| `MigrationsKeepLedger`, `StartupKeepsLedger` | The tracking index implements `Ledger`. A starter that claims a version has got past all earlier ones (`UsedInv`), so versions are begun in their order; what it runs is entered so, and it is alone with it (`RunningIs`, from `Claimed`); a version whose run was lost says "applied" and is never run (`LostInv`). `ExclusiveRun` and `AppliedIsTrue` follow from it, and have theorems of their own. |
| `StartupUpIsMigrated` | `UsedInv`: what was ever claimed has left a trace in the tracking index, also if it was reset, and a starter has got past such versions only. |
| `StartupMoveKeepsDocuments` | `MoveInv`: whoever is between two requests of `reindex_to` is running version 2, so by `ExclusiveRun` alone; and for each of its requests, where the documents are that were written before it. |
| `OperationsType`, `OperationsVerdictIsFinal`, `OperationsMergeKeepsRead`, `OperationsVerdictIsRight` | `Held`: a worker whose handle is still the parent's number holds what it read of it, so its decision only adds to the metadata. `Reported`: nobody but its writer puts a value above that writer's count, so a report never lowers its own key. `Past`: a child that a search shows as finished is as it is now, or gone, because it is written only while its worker is at it (`Unfinished`); a verdict made from such a search stays right (`VerdictsFit`, `DecisionFits`). |
| `OperationsAreJoin`, `WebhooksKeepJoin` | The operations implement `Join`: the update of the parent is its one decision. It is applied only if the parent is still what was read (`Held`), and the children still are as the search showed them, or gone (`VerdictInv`); whoever decides for a failure has seen a child that failed, and that did, or is gone since (`CauseInv`). `VerdictIsFinal` follows from it. |
| `OperationsLastOneDecides` | `LastInv`: a child whose worker is past it has finished (`Marked`), and is found so by searches (`Shown`) before its worker looks at the siblings; so whoever is last sees none in processing (`SomebodyDecides`). `TriesInv`: a try is lost only to a write of the parent since it was read for that try, so whoever gives up has met as many. Numbers that are equal mean copies that are (`SnapIsOld`). |
| `WebhooksRefineOperations` | A step of `Webhooks` is one of `Operations` (where `InsertOutbox` waits for the deliveries) or a stutter, so all of the above holds with webhooks. |
| `WebhooksDispatchHearsAnswers` | `HooksInv`: a webhook that is not searched as it is has a writer that waits for the answer to its last change (`Unanswered`). |
| `WebhooksListsMissOnlyTies` | `DeliveriesInv`: what a worker delivered can be searched once it is past the outbox. `PageInv`: down to the cursor every delivery that is due was shown, or one of its tick. That a page has an oldest delivery is the well-foundedness of the numbers (`LeastNumber`). |
| `DocumentsType`, `DocumentsPurgeTakesAnswered`, `DocumentsEndsExist` | `AnswerInv`: what has returned can be searched as it is (`Answered`, from searchable copies that lag but never lie), so a purge that begins later collects it. `PurgeInv`: after each of the three deletions, what was due and collected is gone (`LinksGo`, `RowsGo`, `UnitsGo`) and is not inserted again. `FoundWhilePurged`: a unit that is gone and can still be searched was taken by a purge that has deleted and not yet refreshed (`DeletedLags`), or has died so. |
| `DocumentsDanglingHadNotReturned` | `TakenInv`: both ends of a link were inserted before it, and a unit that was inserted and is gone was collected by a purge whose due links of that unit are gone too (`GoneWasTaken`). |
| `DocumentsSoloIngestIsWhole` | `SoloInv`: while an ingest runs alone, every unit of its document that is there is its own or in what it collected, and is searched as it is; nobody else writes what belongs to the document (`OtherDocuments`). |
| `EntitiesType` | A row is inserted for a name that has an id (`RowsHaveIds`), and a job has names or pairs among its hits according to its phase. |
| `EntitiesPruneSparesReferenced`, `EntitiesPruneSparesWitnessed` | `IdsInv`: a uuid is born once (`FreshInv`) and for one name (`UniqueInv`), and a writer that is through with resolving finds its entities in a search as they are (`GotInv`). `HeldInv`: a row whose insert has returned is searched until its unit is purged, and so is its entity (`Lasts`). `SparesInv`: after the probe a batch has no entity of such a row (`HitsOk`), and the units that a job has read for a pair include those that witness it (`CacheOk`). |
| `EnrichmentReadsOnly`, `EnrichmentAnswersAreWhole` | Readers change none of the variables of `Entities`, and leave its fairness. `ToldInv`: each search of a reader has what was promised, or in the order of the keys has it still ahead. |
| `RecallRaisesOnlyIfItMust` | What replaces a batch or a statement is only reached when that has failed. |
| `RecallWithinBudget`, `RecallFoundAlongLinks` | `TemporalSteps`: a step of the recall enters the temporal arm, leaves it, is one of it, or does not touch it. `FoundInv`: results are all different and paid for one by one (`Counts`), and every link of a round leaves from a unit that was found with a score above the gate (`Expanded`). |
| `RecallSlicesAreEven` | The entry points are the first of the pool by their place in their slice (`ChosenInv`), so a slice with a unit left has no more than one fewer than any other. A lemma about sets and places, for every pool. |
| `RecallNothingMissed` | `ReachInv`: each of the heaviest links of a unit that is no longer in the frontier leads to something settled, or was asked for and is among the hits to come, unless the round was crowded. The cardinalities of what a source has among the first of a sorted round are lemmas of their own (`BatchCrowds`, `FewMembers`). |
| `RecallStrongestFound` | `GraphStage`, `GraphInv`: what each of the two expansions keeps are the best of what it scored that is still there (`Kept`), also while units are deleted; the merge takes the best of the best activations (`Merged`). |
| `RecallType` | `FoundInv` has most of it; `RestType` has the rest. |
| `LookupsMissNothingThere` | `NearInv`: what the first of the two scans for a fact found has nothing farther than what it left (`NoneCloser`), and so has what is kept of both; equal counts of rows and facts, since no fact is on both sides (`RowsOfFacts`). `ObsInv`: the facts that the seeds reach over an entity that has few are connected (`FewAreInFan`), so an observation overlaps with what was connected at least as much as with them. |
| `LookupsHaveTypes`, `LookupsKeepRecall` | Every errand has its own steps (`StepInv`). What an expansion of observations leaves in the variables of the graph arm has the types of that arm, and a recall among lookups is a behaviour of `Recall`. |
| `ReadsFiltersMean` | The recursive functions of the filters exist, since the depth of a group bounds their recursion (`RecursionExists`), and so are what their definitions say (`GroupQueryIs`, `SaysIs`, `PassingIs`). A leaf is translated into the units that pass it (`LeafMeans`: a superset of equal size is equal), and so is a group, or there were a least deep one that is not (`GroupMeans`); a group in which nothing says anything has no query. |
| `ReadsAreLookups` | Translating changes nothing that a recall or a lookup keeps. With `LookupsKeepRecall`, every theorem of recall and lookups holds of the specification that `Recall_arms` checks. |

**Assumptions.** Sets are disjoint from the values that mean "none", bounds are
numbers, tables are sequences and sets of what they hold. Beyond that:

- `Children # {}`: an operation without children is never decided by one of them.
- `Writers \intersect Jobs = {}`: an ingest and a maintenance job are different
  coroutines.
- `KeyOrder \in [Ids -> Ids]`: the server pages an aggregation by its sorted keys;
  the proof does not need that the order is strict.
- The tables of recall are finite (`IsFiniteSet`, sequences), and the ids of `Facts`
  are numbers, since their order is what `expand_observations` sorts by.
- `GroupsAssumption`: the groups of a request are nested to a finite depth, and tags
  are finitely many, as in anything that arrives as JSON.

Each is evaluated by TLC in the run of its component.

**Along the way.** The induction theorems of the library take operators, which the
provers cannot instantiate. So minima and maxima of sets of numbers come from
well-foundedness (`LeastNumber`, `GreatestNumber`), induction over the nesting of
groups is a least counterexample, and facts about sorted lists come from
`FirstInOrder`, which is stated with quantifiers: links are known by their place in
the table. `ElasticProofs` has the two lemmas about a write that all the others rest
on. A refinement is proved of the mapped state under names of its own (`LeasesAre`,
`LedgerIs`, `JoinIs`), in lemmas that say what one write changes of it (`OnePhase`,
`OneEntry`, `OneStatus`), so that each step is compared with one abstract action.

**Only model-checked**: the liveness properties (`CallReturns`, `NoStarvation` twice,
`StartsEnd`, `OrphansGo`, `StalePairsGo`), since the prover knows neither fairness
nor ENABLED. For the calls of `claim_tasks`, `CallAdvances` proves what remains once
their steps are taken.

## 6. Abstractions, and what is not modelled

- Sequence numbers are counters per id; the code compares them for equality only.
  In `Documents` the search and the deletes of a `delete_by_query` are one step, and
  the refresh at its end, with the answer, is another; in `GraphQueue`, where deletes race with claims, it is a search and one
  delete after the other.
- Scores, weights and similarities are thousandths. Similarity to the query is a
  rank, and dates are small numbers. Which units pass a filter is a constant of the
  arms, and computed from tags and times in `TagFilters`.
- `enqueued_at` of the maintenance queue is the clock of the process that enqueues,
  taken before its bulk request (`ops_elasticsearch.py:542`); `GraphQueue` orders rows
  in the order in which they are applied. That no row starves is therefore only as
  true as the clocks are; that none is handed out twice does not depend on them.
- A start that meets another error than a 409 (`migrations_elasticsearch.py:262`, or
  of a GET or a search) raises and leaves what it has done: the same as a process
  that dies there, which is modelled (`Crash`, `Die`).
- A member of `tag_groups` of a shape that is not recognized is left out of the
  query (`retrieval_elasticsearch.py:175`, `188-189`, there with a warning);
  `TagFilters` has leaves, `and`, `or` and `not` only.
- The loop that decides a parent belongs to the engine, and so does its bound: what
  is known of both is the comment at `elasticsearch_engine_ops.py:422-429`.
- Recall is modelled for one fact type. Several fact types run the same arms over
  disjoint units with budgets of their own.
- On PostgreSQL and Oracle a statement is one action that succeeds or raises; what
  it selects is what its clauses say. The dialects that write the clauses, and the
  graph retriever of these backends, are not in the sources.
- `Startup` knows a baseline, whose step creates each missing index, and one breaking
  change, which moves one index with `reindex_to`; the sources hold the baseline
  only, and the function for the others.
- Decisions of the engine (retry, cancel, whom to link to, how children decide a
  parent) are outside the sources; they are actions marked `external:` with every
  choice the code's interface allows.
- Not modelled: `list_webhooks_for_bank`, `put_mapping`, `current_version`, the tag
  lists, the other counts of `compute_bank_stats` and the hydrations by id (single
  requests that change nothing, or only a mapping); chunks (one bulk of idempotent
  upserts, which nothing here removes); `bulk_insert_from_arrays` as a function of
  its columns; the inert SQL dialect and the alembic dispatch, which raise or return
  empty fragments; mappings, which are data. `PROJECT.json` gives each reason.

## 7. The plan

Built so far, in order of importance: index semantics; task queue; maintenance
queue; migrations and the start of a process; operations and webhooks, these four
each with the abstract specification it implements; documents; entities and the
readers of them; recall on three backends, its filters, and the searches beside
it. Their safety is proved.

Left to model: a purge item by item in `Documents`, with its rows of the
maintenance queue and a job beside it; two fact types in one recall.

Next, to prove: that a purge item by item still takes what was answered, once it is
modelled; a measure for the rounds of a recall and for the starts, as `CallAdvances`
is one for the claims; and an abstract specification of `Documents`, in which a
purge is one step.
