------------------------------ MODULE TaskQueue ------------------------------
(***************************************************************************)
(* The task queue on the async_operations index: claim_tasks, run by       *)
(* several workers, against the operations that insert, finish, cancel and *)
(* delete tasks.                                                           *)
(*                                                                         *)
(* claim_tasks is a coroutine of every worker.  It is cut where it awaits  *)
(* the server, so any other worker may act between two requests:           *)
(*                                                                         *)
(*   idle -> pool -> busy -> pass -> search -> try -> wait -> try ...      *)
(*                                                                         *)
(* pool is the head of the loop over the reserved pools, with the shared   *)
(* pool last; pass the loop over the priority tiers of one pool; search    *)
(* and try the two loops of _claim_matching; wait the refresh=wait_for of  *)
(* one conditional update.  A task is a number, its rank in the search     *)
(* order (created_at, _id).                                                *)
(***************************************************************************)
EXTENDS Elastic, FiniteSets, Sequences

CONSTANTS
  Workers, Tasks, Banks, Types,
  NoWorker,
  Consolidation,     \* the operation type serialized by bank
  TaskType,          \* TaskType[t]: operation_type of t
  TaskBank,          \* TaskBank[t]: bank_id of t
  Runnable,          \* the tasks that have a task_payload
  PoolChoices,       \* the (reserved_limits, shared_limit) a caller may pass
  Priority,          \* consolidation_bank_priority, without its '*' entry
  CatchAllPriority,  \* the priority of '*', 1 when there is no such entry
  Covers,            \* Covers[p]: the banks the wildcard pattern p matches
  MaxAttempts,       \* searches of one _claim_matching; 5 in the code
  MaxRetries,        \* bound: how often a task is put back
  Meddled,           \* bound: the tasks users cancel or delete
  FaultKinds,        \* the faults considered: some of "timeout", "error", "crash"
  MaxFaults          \* bound: how many of them

Statuses == {"pending", "processing", "completed", "cancelled"}
TaskDocs == [status : Statuses, worker : Workers \union {NoWorker}, retry : Nat]
Hits     == [id : Tasks, seq : Nat]
Pool     == [types : SUBSET Types, limit : Nat]
Passes   == [rank : Nat, banks : SUBSET Banks]

ASSUME TaskAssumption ==
  /\ Tasks \subseteq Nat /\ Runnable \subseteq Tasks
  /\ TaskType \in [Tasks -> Types]
  /\ TaskBank \in [Tasks -> Banks]
  /\ Consolidation \in Types /\ Types # {Consolidation}
  /\ NoWorker \notin Workers
  /\ Missing \notin TaskDocs

ASSUME CallAssumption ==
  /\ PoolChoices \subseteq Seq(Pool)
  /\ Priority \in [DOMAIN Priority -> Nat]
  /\ CatchAllPriority \in Nat
  /\ Covers \in [DOMAIN Priority -> SUBSET Banks]
  /\ MaxAttempts \in Nat

VARIABLES
  live,     \* async_operations as GET and writes see it
  snap,     \* async_operations as _search sees it
  ripe,     \* ripe[t] = k: the next_retry_at of the k-th retry has passed
  pc,       \* where each worker is in claim_tasks
  frame,    \* the loop variables of its call
  hits,     \* the hits it has still to try, with their sequence numbers
  claimed,  \* the tasks its call has claimed, with the pool that did
  held,     \* the tasks its returned calls gave it, which it is executing
  faults    \* how many faults happened, and the tasks that were lost to them

vars == <<live, snap, ripe, pc, frame, hits, claimed, held, faults>>
callVars == <<pc, frame, hits, claimed, held>>

-----------------------------------------------------------------------------
(* Tasks *)

NewTask == [status |-> "pending", worker |-> NoWorker, retry |-> 0]

HasStatus(index, t, status) ==
  Exists(index, t) /\ index[t].doc.status = status

WithStatus(index, t, status) ==
  Put(index, t, [index[t].doc EXCEPT !.status = status])

\* mutant: the update forgets the status
ClaimedByName(index, t, w) ==
  Put(index, t, [index[t].doc EXCEPT !.worker = w])

ClaimedBy(index, t, w) ==
  Put(index, t, [index[t].doc EXCEPT !.status = "processing", !.worker = w])

-----------------------------------------------------------------------------
(* The local functions of claim_tasks *)

\* mutant: claimed = rows, where it should be claimed.extend(rows)
IdsOfLastPool(w) == {c.task : c \in {d \in claimed[w] : d.pool = frame[w].pool}}

ClaimedIds(w) == {c.task : c \in claimed[w]}

\* mutant: a bank with a task that waits counts as busy
ActiveStatuses == {"pending", "processing"}

BusyStatuses == {"processing"}

BusyBanks(index) ==
  {TaskBank[t] : t \in {u \in Tasks : /\ TaskType[u] = Consolidation /\ Exists(index, u)
                                       /\ index[u].doc.status \in BusyStatuses}}

\* mutant: no filter on next_retry_at
RetryAnyTime(t, now) == TRUE

\* retry_ok: next_retry_at is not after the time the call started
RetryOk(t, now) == snap[t].doc.retry <= now[t]

Candidates(w) ==
  LET f == frame[w] IN
  {t \in Runnable :
     /\ HasStatus(snap, t, "pending")
     /\ RetryOk(t, f.now)
     /\ TaskType[t] \in f.pools[f.pool].types
     /\ TaskType[t] = Consolidation => TaskBank[t] \in f.banks \ f.busy
     /\ t \notin ClaimedIds(w)}

Oldest(n, tasks) ==
  {t \in tasks : Cardinality({u \in tasks : u < t}) < n}

HasRoom(w) == frame[w].quota > 0

\* mutant: the update is not conditional
IsThere(hit) == Exists(live, hit.id)

\* the server applies an update with the hit's if_seq_no
MayClaim(hit) == Unchanged(live, hit)

\* mutant: refresh=False
AtOnce(hit) == TRUE

\* refresh=wait_for: the update made from the hit can be searched
IsRefreshed(hit) == Searchable(snap, hit.id, hit.seq + 1)

\* mutant: the rows of a pool are not counted
NoteProgress(f) == [f EXCEPT !.progressed = TRUE]

\* got.append(row)
CountRow(f) == [f EXCEPT !.quota = @ - 1, !.progressed = TRUE]

\* the hit to try next, in the order of the search
IsFirst(hit, w) == hit \in hits[w] /\ \A h \in hits[w] : hit.id <= h.id

\* the tiers of _claim_consolidation: by priority, specific patterns before
\* the catch-all; with no pattern, the catch-all alone
Tiers ==
  LET Patterns      == DOMAIN Priority
      Matching(P)   == UNION {Covers[p] : p \in P}
      SamePriority(p) == {q \in Patterns : Priority[q] = Priority[p]}
  IN  {[rank |-> 2 * Priority[p] + 1, banks |-> Matching(SamePriority(p))]
         : p \in Patterns}
      \union {[rank |-> 2 * CatchAllPriority, banks |-> Banks \ Matching(Patterns)]}

PassesOf(pool) ==
  IF pool.types = {Consolidation} THEN Tiers
                                  ELSE {[rank |-> 0, banks |-> Banks]}

\* a call that starts, with the pools it was given
NewFrame(pools, now) ==
  [pools |-> pools, pool |-> 0, quota |-> 0, passes |-> {}, banks |-> {},
   busy |-> {}, attempts |-> 0, progressed |-> FALSE, now |-> now]

IdleFrame == NewFrame(<<>>, [t \in Tasks |-> 0])

-----------------------------------------------------------------------------
Init ==
  /\ live = EmptyIndex(Tasks)
  /\ snap = live
  /\ ripe = [t \in Tasks |-> 0]
  /\ pc = [w \in Workers |-> "idle"]
  /\ frame = [w \in Workers |-> IdleFrame]
  /\ hits = [w \in Workers |-> {}]
  /\ claimed = [w \in Workers |-> {}]
  /\ held = [w \in Workers |-> {}]
  /\ faults = [count |-> 0, lost |-> {}]

-----------------------------------------------------------------------------
(* The call, up to the search of a pool *)

StartClaim(w, pools) ==
  /\ pc[w] = "idle"
  /\ pc' = [pc EXCEPT ![w] = "pool"]
  /\ frame' = [frame EXCEPT ![w] = NewFrame(pools, ripe)]
  /\ UNCHANGED <<live, snap, ripe, hits, claimed, held, faults>>

\* A pool with a limit of 0 is skipped; the pools that may claim a
\* consolidation look up the busy banks first.
NextPool(w) ==
  LET f    == frame[w]
      pool == f.pools[f.pool + 1]
  IN
  /\ pc[w] = "pool" /\ f.pool < Len(f.pools)
  /\ pc' = [pc EXCEPT ![w] = IF pool.limit = 0 THEN "pool"
                              ELSE IF Consolidation \in pool.types THEN "busy"
                              ELSE "pass"]
  /\ frame' = [frame EXCEPT ![w].pool = f.pool + 1,
                            ![w].quota = pool.limit,
                            ![w].busy = {},
                            ![w].passes = PassesOf(pool)]
  /\ UNCHANGED <<live, snap, ripe, hits, claimed, held, faults>>

ReadBusyBanks(w) ==
  /\ pc[w] = "busy"
  /\ pc' = [pc EXCEPT ![w] = "pass"]
  /\ frame' = [frame EXCEPT ![w].busy = BusyBanks(snap)]
  /\ UNCHANGED <<live, snap, ripe, hits, claimed, held, faults>>

\* mutant: a tier that is not taken off the list
NextPassAgain(w) ==
  /\ pc[w] = "pass" /\ frame[w].quota > 0
  /\ \E pass \in frame[w].passes :
       /\ \A other \in frame[w].passes : other.rank <= pass.rank
       /\ frame' = [frame EXCEPT ![w].banks = pass.banks, ![w].attempts = 0]
  /\ pc' = [pc EXCEPT ![w] = "search"]
  /\ UNCHANGED <<live, snap, ripe, hits, claimed, held, faults>>

NextPass(w) ==
  LET f == frame[w] IN
  /\ pc[w] = "pass" /\ f.quota > 0
  /\ \E pass \in f.passes :
       /\ \A other \in f.passes : other.rank <= pass.rank
       /\ frame' = [frame EXCEPT ![w].passes = @ \ {pass},
                                 ![w].banks = pass.banks,
                                 ![w].attempts = 0]
  /\ pc' = [pc EXCEPT ![w] = "search"]
  /\ UNCHANGED <<live, snap, ripe, hits, claimed, held, faults>>

\* mutant: a loop that only ends when the limit is reached
EndFullPool(w) ==
  /\ pc[w] = "pass" /\ frame[w].quota = 0
  /\ pc' = [pc EXCEPT ![w] = "pool"]
  /\ UNCHANGED <<live, snap, ripe, frame, hits, claimed, held, faults>>

EndPool(w) ==
  /\ pc[w] = "pass" /\ (frame[w].quota = 0 \/ frame[w].passes = {})
  /\ pc' = [pc EXCEPT ![w] = "pool"]
  /\ UNCHANGED <<live, snap, ripe, frame, hits, claimed, held, faults>>

\* The caller gets the rows and starts to execute them.
ReturnClaimed(w) ==
  /\ pc[w] = "pool" /\ frame[w].pool = Len(frame[w].pools)
  /\ pc' = [pc EXCEPT ![w] = "idle"]
  /\ held' = [held EXCEPT ![w] = @ \union ClaimedIds(w)]
  /\ claimed' = [claimed EXCEPT ![w] = {}]
  /\ frame' = [frame EXCEPT ![w] = IdleFrame]
  /\ UNCHANGED <<live, snap, ripe, hits, faults>>

-----------------------------------------------------------------------------
(* _claim_matching *)

SearchCandidates(w) ==
  LET f     == frame[w]
      found == Oldest(2 * f.quota, Candidates(w))
  IN
  /\ pc[w] = "search" /\ f.quota > 0 /\ f.attempts < MaxAttempts
  /\ hits' = [hits EXCEPT ![w] = {[id |-> t, seq |-> snap[t].seq] : t \in found}]
  /\ frame' = [frame EXCEPT ![w].attempts = @ + 1, ![w].progressed = FALSE]
  /\ pc' = [pc EXCEPT ![w] = IF found = {} THEN "pass" ELSE "try"]
  /\ UNCHANGED <<live, snap, ripe, claimed, held, faults>>

EndSearch(w) ==
  /\ pc[w] = "search" /\ (frame[w].quota = 0 \/ frame[w].attempts = MaxAttempts)
  /\ pc' = [pc EXCEPT ![w] = "pass"]
  /\ UNCHANGED <<live, snap, ripe, frame, hits, claimed, held, faults>>

\* the conditional update of the next hit succeeds, and now waits for the
\* refresh
ClaimWins(w) ==
  /\ pc[w] = "try" /\ HasRoom(w)
  /\ \E hit \in hits[w] :
       /\ IsFirst(hit, w)
       /\ MayClaim(hit)
       /\ live' = ClaimedBy(live, hit.id, w)
  /\ pc' = [pc EXCEPT ![w] = "wait"]
  /\ UNCHANGED <<snap, ripe, frame, hits, claimed, held, faults>>

\* ... or answers 409 (written since) or 404 (deleted): the hit is skipped
ClaimLoses(w) ==
  /\ pc[w] = "try" /\ HasRoom(w)
  /\ \E hit \in hits[w] :
       /\ IsFirst(hit, w)
       /\ ~MayClaim(hit)
       /\ hits' = [hits EXCEPT ![w] = @ \ {hit}]
  /\ UNCHANGED <<live, snap, ripe, pc, frame, claimed, held, faults>>

ClaimAnswered(w) ==
  /\ pc[w] = "wait"
  /\ \E hit \in hits[w] :
       /\ IsFirst(hit, w)
       /\ IsRefreshed(hit)
       /\ hits' = [hits EXCEPT ![w] = @ \ {hit}]
       /\ claimed' = [claimed EXCEPT ![w] =
                        @ \union {[task |-> hit.id, pool |-> frame[w].pool]}]
  /\ frame' = [frame EXCEPT ![w] = CountRow(@)]
  /\ pc' = [pc EXCEPT ![w] = "try"]
  /\ UNCHANGED <<live, snap, ripe, held, faults>>

EndHits(w) ==
  /\ pc[w] = "try" /\ (~HasRoom(w) \/ hits[w] = {})
  /\ hits' = [hits EXCEPT ![w] = {}]
  /\ pc' = [pc EXCEPT ![w] = IF frame[w].progressed THEN "search" ELSE "pass"]
  /\ UNCHANGED <<live, snap, ripe, frame, claimed, held, faults>>

-----------------------------------------------------------------------------
(* What goes wrong in a call *)

\* the update of w that was applied and not answered yet
InFlight(w) == {hit.id : hit \in {h \in hits[w] : pc[w] = "wait" /\ IsFirst(h, w)}}

\* a fault, and the tasks that nobody has in hand after it
Fails(kind, tasks) ==
  /\ kind \in FaultKinds /\ faults.count < MaxFaults
  /\ faults' = [count |-> faults.count + 1, lost |-> faults.lost \union tasks]

\* The answer of an applied update is late: the client (retry_on_timeout)
\* sends the update again, which now answers 409, and the hit is skipped.
AnswerTimesOut(w) ==
  /\ pc[w] = "wait"
  /\ Fails("timeout", InFlight(w))
  /\ \E hit \in hits[w] :
       /\ IsFirst(hit, w)
       /\ hits' = [hits EXCEPT ![w] = @ \ {hit}]
  /\ pc' = [pc EXCEPT ![w] = "try"]
  /\ UNCHANGED <<live, snap, ripe, frame, claimed, held>>

AbandonCall(w) ==
  /\ pc' = [pc EXCEPT ![w] = "idle"]
  /\ frame' = [frame EXCEPT ![w] = IdleFrame]
  /\ hits' = [hits EXCEPT ![w] = {}]
  /\ claimed' = [claimed EXCEPT ![w] = {}]

\* Any other status of a request is raised out of claim_tasks: the rows it
\* has claimed so far are returned to nobody.
CallRaises(w) ==
  /\ pc[w] \in {"busy", "search", "try", "wait"}
  /\ Fails("error", ClaimedIds(w) \union InFlight(w))
  /\ AbandonCall(w)
  /\ UNCHANGED <<live, snap, ripe, held>>

\* The worker process dies; nothing in the backend takes its tasks back.
Crash(w) ==
  /\ pc[w] # "idle" \/ held[w] # {}
  /\ Fails("crash", ClaimedIds(w) \union InFlight(w) \union held[w])
  /\ AbandonCall(w)
  /\ held' = [held EXCEPT ![w] = {}]
  /\ UNCHANGED <<live, snap, ripe>>

-----------------------------------------------------------------------------
(* The rest of a task's life *)

\* insert_webhook_delivery_task, and the bulk inserts of other operations
InsertTask(t) ==
  /\ ~Used(live, t)
  /\ live' = Put(live, t, NewTask)
  /\ UNCHANGED <<snap, ripe, callVars, faults>>

\* mark_operation_completed: unconditional, and nothing when the row is gone
CompleteTask(w, t) ==
  /\ t \in held[w]
  /\ live' = IF Exists(live, t) THEN WithStatus(live, t, "completed") ELSE live
  /\ held' = [held EXCEPT ![w] = @ \ {t}]
  /\ UNCHANGED <<snap, ripe, pc, frame, hits, claimed, faults>>

DeleteOperation(t) ==
  /\ t \in Meddled /\ Exists(live, t)
  /\ live' = Put(live, t, Missing)
  /\ UNCHANGED <<snap, ripe, callVars, faults>>

\* external: the worker gives a failed task back, with a later next_retry_at
RetryLater(w, t) ==
  /\ t \in held[w] /\ HasStatus(live, t, "processing")
  /\ live[t].doc.retry < MaxRetries
  /\ live' = Put(live, t, [status |-> "pending", worker |-> NoWorker,
                           retry |-> live[t].doc.retry + 1])
  /\ held' = [held EXCEPT ![w] = @ \ {t}]
  /\ UNCHANGED <<snap, ripe, pc, frame, hits, claimed, faults>>

\* external: the time of the task's next_retry_at comes
RetryRipens(t) ==
  /\ Exists(live, t) /\ ripe[t] < live[t].doc.retry
  /\ ripe' = [ripe EXCEPT ![t] = live[t].doc.retry]
  /\ UNCHANGED <<live, snap, callVars, faults>>

\* external: the user cancels an operation
CancelOperation(t) ==
  /\ t \in Meddled
  /\ HasStatus(live, t, "pending") \/ HasStatus(live, t, "processing")
  /\ live' = WithStatus(live, t, "cancelled")
  /\ UNCHANGED <<snap, ripe, callVars, faults>>

\* external: Elasticsearch refreshes the index
Refresh ==
  /\ snap # live
  /\ snap' = live
  /\ UNCHANGED <<live, ripe, callVars, faults>>

-----------------------------------------------------------------------------
CallStep(w) ==
  \/ NextPool(w) \/ ReadBusyBanks(w) \/ NextPass(w) \/ EndPool(w)
  \/ SearchCandidates(w) \/ EndSearch(w)
  \/ ClaimWins(w) \/ ClaimLoses(w) \/ ClaimAnswered(w) \/ EndHits(w)
  \/ ReturnClaimed(w)

Fault(w) == AnswerTimesOut(w) \/ CallRaises(w) \/ Crash(w)

TaskStep(t) ==
  \/ InsertTask(t) \/ DeleteOperation(t) \/ CancelOperation(t) \/ RetryRipens(t)

Next ==
  \/ \E w \in Workers : CallStep(w) \/ Fault(w)
  \/ \E w \in Workers, pools \in PoolChoices : StartClaim(w, pools)
  \/ \E w \in Workers, t \in Tasks : CompleteTask(w, t) \/ RetryLater(w, t)
  \/ \E t \in Tasks : TaskStep(t)
  \/ Refresh

Spec == Init /\ [][Next]_vars

\* The event loop runs every coroutine that can go on, the server refreshes
\* its indexes, the worker polls, and finishes what it started.
Fairness ==
  /\ \A w \in Workers :
       /\ WF_vars(CallStep(w))
       /\ WF_vars(\E pools \in PoolChoices : StartClaim(w, pools))
       /\ \A t \in Tasks : WF_vars(CompleteTask(w, t))
  /\ \A t \in Tasks : WF_vars(RetryRipens(t))
  /\ WF_vars(Refresh)

FairSpec == Spec /\ Fairness

-----------------------------------------------------------------------------
(* Properties *)

Phases == {"idle", "pool", "busy", "pass", "search", "try", "wait"}

Frame ==
  [pools : Seq(Pool), pool : Nat, quota : Nat, passes : SUBSET Passes,
   banks : SUBSET Banks, busy : SUBSET Banks, attempts : Nat,
   progressed : BOOLEAN, now : [Tasks -> Nat]]

\* The type invariant.
TypeOK ==
  /\ live \in [Tasks -> Copies(TaskDocs)]
  /\ snap \in [Tasks -> Copies(TaskDocs)]
  /\ ripe \in [Tasks -> Nat]
  /\ pc \in [Workers -> Phases]
  /\ frame \in [Workers -> Frame]
  /\ hits \in [Workers -> SUBSET Hits]
  /\ claimed \in [Workers -> SUBSET [task : Tasks, pool : Nat]]
  /\ held \in [Workers -> SUBSET Tasks]
  /\ faults \in [count : Nat, lost : SUBSET Tasks]

\* the tasks a worker believes are its own
Owned(w) == ClaimedIds(w) \union held[w]

\* SKIP LOCKED: a task is never handed to two workers, whatever they read
\* before they wrote, and whatever fails, times out or dies.
ExclusiveClaim ==
  \A v, w \in Workers :
    v # w => (Owned(v) \union InFlight(v)) \cap (Owned(w) \union InFlight(w)) = {}

\* The filters of the search hold when the update is applied, not only when
\* the (older) searchable copy was read: a task that starts to be processed
\* was pending, and its next_retry_at had passed.
ClaimsAreDue ==
  [][\A t \in Tasks :
       HasStatus(live', t, "processing") /\ live'[t] # live[t] =>
         /\ HasStatus(live, t, "pending")
         /\ live[t].doc.retry <= ripe[t]
         /\ t \in Runnable]_vars

\* A call never claims more in one pool than that pool's limit, over all the
\* passes, over-fetching searches and retries it makes for it.
LimitsRespected ==
  \A w \in Workers : \A i \in 1..Len(frame[w].pools) :
    Cardinality({c \in claimed[w] : c.pool = i}) <= frame[w].pools[i].limit

\* Every task in processing is known to the worker that its row names, which
\* will finish it: no claim is applied and then forgotten, but for the one whose
\* answer timed out and those in the hands of a call that raised or a worker
\* that died.  (Nothing in the backend takes these back.)
NoOrphan ==
  \A t \in Tasks : HasStatus(live, t, "processing") =>
    \/ t \in Owned(live[t].doc.worker) \union InFlight(live[t].doc.worker)
    \/ t \in faults.lost

\* "Consolidation tasks are bank-serialized": no two consolidations of a bank
\* are in processing together.
BankSerialized ==
  \A t, u \in Tasks :
    /\ TaskType[t] = Consolidation /\ TaskType[u] = Consolidation
    /\ TaskBank[t] = TaskBank[u]
    /\ HasStatus(live, t, "processing") /\ HasStatus(live, u, "processing")
    => t = u

\* ... and across the pools of one call, they never are: the claims of a pool
\* can be searched when the next pool looks up the busy banks.
SerialAcrossPools ==
  \A w \in Workers : \A c, d \in claimed[w] :
    /\ TaskType[c.task] = Consolidation /\ TaskType[d.task] = Consolidation
    /\ TaskBank[c.task] = TaskBank[d.task]
    /\ HasStatus(live, c.task, "processing") /\ HasStatus(live, d.task, "processing")
    => c.pool = d.pool

Enters(w, phase) == pc[w] # phase /\ pc'[w] = phase
Within(w, phases) == {pc[w], pc'[w]} \subseteq phases
Shrinks(old, new) == new \subseteq old /\ new # old

\* w is further in its call than it was: in the pools, or in the tiers of the
\* same pool, or in the searches of the same tier, or in the hits of the same
\* search
Advances(w) ==
  LET f == frame[w]
      g == frame'[w]
  IN
  \/ Enters(w, "idle")
  \/ g.pool \in f.pool + 1 .. Len(f.pools) /\ g.pools = f.pools
  \/ /\ g.pool = f.pool /\ g.pools = f.pools
     /\ \/ Enters(w, "pool")
        \/ pc[w] = "busy" /\ Enters(w, "pass")
        \/ /\ Within(w, {"pass", "search", "try", "wait"})
           /\ \/ Shrinks(f.passes, g.passes)
              \/ /\ g.passes = f.passes
                 /\ \/ Enters(w, "pass")
                    \/ /\ Within(w, {"search", "try", "wait"})
                       /\ \/ g.attempts \in f.attempts + 1 .. MaxAttempts
                          \/ /\ g.attempts = f.attempts
                             /\ \/ Enters(w, "search")
                                \/ /\ Within(w, {"try", "wait"})
                                   /\ \/ Shrinks(hits[w], hits'[w])
                                      \/ hits'[w] = hits[w] /\ Enters(w, "wait")

\* No loop of a call runs in place, and nobody else sets it back, whatever the
\* races it loses and the searches that find the same tasks again: so it is
\* through after a number of steps that its arguments bound.
CallAdvances ==
  [][\A w \in Workers :
       pc[w] # "idle" => UNCHANGED <<pc[w], frame[w], hits[w], claimed[w]>> \/ Advances(w)]_vars

\* A call of claim_tasks comes to its end, whatever the other workers do.
CallReturns == \A w \in Workers : pc[w] # "idle" ~> pc[w] = "idle"

\* a consolidation of t's bank was lost in processing: the bank is busy for ever
BankIsStuck(t) ==
  /\ TaskType[t] = Consolidation
  /\ \E u \in faults.lost : /\ TaskType[u] = Consolidation /\ TaskBank[u] = TaskBank[t]
                            /\ HasStatus(live, u, "processing")

\* A task that can run does not stay pending for ever, whatever its age, type
\* and bank, and however often the workers lose races; a fault stops none but
\* the consolidations of a bank whose consolidation was lost.
NoStarvation ==
  \A t \in Runnable :
    HasStatus(live, t, "pending") ~> ~HasStatus(live, t, "pending") \/ BankIsStuck(t)
-----------------------------------------------------------------------------
(* The abstract queue: a task is leased to the worker whose update of it was  *)
(* applied.                                                                   *)

Phase(t) ==
  IF ~Used(live, t) THEN "unknown"
  ELSE IF HasStatus(live, t, "processing") THEN "leased"
  ELSE IF ~HasStatus(live, t, "pending") THEN "ended"
  ELSE IF t \in Runnable /\ live[t].doc.retry <= ripe[t] THEN "open" ELSE "later"

L == INSTANCE Leases WITH
       phase <- [t \in Tasks |-> Phase(t)],
       leases <- [w \in Workers |-> Owned(w) \union InFlight(w)],
       lost <- faults.lost,
       Lossy <- FaultKinds # {}

\* The queue leases its tasks as Leases says.
IsLeased == L!Spec
=============================================================================
