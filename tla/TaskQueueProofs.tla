--------------------------- MODULE TaskQueueProofs ---------------------------
(***************************************************************************)
(* TaskQueue for every number of workers, tasks, banks, pools and faults.  *)
(*                                                                         *)
(* A hit whose number is still that of its task is a pending, due task     *)
(* (HitsInv), and what a worker holds or is claiming is not pending        *)
(* (OwnInv), so a conditional update cannot give it to another one. The    *)
(* other way round, a task in processing is known to the worker that its   *)
(* row names, or was lost to a fault (OrphanInv). The claims of a pool and *)
(* the quota that is left are never more than its limit (CountInv). And    *)
(* what was claimed can be searched (SeenInv) before the next pool of the  *)
(* call looks up the busy banks (SerialInv).                               *)
(***************************************************************************)
EXTENDS TaskQueue, ElasticProofs, FiniteSetTheorems

\* quota counts the slots of the pool that are left: an update that is
\* awaited still holds one
WaitHoldsSlot == \A w \in Workers : pc[w] = "wait" => frame[w].quota > 0

TypeInv == TypeOK /\ WaitHoldsSlot

\* The passes over a pool are well formed, whatever the priorities.
LEMMA PassesOfType == ASSUME NEW pool PROVE PassesOf(pool) \subseteq Passes
<1>1. \A P \in SUBSET DOMAIN Priority : UNION {Covers[p] : p \in P} \subseteq Banks
  BY CallAssumption
<1>2. Tiers \subseteq Passes
  BY <1>1, CallAssumption DEF Tiers, Passes
<1> QED BY <1>2 DEF PassesOf, Passes

LEMMA NewFrameType ==
  ASSUME NEW pools \in Seq(Pool), NEW now \in [Tasks -> Nat]
  PROVE  NewFrame(pools, now) \in Frame
BY DEF NewFrame, Frame

LEMMA IdleFrameType == IdleFrame \in Frame
<1>1. <<>> \in Seq(Pool) /\ [t \in Tasks |-> 0] \in [Tasks -> Nat]
  OBVIOUS
<1> QED BY <1>1, NewFrameType DEF IdleFrame

\* The counters of _claim_matching are set to numbers and flags.
LEMMA FrameCounts ==
  ASSUME NEW f \in Frame, NEW n \in Nat, NEW flag \in BOOLEAN
  PROVE  /\ [f EXCEPT !.attempts = n, !.progressed = flag] \in Frame
         /\ [f EXCEPT !.quota = n, !.progressed = flag] \in Frame
         /\ f.attempts + 1 \in Nat
<1>1. [f EXCEPT !.attempts = n, !.progressed = flag] \in Frame
  <2>1. CASE flag = TRUE
    BY <2>1 DEF Frame
  <2>2. CASE flag = FALSE
    BY <2>2 DEF Frame
  <2> QED BY <2>1, <2>2
<1>2. [f EXCEPT !.quota = n, !.progressed = flag] \in Frame
  BY Zenon DEF Frame
<1>3. f.attempts + 1 \in Nat
  BY DEF Frame
<1> QED BY <1>1, <1>2, <1>3

\* The steps of a call that only move its loops keep the types.
LEMMA LoopStepType ==
  ASSUME TypeInv, NEW w \in Workers,
         \/ NextPool(w) \/ ReadBusyBanks(w) \/ NextPass(w) \/ EndPool(w)
         \/ EndSearch(w) \/ EndHits(w)
  PROVE  TypeInv'
<1> USE DEF TypeInv, TypeOK, WaitHoldsSlot, Phases
<1>a. frame[w] \in Frame
  OBVIOUS
<1>1. CASE NextPool(w)
  <2> DEFINE f == frame[w] pool == f.pools[f.pool + 1]
  <2>1. f.pools \in Seq(Pool) /\ f.pool + 1 \in 1..Len(f.pools)
    BY <1>a, <1>1 DEF NextPool, Frame
  <2>2. pool \in Pool
    BY <2>1
  <2>3. PassesOf(pool) \subseteq Passes
    BY PassesOfType
  <2>4. pool.limit \in Nat /\ f.pool + 1 \in Nat
    BY <1>a, <2>2 DEF Pool, Frame
  <2>5. frame' = [frame EXCEPT ![w] = [f EXCEPT !.pool = f.pool + 1, !.quota = pool.limit,
                                                !.busy = {}, !.passes = PassesOf(pool)]]
    BY <1>1 DEF NextPool
  <2> HIDE DEF pool
  <2>6. frame' \in [Workers -> Frame]
    BY <1>a, <2>3, <2>4, <2>5 DEF Frame
  <2> QED BY <1>1, <2>6 DEF NextPool
<1>2. CASE ReadBusyBanks(w)
  <2>1. BusyBanks(snap) \subseteq Banks
    BY TaskAssumption DEF BusyBanks
  <2>2. frame' \in [Workers -> Frame]
    BY <1>a, <1>2, <2>1 DEF ReadBusyBanks, Frame
  <2> QED BY <1>2, <2>2 DEF ReadBusyBanks
<1>3. CASE NextPass(w)
  <2>0. PICK pass \in frame[w].passes :
          frame' = [frame EXCEPT ![w].passes = @ \ {pass}, ![w].banks = pass.banks,
                                 ![w].attempts = 0]
    BY <1>3 DEF NextPass
  <2>1. pass.banks \subseteq Banks /\ frame[w].passes \ {pass} \subseteq Passes
    BY <1>a DEF Frame, Passes
  <2>2. frame' \in [Workers -> Frame]
    BY <1>a, <2>0, <2>1 DEF Frame
  <2> QED BY <1>3, <2>2 DEF NextPass
<1>4. CASE EndPool(w)
  BY <1>4 DEF EndPool
<1>5. CASE EndSearch(w)
  BY <1>5 DEF EndSearch
<1>6. CASE EndHits(w)
  BY <1>6 DEF EndHits
<1> QED BY <1>1, <1>2, <1>3, <1>4, <1>5, <1>6

\* So do the search, the conditional updates and their answers.
LEMMA ClaimStepType ==
  ASSUME TypeInv, NEW w \in Workers,
         SearchCandidates(w) \/ ClaimWins(w) \/ ClaimLoses(w) \/ ClaimAnswered(w)
  PROVE  TypeInv'
<1> USE DEF TypeInv, TypeOK, WaitHoldsSlot, Phases
<1>a. frame[w] \in Frame
  OBVIOUS
<1>b. \A hit \in hits[w] : hit.id \in Tasks /\ hit.seq \in Nat
  BY DEF Hits
<1>1. CASE SearchCandidates(w)
  <2> DEFINE found == Oldest(2 * frame[w].quota, Candidates(w))
  <2>1. found \subseteq Candidates(w)
    BY DEF Oldest
  <2>2. Candidates(w) \subseteq Tasks
    BY TaskAssumption DEF Candidates
  <2>3. \A t \in Tasks : [id |-> t, seq |-> snap[t].seq] \in Hits
    BY DEF Hits, Copies
  <2> HIDE DEF found
  <2>4. {[id |-> t, seq |-> snap[t].seq] : t \in found} \subseteq Hits
    BY <2>1, <2>2, <2>3
  <2>5. /\ hits' = [hits EXCEPT ![w] = {[id |-> t, seq |-> snap[t].seq] : t \in found}]
        /\ pc' \in [Workers -> Phases] /\ pc'[w] # "wait"
        /\ \A v \in Workers : v # w => pc'[v] = pc[v]
        /\ frame' = [frame EXCEPT ![w].attempts = @ + 1, ![w].progressed = FALSE]
        /\ UNCHANGED <<live, snap, ripe, claimed, held, faults>>
    BY <1>1 DEF SearchCandidates, found
  <2>a. [frame[w] EXCEPT !.attempts = @ + 1, !.progressed = FALSE] \in Frame
    BY <1>a, FrameCounts
  <2>b. frame' = [frame EXCEPT ![w] = [frame[w] EXCEPT !.attempts = @ + 1, !.progressed = FALSE]]
    BY <2>5
  <2>6. frame' \in [Workers -> Frame] /\ \A v \in Workers : v # w => frame'[v] = frame[v]
    BY <2>a, <2>b
  <2> QED BY <2>4, <2>5, <2>6
<1>2. CASE ClaimWins(w)
  <2>1. PICK hit \in hits[w] : Unchanged(live, hit) /\ live' = ClaimedBy(live, hit.id, w)
    BY <1>2 DEF ClaimWins, MayClaim
  <2>2. live[hit.id].doc \in TaskDocs
    BY <1>b, <2>1 DEF Unchanged, Exists, Copies
  <2>3. [live[hit.id].doc EXCEPT !.status = "processing", !.worker = w] \in TaskDocs
    BY <2>2 DEF TaskDocs, Statuses
  <2>4. live' \in [Tasks -> Copies(TaskDocs)]
    BY <1>b, <2>1, <2>3, PutType DEF ClaimedBy
  <2>5. UNCHANGED <<snap, ripe, frame, hits, claimed, held, faults>> /\ frame[w].quota > 0
        /\ pc' = [pc EXCEPT ![w] = "wait"]
    BY <1>2 DEF ClaimWins, HasRoom
  <2> QED BY <2>4, <2>5
<1>3. CASE ClaimLoses(w)
  BY <1>3 DEF ClaimLoses
<1>4. CASE ClaimAnswered(w)
  <2>1. frame[w].quota \in Nat /\ frame[w].quota > 0 /\ frame[w].pool \in Nat
    BY <1>4, <1>a DEF ClaimAnswered, Frame
  <2>2. frame' = [frame EXCEPT ![w].quota = @ - 1, ![w].progressed = TRUE]
    BY <1>4 DEF ClaimAnswered, CountRow
  <2>a. [frame[w] EXCEPT !.quota = @ - 1, !.progressed = TRUE] \in Frame
    <3>1. frame[w].quota - 1 \in Nat
      BY <2>1
    <3> QED BY <1>a, <3>1, FrameCounts
  <2>b. frame' = [frame EXCEPT ![w] = [frame[w] EXCEPT !.quota = @ - 1, !.progressed = TRUE]]
    BY <2>2
  <2>3. frame' \in [Workers -> Frame] /\ \A v \in Workers : v # w => frame'[v] = frame[v]
    BY <2>a, <2>b
  <2>4. claimed' \in [Workers -> SUBSET [task : Tasks, pool : Nat]]
    BY <1>4, <1>b, <2>1 DEF ClaimAnswered
  <2> QED BY <1>4, <2>3, <2>4 DEF ClaimAnswered
<1> QED BY <1>1, <1>2, <1>3, <1>4

\* ... the ends of a call, its faults, and what happens to the tasks.
LEMMA OtherStepType ==
  ASSUME TypeInv, [Next]_vars,
         \A w \in Workers : /\ ~(NextPool(w) \/ ReadBusyBanks(w) \/ NextPass(w) \/ EndPool(w)
                                 \/ EndSearch(w) \/ EndHits(w))
                            /\ ~(SearchCandidates(w) \/ ClaimWins(w) \/ ClaimLoses(w)
                                 \/ ClaimAnswered(w))
  PROVE  TypeInv'
<1> USE DEF TypeInv, TypeOK, WaitHoldsSlot, Phases
<1>1. ASSUME NEW w \in Workers, ReturnClaimed(w) PROVE TypeInv'
  BY <1>1, IdleFrameType DEF ReturnClaimed, ClaimedIds
<1>2. ASSUME NEW w \in Workers, Fault(w) PROVE TypeInv'
  <2>a. ClaimedIds(w) \subseteq Tasks /\ InFlight(w) \subseteq Tasks /\ held[w] \subseteq Tasks
    BY DEF ClaimedIds, InFlight, Hits
  <2>b. \A kind, tasks : tasks \subseteq Tasks /\ Fails(kind, tasks)
                        => faults' \in [count : Nat, lost : SUBSET Tasks]
    BY DEF Fails
  <2>1. CASE AnswerTimesOut(w)
    BY <2>a, <2>b, <2>1 DEF AnswerTimesOut
  <2>2. CASE CallRaises(w)
    <3>1. Fails("error", ClaimedIds(w) \union InFlight(w))
      BY <2>2 DEF CallRaises
    <3>2. faults' \in [count : Nat, lost : SUBSET Tasks]
      BY <2>a, <2>b, <3>1
    <3> QED BY <2>2, <3>2, IdleFrameType DEF CallRaises, AbandonCall
  <2>3. CASE Crash(w)
    <3>1. Fails("crash", ClaimedIds(w) \union InFlight(w) \union held[w])
      BY <2>3 DEF Crash
    <3>2. faults' \in [count : Nat, lost : SUBSET Tasks]
      BY <2>a, <2>b, <3>1
    <3> QED BY <2>3, <3>2, IdleFrameType DEF Crash, AbandonCall
  <2> QED BY <1>2, <2>1, <2>2, <2>3 DEF Fault
<1>3. ASSUME NEW w \in Workers, NEW pools \in PoolChoices, StartClaim(w, pools)
      PROVE  TypeInv'
  <2>1. NewFrame(pools, ripe) \in Frame
    BY NewFrameType, CallAssumption
  <2> QED BY <1>3, <2>1 DEF StartClaim
<1>4. ASSUME NEW t \in Tasks, NEW doc \in TaskDocs \union {Missing}, live' = Put(live, t, doc),
             UNCHANGED <<snap, ripe, pc, frame, hits, claimed, faults>>,
             held' \in [Workers -> SUBSET Tasks]
      PROVE  TypeInv'
  <2>1. live' \in [Tasks -> Copies(TaskDocs)]
    BY <1>4, PutType
  <2> QED BY <1>4, <2>1
<1>a. ASSUME NEW t \in Tasks, Exists(live, t), NEW status \in Statuses
      PROVE  [live[t].doc EXCEPT !.status = status] \in TaskDocs
  BY <1>a DEF Exists, Copies, TaskDocs
<1>5. ASSUME NEW w \in Workers, NEW t \in Tasks, CompleteTask(w, t) PROVE TypeInv'
  <2>1. CASE Exists(live, t)
    BY <1>4, <1>5, <1>a, <2>1 DEF CompleteTask, WithStatus, Statuses
  <2>2. CASE ~Exists(live, t)
    BY <1>5, <2>2 DEF CompleteTask
  <2> QED BY <2>1, <2>2
<1>6. ASSUME NEW w \in Workers, NEW t \in Tasks, RetryLater(w, t) PROVE TypeInv'
  <2>1. live[t].doc.retry \in Nat
    BY <1>6 DEF RetryLater, HasStatus, Exists, Copies, TaskDocs
  <2>2. [status |-> "pending", worker |-> NoWorker, retry |-> live[t].doc.retry + 1] \in TaskDocs
    BY <2>1 DEF TaskDocs, Statuses
  <2> QED BY <1>4, <1>6, <2>2 DEF RetryLater
<1>7. ASSUME NEW t \in Tasks, TaskStep(t) PROVE TypeInv'
  <2>1. CASE InsertTask(t)
    <3>1. NewTask \in TaskDocs
      BY DEF NewTask, TaskDocs, Statuses
    <3> QED BY <1>4, <2>1, <3>1 DEF InsertTask, callVars
  <2>2. CASE DeleteOperation(t)
    BY <1>4, <2>2 DEF DeleteOperation, callVars
  <2>3. CASE CancelOperation(t)
    BY <1>4, <1>a, <2>3 DEF CancelOperation, WithStatus, HasStatus, Statuses, callVars
  <2>4. CASE RetryRipens(t)
    BY <2>4 DEF RetryRipens, Exists, Copies, TaskDocs, callVars
  <2> QED BY <1>7, <2>1, <2>2, <2>3, <2>4 DEF TaskStep
<1>8. CASE Refresh
  BY <1>8 DEF Refresh, callVars
<1>9. CASE UNCHANGED vars
  BY <1>9 DEF vars
<1> QED
  BY <1>1, <1>2, <1>3, <1>5, <1>6, <1>7, <1>8, <1>9 DEF Next, CallStep

LEMMA InitType == Init => TypeInv
<1>1. EmptyIndex(Tasks) \in [Tasks -> Copies(TaskDocs)]
  BY DEF EmptyIndex, Copies
<1> QED BY <1>1, IdleFrameType DEF Init, TypeInv, TypeOK, WaitHoldsSlot, Phases

LEMMA TypeInvStep == TypeInv /\ [Next]_vars => TypeInv'
BY LoopStepType, ClaimStepType, OtherStepType

\* Every variable keeps its type.
THEOREM TaskQueueType == Spec => []TypeOK
<1>1. TypeInv => TypeOK
  BY DEF TypeInv
<1> QED BY <1>1, InitType, TypeInvStep, PTL DEF Spec

-----------------------------------------------------------------------------
(* What a hit still says when it is tried. *)

Due(t) ==
  /\ HasStatus(live, t, "pending")
  /\ live[t].doc.retry <= ripe[t]
  /\ t \in Runnable

\* the searchable copy is an old one, and the same one if it has the number
SnapIsOld ==
  \A t \in Tasks : /\ snap[t].seq <= live[t].seq
                   /\ snap[t].seq = live[t].seq => snap[t] = live[t]

\* if nobody wrote the task since, it may still be claimed
HitsAreFresh ==
  \A w \in Workers : \A hit \in hits[w] :
    /\ hit.seq <= live[hit.id].seq
    /\ hit.seq = live[hit.id].seq => Due(hit.id)

NowIsPast == \A w \in Workers : \A t \in Tasks : frame[w].now[t] <= ripe[t]

HitsInv == SnapIsOld /\ HitsAreFresh /\ NowIsPast

LEMMA InitHits == Init => HitsInv
<1> SUFFICES ASSUME Init PROVE HitsInv
  OBVIOUS
<1>1. NowIsPast
  BY DEF Init, NowIsPast, IdleFrame, NewFrame
<1>2. SnapIsOld /\ HitsAreFresh
  BY DEF Init, EmptyIndex, SnapIsOld, HitsAreFresh
<1> QED BY <1>1, <1>2 DEF HitsInv

\* A write of one task makes every hit of it stale, and leaves the others.
LEMMA WriteKeepsHits ==
  ASSUME TypeInv, HitsInv, NEW t \in Tasks, NEW doc, live' = Put(live, t, doc),
         UNCHANGED <<snap, ripe, hits, frame>>
  PROVE  HitsInv'
<1> USE DEF TypeInv, TypeOK, HitsInv
<1>1. /\ live'[t].seq = live[t].seq + 1
      /\ \A u \in Tasks : u # t => live'[u] = live[u]
  BY DEF Put, Copies
<1>2. \A u \in Tasks : live[u].seq \in Nat /\ snap[u].seq \in Nat
  BY DEF Copies
<1>3. SnapIsOld'
  BY <1>1, <1>2 DEF SnapIsOld
<1>4. ASSUME NEW w \in Workers, NEW hit \in hits[w]
      PROVE  /\ hit.seq <= live'[hit.id].seq
             /\ hit.seq = live'[hit.id].seq => Due(hit.id)'
  <2>1. hit.id \in Tasks /\ hit.seq \in Nat /\ hit.seq <= live[hit.id].seq
    BY DEF Hits, HitsAreFresh
  <2>2. CASE hit.id = t
    BY <1>1, <1>2, <2>1, <2>2
  <2>3. CASE hit.id # t
    <3>1. live'[hit.id] = live[hit.id]
      BY <1>1, <2>1, <2>3
    <3> QED BY <2>1, <3>1 DEF HitsAreFresh, Due, HasStatus, Exists
  <2> QED BY <2>2, <2>3
<1>5. HitsAreFresh'
  BY <1>4 DEF HitsAreFresh
<1> QED BY <1>3, <1>5 DEF NowIsPast

\* A search takes its hits from the searchable copy: what they say is true of
\* the task as long as it has their number.
LEMMA SearchIsFresh ==
  ASSUME TypeInv, HitsInv, NEW w \in Workers, SearchCandidates(w)
  PROVE  HitsInv'
<1> USE DEF TypeInv, TypeOK, HitsInv
<1> DEFINE found == Oldest(2 * frame[w].quota, Candidates(w))
<1>1. found \subseteq Candidates(w)
  BY DEF Oldest
<1> HIDE DEF found
<1>2. \A t \in found : /\ t \in Tasks /\ snap[t].seq <= live[t].seq
                       /\ snap[t].seq = live[t].seq => Due(t)
  <2> TAKE t \in found
  <2>1. /\ t \in Tasks /\ t \in Runnable /\ HasStatus(snap, t, "pending")
        /\ snap[t].doc.retry <= frame[w].now[t]
    BY <1>1, TaskAssumption DEF Candidates, RetryOk
  <2>2. frame[w].now[t] <= ripe[t] /\ frame[w].now[t] \in Nat /\ ripe[t] \in Nat
    BY <2>1 DEF NowIsPast, Frame
  <2>3. snap[t].doc.retry \in Nat
    BY <2>1 DEF HasStatus, Exists, Copies, TaskDocs
  <2>4. snap[t].doc.retry <= ripe[t]
    BY <2>1, <2>2, <2>3
  <2>5. snap[t].seq <= live[t].seq
    BY <2>1 DEF SnapIsOld
  <2>6. ASSUME snap[t].seq = live[t].seq PROVE Due(t)
    <3>1. snap[t] = live[t]
      BY <2>1, <2>6 DEF SnapIsOld
    <3> QED BY <2>1, <2>4, <3>1 DEF Due, HasStatus, Exists
  <2> QED BY <2>1, <2>5, <2>6
<1>3. /\ hits' = [hits EXCEPT ![w] = {[id |-> t, seq |-> snap[t].seq] : t \in found}]
      /\ UNCHANGED <<live, snap, ripe>>
  BY DEF SearchCandidates, found
<1>4. \A v \in Workers : frame'[v].now = frame[v].now
  BY DEF SearchCandidates, Frame
<1>5. HitsAreFresh'
  <2>1. ASSUME NEW v \in Workers, NEW hit \in hits'[v]
        PROVE  hit.seq <= live[hit.id].seq /\ (hit.seq = live[hit.id].seq => Due(hit.id))
    <3>1. CASE v = w
      <4>1. PICK t \in found : hit = [id |-> t, seq |-> snap[t].seq]
        BY <1>3, <2>1, <3>1
      <4>2. hit.id = t /\ hit.seq = snap[t].seq
        BY <4>1
      <4>3. snap[t].seq <= live[t].seq /\ (snap[t].seq = live[t].seq => Due(t))
        BY <1>2
      <4> QED BY <4>2, <4>3, Zenon
    <3>2. CASE v # w
      BY <1>3, <2>1, <3>2 DEF HitsAreFresh
    <3> QED BY <3>1, <3>2
  <2>2. \A t \in Tasks : Due(t)' <=> Due(t)
    BY <1>3 DEF Due
  <2> QED BY <1>3, <2>1, <2>2 DEF HitsAreFresh, Due
<1>6. SnapIsOld' /\ NowIsPast'
  BY <1>3, <1>4 DEF SnapIsOld, NowIsPast
<1> QED BY <1>5, <1>6

\* Every step keeps the hits truthful.
LEMMA HitsInvStep == TypeInv /\ TypeInv' /\ HitsInv /\ [Next]_vars => HitsInv'
<1> SUFFICES ASSUME TypeInv, TypeInv', HitsInv, [Next]_vars PROVE HitsInv'
  OBVIOUS
<1> USE DEF HitsInv
\* steps of the loops, and faults
<1>1. ASSUME UNCHANGED <<live, snap, ripe>>,
             \A w \in Workers : hits'[w] \subseteq hits[w],
             \A w \in Workers : \A t \in Tasks : frame'[w].now[t] <= ripe[t]
      PROVE  HitsInv'
  BY <1>1 DEF SnapIsOld, HitsAreFresh, NowIsPast, Due
<1>2. ASSUME NEW w \in Workers, CallStep(w) PROVE HitsInv'
  <2>1. ASSUME UNCHANGED <<live, snap, ripe>>, \A v \in Workers : hits'[v] \subseteq hits[v],
               \A v \in Workers : frame'[v].now = frame[v].now
        PROVE  HitsInv'
    BY <1>1, <2>1 DEF NowIsPast
  <2>2. CASE NextPool(w)
    BY <2>1, <2>2 DEF NextPool, TypeInv, TypeOK, Frame
  <2>3. CASE ReadBusyBanks(w)
    BY <2>1, <2>3 DEF ReadBusyBanks, TypeInv, TypeOK, Frame
  <2>4. CASE NextPass(w)
    BY <2>1, <2>4 DEF NextPass, TypeInv, TypeOK, Frame
  <2>5. CASE EndPool(w) \/ EndSearch(w)
    BY <2>1, <2>5 DEF EndPool, EndSearch
  <2>6. CASE SearchCandidates(w)
    BY <2>6, SearchIsFresh
  <2>7. CASE ClaimWins(w)
    <3>1. PICK hit \in hits[w] : live' = ClaimedBy(live, hit.id, w)
      BY <2>7 DEF ClaimWins, MayClaim
    <3>2. hit.id \in Tasks
      BY DEF TypeInv, TypeOK, Hits
    <3> QED BY <2>7, <3>1, <3>2, WriteKeepsHits DEF ClaimWins, ClaimedBy
  <2>8. CASE ClaimLoses(w) \/ EndHits(w)
    BY <2>1, <2>8 DEF ClaimLoses, EndHits, TypeInv, TypeOK
  <2>9. CASE ClaimAnswered(w)
    <3>1. \A v \in Workers : frame'[v].now = frame[v].now
      BY <2>9 DEF ClaimAnswered, CountRow, TypeInv, TypeOK, Frame
    <3>2. \A v \in Workers : hits'[v] \subseteq hits[v]
      BY <2>9 DEF ClaimAnswered, TypeInv, TypeOK
    <3> QED BY <2>1, <2>9, <3>1, <3>2 DEF ClaimAnswered
  <2>10. CASE ReturnClaimed(w)
    <3>1. \A v \in Workers : \A t \in Tasks : frame'[v].now[t] <= ripe[t]
      BY <2>10 DEF ReturnClaimed, IdleFrame, NewFrame, TypeInv, TypeOK, NowIsPast
    <3> QED BY <1>1, <2>10, <3>1 DEF ReturnClaimed
  <2> QED
    BY <1>2, <2>2, <2>3, <2>4, <2>5, <2>6, <2>7, <2>8, <2>9, <2>10 DEF CallStep
<1>3. ASSUME NEW w \in Workers, Fault(w) PROVE HitsInv'
  <2>1. CASE AnswerTimesOut(w)
    BY <1>1, <2>1 DEF AnswerTimesOut, NowIsPast, TypeInv, TypeOK
  <2>2. CASE CallRaises(w) \/ Crash(w)
    <3>1. \A v \in Workers : \A t \in Tasks : frame'[v].now[t] <= ripe[t]
      <4>1. frame' = [frame EXCEPT ![w] = IdleFrame]
        BY <2>2 DEF CallRaises, Crash, AbandonCall
      <4>2. \A t \in Tasks : IdleFrame.now[t] = 0 /\ ripe[t] \in Nat
        BY DEF IdleFrame, NewFrame, TypeInv, TypeOK
      <4> QED BY <4>1, <4>2 DEF TypeInv, TypeOK, NowIsPast
    <3>2. \A v \in Workers : hits'[v] \subseteq hits[v]
      BY <2>2 DEF CallRaises, Crash, AbandonCall, TypeInv, TypeOK
    <3> QED BY <1>1, <2>2, <3>1, <3>2 DEF CallRaises, Crash
  <2> QED BY <1>3, <2>1, <2>2 DEF Fault
<1>4. ASSUME NEW w \in Workers, NEW pools \in PoolChoices, StartClaim(w, pools)
      PROVE  HitsInv'
  <2>1. \A v \in Workers : \A t \in Tasks : frame'[v].now[t] <= ripe[t]
    BY <1>4 DEF StartClaim, NewFrame, TypeInv, TypeOK, NowIsPast
  <2> QED BY <1>1, <1>4, <2>1 DEF StartClaim
<1>5. ASSUME NEW w \in Workers, NEW t \in Tasks, CompleteTask(w, t) \/ RetryLater(w, t)
      PROVE  HitsInv'
  <2>1. CASE UNCHANGED live
    BY <1>1, <1>5, <2>1 DEF CompleteTask, RetryLater, NowIsPast
  <2>2. CASE live' # live
    BY <1>5, <2>2, WriteKeepsHits DEF CompleteTask, RetryLater, WithStatus
  <2> QED BY <2>1, <2>2
<1>6. ASSUME NEW t \in Tasks, InsertTask(t) \/ DeleteOperation(t) \/ CancelOperation(t)
      PROVE  HitsInv'
  BY <1>6, WriteKeepsHits
  DEF InsertTask, DeleteOperation, CancelOperation, WithStatus, callVars
<1>7. ASSUME NEW t \in Tasks, RetryRipens(t) PROVE HitsInv'
  <2>1. \A u \in Tasks : ripe[u] \in Nat /\ ripe'[u] \in Nat /\ ripe[u] <= ripe'[u]
    BY <1>7 DEF RetryRipens, TypeInv, TypeOK, Exists, Copies, TaskDocs
  <2>2. UNCHANGED <<live, snap, hits, frame>>
    BY <1>7 DEF RetryRipens, callVars
  <2>3. \A u \in Tasks : Due(u) => Due(u)'
    <3> SUFFICES ASSUME NEW u \in Tasks, Due(u) PROVE Due(u)'
      OBVIOUS
    <3>1. live[u].doc.retry \in Nat
      BY DEF Due, HasStatus, Exists, TypeInv, TypeOK, Copies, TaskDocs
    <3> QED BY <2>1, <2>2, <3>1 DEF Due
  <2>4. \A w \in Workers : \A u \in Tasks : frame[w].now[u] \in Nat
    BY DEF TypeInv, TypeOK, Frame
  <2>5. NowIsPast'
    BY <2>1, <2>2, <2>4 DEF NowIsPast
  <2>6. HitsAreFresh'
    BY <2>2, <2>3 DEF HitsAreFresh, TypeInv, TypeOK, Hits
  <2> QED BY <2>2, <2>5, <2>6 DEF SnapIsOld
<1>8. CASE Refresh
  <2>1. snap' = live /\ UNCHANGED <<live, ripe, hits, frame>>
    BY <1>8 DEF Refresh, callVars
  <2>2. \A t \in Tasks : live[t].seq \in Nat
    BY DEF TypeInv, TypeOK, Copies
  <2> QED BY <2>1, <2>2 DEF SnapIsOld, HitsAreFresh, NowIsPast, Due
<1>9. CASE UNCHANGED vars
  BY <1>9 DEF vars, SnapIsOld, HitsAreFresh, NowIsPast, Due
<1> QED
  BY <1>2, <1>3, <1>4, <1>5, <1>6, <1>7, <1>8, <1>9 DEF Next, TaskStep

\* The searches are older than the updates they lead to: a task that starts to be
\* processed was due all the same.
LEMMA ClaimsWereDue ==
  TypeInv /\ HitsInv /\ [Next]_vars =>
    \A t \in Tasks : HasStatus(live', t, "processing") /\ live'[t] # live[t] => Due(t)
<1> SUFFICES ASSUME TypeInv, HitsInv, [Next]_vars, NEW t \in Tasks,
                    HasStatus(live', t, "processing"), live'[t] # live[t]
             PROVE  Due(t)
  OBVIOUS
<1> USE DEF TypeInv, TypeOK
<1>1. ASSUME NEW u \in Tasks, NEW doc, live' = Put(live, u, doc)
      PROVE  u = t /\ doc.status = "processing"
  BY <1>1 DEF Put, Copies, HasStatus
<1>2. ASSUME NEW w \in Workers, ClaimWins(w) PROVE Due(t)
  <2>1. PICK hit \in hits[w] : Unchanged(live, hit) /\ live' = ClaimedBy(live, hit.id, w)
    BY <1>2 DEF ClaimWins, MayClaim
  <2>2. hit.id \in Tasks
    BY DEF Hits
  <2>3. hit.id = t
    BY <1>1, <2>1, <2>2 DEF ClaimedBy
  <2> QED BY <2>1, <2>3 DEF HitsInv, HitsAreFresh, Unchanged
<1>3. ASSUME NEW u \in Tasks, NEW status \in Statuses \ {"processing"}, Exists(live, u)
      PROVE  live' # WithStatus(live, u, status)
  <2>1. [live[u].doc EXCEPT !.status = status].status = status
    BY <1>3 DEF Exists, Copies, TaskDocs
  <2> QED BY <1>1, <2>1 DEF WithStatus
<1>4. ASSUME NEW w \in Workers, NEW u \in Tasks, CompleteTask(w, u) PROVE FALSE
  BY <1>3, <1>4 DEF CompleteTask, Statuses
<1>5. ASSUME NEW w \in Workers, NEW u \in Tasks, RetryLater(w, u) PROVE FALSE
  BY <1>1, <1>5 DEF RetryLater
<1>6. ASSUME NEW u \in Tasks, TaskStep(u) PROVE FALSE
  <2>1. CASE InsertTask(u)
    BY <1>1, <2>1 DEF InsertTask, NewTask
  <2>2. CASE DeleteOperation(u)
    BY <2>2 DEF DeleteOperation, Put, HasStatus, Exists, Copies
  <2>3. CASE CancelOperation(u)
    BY <1>3, <2>3 DEF CancelOperation, HasStatus, Statuses
  <2>4. CASE RetryRipens(u)
    BY <2>4 DEF RetryRipens
  <2> QED BY <1>6, <2>1, <2>2, <2>3, <2>4 DEF TaskStep
<1>7. ASSUME NEW w \in Workers, CallStep(w), ~ClaimWins(w) PROVE UNCHANGED live
  BY <1>7 DEF CallStep, NextPool, ReadBusyBanks, NextPass, EndPool, SearchCandidates, EndSearch,
              ClaimLoses, ClaimAnswered, EndHits, ReturnClaimed
<1>8. ASSUME NEW w \in Workers, Fault(w) PROVE UNCHANGED live
  BY <1>8 DEF Fault, AnswerTimesOut, CallRaises, Crash
<1>9. ASSUME NEW w \in Workers, NEW pools \in PoolChoices, StartClaim(w, pools)
      PROVE  UNCHANGED live
  BY <1>9 DEF StartClaim
<1>10. Refresh \/ UNCHANGED vars => UNCHANGED live
  BY DEF Refresh, vars
<1> QED BY <1>2, <1>4, <1>5, <1>6, <1>7, <1>8, <1>9, <1>10 DEF Next

\* A task that starts to be processed was due, by what was live when the
\* update was applied.
THEOREM TaskQueueClaimsAreDue == Spec => ClaimsAreDue
<1>1. Init => TypeInv /\ HitsInv
  BY InitType, InitHits
<1>2. TypeInv /\ HitsInv /\ [Next]_vars => (TypeInv /\ HitsInv)'
  BY TypeInvStep, HitsInvStep
<1>3. TypeInv /\ HitsInv /\ [Next]_vars =>
        [\A t \in Tasks : HasStatus(live', t, "processing") /\ live'[t] # live[t] =>
           /\ HasStatus(live, t, "pending")
           /\ live[t].doc.retry <= ripe[t]
           /\ t \in Runnable]_vars
  BY ClaimsWereDue DEF Due
<1> QED BY <1>1, <1>2, <1>3, PTL DEF Spec, ClaimsAreDue

-----------------------------------------------------------------------------
(* No task has two owners. *)

\* the tasks a running call has claimed, answered or not
Calling(w) == ClaimedIds(w) \union InFlight(w)

\* a task that somebody owns can be claimed by nobody
Taken(t) == Used(live, t) /\ ~HasStatus(live, t, "pending")

OwnInv ==
  /\ \A w \in Workers : held[w] \cap Calling(w) = {}
  /\ \A v, w \in Workers :
       v # w => (held[v] \union Calling(v)) \cap (held[w] \union Calling(w)) = {}
  /\ \A w \in Workers : \A t \in held[w] \union Calling(w) : Taken(t)

\* A call that claims nothing more keeps at most what it had.
LEMMA CallShrinks ==
  ASSUME NEW w \in Workers,
         \/ claimed'[w] = claimed[w] /\ hits'[w] = hits[w] /\ pc'[w] = pc[w]
         \/ claimed'[w] \subseteq claimed[w] /\ pc'[w] # "wait"
  PROVE  Calling(w)' \subseteq Calling(w)
BY DEF Calling, ClaimedIds, InFlight, IsFirst

\* A step that gives nobody a task and frees none that is owned is harmless.
LEMMA OwnersShrink ==
  ASSUME OwnInv,
         \A v \in Workers : held'[v] \subseteq held[v] /\ Calling(v)' \subseteq Calling(v),
         \A v \in Workers : \A t \in held'[v] \union Calling(v)' : Taken(t)'
  PROVE  OwnInv'
<1> DEFINE New(v) == held'[v] \union Calling(v)'
           Old(v) == held[v] \union Calling(v)
<1>1. \A v \in Workers : New(v) \subseteq Old(v)
  OBVIOUS
<1>2. \A v, w \in Workers : v # w => New(v) \cap New(w) = {}
  BY <1>1 DEF OwnInv
<1>3. \A v \in Workers : held'[v] \cap Calling(v)' = {}
  BY DEF OwnInv
<1> QED BY <1>2, <1>3 DEF OwnInv

\* A step that keeps the index, and in which no call claims more.
LEMMA QuietStep ==
  ASSUME OwnInv, UNCHANGED live, \A v \in Workers : held'[v] \subseteq held[v],
         NEW w \in Workers, \A v \in Workers \ {w} : /\ claimed'[v] = claimed[v]
                                                    /\ hits'[v] = hits[v] /\ pc'[v] = pc[v],
         \/ claimed'[w] = claimed[w] /\ hits'[w] = hits[w] /\ pc'[w] = pc[w]
         \/ claimed'[w] \subseteq claimed[w] /\ pc'[w] # "wait"
  PROVE  OwnInv'
<1>1. \A v \in Workers : Calling(v)' \subseteq Calling(v)
  BY CallShrinks
<1>2. \A t : Taken(t) => Taken(t)'
  BY DEF Taken, Used, HasStatus, Exists
<1>3. \A v \in Workers : \A t \in held'[v] \union Calling(v)' : Taken(t)'
  BY <1>1, <1>2 DEF OwnInv
<1> QED BY <1>1, <1>3, OwnersShrink

LEMMA NobodyMoves ==
  ASSUME OwnInv, UNCHANGED <<live, claimed, hits, pc, held>>
  PROVE  OwnInv'
<1>1. \A v \in Workers : Calling(v)' \subseteq Calling(v) /\ held'[v] \subseteq held[v]
  BY CallShrinks
<1>2. \A t : Taken(t) => Taken(t)'
  BY DEF Taken, Used, HasStatus, Exists
<1>3. \A v \in Workers : \A t \in held'[v] \union Calling(v)' : Taken(t)'
  BY <1>1, <1>2 DEF OwnInv
<1> QED BY <1>1, <1>3, OwnersShrink

\* So is a write that leaves the task it writes taken, or writes one that
\* nobody owns any more.
LEMMA QuietWrite ==
  ASSUME TypeInv, OwnInv, NEW t \in Tasks, NEW doc, live' = Put(live, t, doc),
         UNCHANGED <<claimed, hits, pc>>, \A v \in Workers : held'[v] \subseteq held[v],
         \/ doc = Missing \/ doc.status # "pending"
         \/ \A v \in Workers : t \notin held'[v] \union Calling(v)
  PROVE  OwnInv'
<1>1. \A v \in Workers : Calling(v)' \subseteq Calling(v)
  BY CallShrinks
<1>2. ASSUME NEW v \in Workers, NEW u \in held'[v] \union Calling(v)' PROVE Taken(u)'
  <2>1. Taken(u)
    BY <1>1, <1>2 DEF OwnInv
  <2>2. CASE u = t
    BY <1>1, <1>2, <2>2 DEF Put, Taken, Used, HasStatus, Exists, TypeInv, TypeOK, Copies
  <2>3. CASE u # t
    <3>1. live'[u] = live[u]
      BY <2>3 DEF Put, TypeInv, TypeOK
    <3> QED BY <2>1, <3>1 DEF Taken, Used, HasStatus, Exists
  <2> QED BY <2>2, <2>3
<1> QED BY <1>1, <1>2, OwnersShrink

\* An update that is applied takes a task that nobody owns: it was pending.
LEMMA ClaimWinsOwns ==
  ASSUME TypeInv, HitsInv, OwnInv, NEW w \in Workers, ClaimWins(w)
  PROVE  OwnInv'
<1> USE DEF TypeInv, TypeOK
<1>1. PICK hit \in hits[w] : /\ IsFirst(hit, w) /\ Unchanged(live, hit)
                             /\ live' = ClaimedBy(live, hit.id, w)
  BY DEF ClaimWins, MayClaim
<1> DEFINE t == hit.id
<1>2. t \in Tasks
  BY DEF Hits
<1>3. HasStatus(live, t, "pending")
  BY <1>1 DEF HitsInv, HitsAreFresh, Unchanged, Due
<1>4. \A v \in Workers : t \notin held[v] \union Calling(v)
  BY <1>3 DEF OwnInv, Taken
<1>5. /\ pc[w] = "try" /\ pc' = [pc EXCEPT ![w] = "wait"]
      /\ UNCHANGED <<hits, claimed, held>>
  BY DEF ClaimWins, MayClaim
<1>6. \A v \in Workers : v # w => Calling(v)' = Calling(v)
  BY <1>5 DEF Calling, ClaimedIds, InFlight, IsFirst
<1>7. Calling(w)' \subseteq Calling(w) \union {t}
  <2>1. \A h \in hits[w] : IsFirst(h, w) => h.id = t
    <3>1. \A h \in hits[w] : h.id \in Tasks
      BY DEF Hits
    <3>2. Tasks \subseteq Nat
      BY TaskAssumption
    <3> SUFFICES ASSUME NEW h \in hits[w], IsFirst(h, w) PROVE h.id = t
      OBVIOUS
    <3>3. t <= h.id /\ h.id <= t
      BY <1>1 DEF IsFirst
    <3>4. t \in Nat /\ h.id \in Nat
      BY <3>1, <3>2
    <3> QED BY ONLY <3>3, <3>4
  <2>2. InFlight(w)' \subseteq {t}
    BY <1>5, <2>1 DEF InFlight, IsFirst
  <2>3. ClaimedIds(w)' = ClaimedIds(w)
    BY <1>5 DEF ClaimedIds
  <2> QED BY <2>2, <2>3 DEF Calling
<1>8. Taken(t)'
  <2>1. live[t].doc \in TaskDocs
    BY <1>2, <1>3 DEF HasStatus, Exists, Copies
  <2>2. [live[t].doc EXCEPT !.status = "processing", !.worker = w].status = "processing"
    BY <2>1 DEF TaskDocs
  <2> QED BY <1>1, <1>2, <2>2 DEF ClaimedBy, Put, Taken, Used, HasStatus, Copies
<1>9. \A u \in Tasks : u # t /\ Taken(u) => Taken(u)'
  BY <1>1, <1>2 DEF ClaimedBy, Put, Taken, Used, HasStatus, Exists
<1>10. \A v \in Workers : held[v] \union Calling(v) \subseteq Tasks
  BY DEF Calling, ClaimedIds, InFlight, Hits
<1> HIDE DEF t
<1>11. \A v \in Workers : held'[v] \cap Calling(v)' = {}
  BY <1>4, <1>5, <1>6, <1>7 DEF OwnInv
<1>12. \A v, u \in Workers :
         v # u => (held'[v] \union Calling(v)') \cap (held'[u] \union Calling(u)') = {}
  <2> SUFFICES ASSUME NEW v \in Workers, NEW u \in Workers, v # u
               PROVE  (held'[v] \union Calling(v)') \cap (held'[u] \union Calling(u)') = {}
    OBVIOUS
  <2>1. (held[v] \union Calling(v)) \cap (held[u] \union Calling(u)) = {}
    BY DEF OwnInv
  <2>2. CASE v = w
    BY <1>4, <1>5, <1>6, <1>7, <2>1, <2>2
  <2>3. CASE u = w
    BY <1>4, <1>5, <1>6, <1>7, <2>1, <2>3
  <2>4. CASE v # w /\ u # w
    BY <1>5, <1>6, <2>1, <2>4
  <2> QED BY <2>2, <2>3, <2>4
<1>13. \A v \in Workers : \A u \in held'[v] \union Calling(v)' : Taken(u)'
  <2> SUFFICES ASSUME NEW v \in Workers, NEW u \in held'[v] \union Calling(v)' PROVE Taken(u)'
    OBVIOUS
  <2>1. u = t \/ u \in held[v] \union Calling(v)
    BY <1>5, <1>6, <1>7
  <2> QED BY <1>8, <1>9, <1>10, <2>1 DEF OwnInv
<1> QED BY <1>11, <1>12, <1>13 DEF OwnInv

\* The steps of a call hand no task on.
LEMMA CallStepOwns ==
  ASSUME TypeInv, HitsInv, OwnInv, NEW w \in Workers, CallStep(w)
  PROVE  OwnInv'
<1> USE DEF TypeInv, TypeOK
<1>1. CASE NextPool(w)
  BY <1>1, QuietStep DEF NextPool
<1>2. CASE ReadBusyBanks(w) \/ NextPass(w) \/ EndPool(w) \/ EndSearch(w)
  BY <1>2, QuietStep DEF ReadBusyBanks, NextPass, EndPool, EndSearch
<1>3. CASE SearchCandidates(w)
  BY <1>3, QuietStep DEF SearchCandidates
<1>4. CASE ClaimLoses(w)
  BY <1>4, QuietStep DEF ClaimLoses
<1>5. CASE EndHits(w)
  BY <1>5, QuietStep DEF EndHits
<1>6. CASE ClaimWins(w)
  BY <1>6, ClaimWinsOwns
<1>7. CASE ClaimAnswered(w)
  <2>1. PICK hit \in hits[w] : /\ IsFirst(hit, w)
                               /\ claimed' = [claimed EXCEPT ![w] =
                                    @ \union {[task |-> hit.id, pool |-> frame[w].pool]}]
    BY <1>7 DEF ClaimAnswered
  <2>2. hit.id \in InFlight(w)
    BY <1>7, <2>1 DEF InFlight, ClaimAnswered
  <2>3. InFlight(w)' = {} /\ ClaimedIds(w)' \subseteq ClaimedIds(w) \union {hit.id}
    BY <1>7, <2>1 DEF InFlight, ClaimAnswered, ClaimedIds
  <2>4. Calling(w)' \subseteq Calling(w)
    BY <2>2, <2>3 DEF Calling
  <2>5. \A v \in Workers : v # w => Calling(v)' = Calling(v)
    BY <1>7 DEF ClaimAnswered, Calling, ClaimedIds, InFlight, IsFirst
  <2>6. UNCHANGED <<live, held>>
    BY <1>7 DEF ClaimAnswered
  <2>7. \A v \in Workers : \A t \in held'[v] \union Calling(v)' : Taken(t)'
    BY <2>4, <2>5, <2>6 DEF OwnInv, Taken
  <2> QED BY <2>4, <2>5, <2>6, <2>7, OwnersShrink
<1>8. CASE ReturnClaimed(w)
  <2>1. Calling(w)' = {} /\ held'[w] \subseteq held[w] \union Calling(w)
    BY <1>8 DEF ReturnClaimed, Calling, ClaimedIds, InFlight
  <2>2. \A v \in Workers : v # w => Calling(v)' = Calling(v) /\ held'[v] = held[v]
    BY <1>8 DEF ReturnClaimed, Calling, ClaimedIds, InFlight, IsFirst
  <2>3. UNCHANGED live
    BY <1>8 DEF ReturnClaimed
  <2>4. \A v \in Workers : held'[v] \union Calling(v)' \subseteq held[v] \union Calling(v)
    BY <2>1, <2>2
  <2>5. \A v \in Workers : held'[v] \cap Calling(v)' = {}
    BY <2>1, <2>2 DEF OwnInv
  <2>6. \A v \in Workers : \A t \in held'[v] \union Calling(v)' : Taken(t)'
    BY <2>3, <2>4 DEF OwnInv, Taken
  <2>7. \A u, v \in Workers :
          u # v => (held'[u] \union Calling(u)') \cap (held'[v] \union Calling(v)') = {}
    BY <2>4 DEF OwnInv
  <2> QED BY <2>5, <2>6, <2>7 DEF OwnInv
<1> QED BY <1>1, <1>2, <1>3, <1>4, <1>5, <1>6, <1>7, <1>8 DEF CallStep

\* Nor does anything else.
LEMMA OwnInvStep == TypeInv /\ HitsInv /\ OwnInv /\ [Next]_vars => OwnInv'
<1> SUFFICES ASSUME TypeInv, HitsInv, OwnInv, [Next]_vars PROVE OwnInv'
  OBVIOUS
<1> USE DEF TypeInv, TypeOK
<1>1. ASSUME NEW w \in Workers, Fault(w) PROVE OwnInv'
  <2>1. CASE AnswerTimesOut(w)
    BY <2>1, QuietStep DEF AnswerTimesOut
  <2>2. CASE CallRaises(w)
    BY <2>2, QuietStep DEF CallRaises, AbandonCall
  <2>3. CASE Crash(w)
    BY <2>3, QuietStep DEF Crash, AbandonCall
  <2> QED BY <1>1, <2>1, <2>2, <2>3 DEF Fault
<1>2. ASSUME NEW w \in Workers, NEW pools \in PoolChoices, StartClaim(w, pools) PROVE OwnInv'
  BY <1>2, QuietStep DEF StartClaim
<1>a. ASSUME NEW t \in Tasks, NEW status \in Statuses, Exists(live, t)
      PROVE  [live[t].doc EXCEPT !.status = status].status = status
  BY <1>a DEF Exists, Copies, TaskDocs
<1>3. ASSUME NEW w \in Workers, NEW t \in Tasks, CompleteTask(w, t) PROVE OwnInv'
  <2>1. \A v \in Workers : held'[v] \subseteq held[v]
    BY <1>3 DEF CompleteTask
  <2>2. CASE Exists(live, t)
    <3>1. live' = Put(live, t, [live[t].doc EXCEPT !.status = "completed"])
      BY <1>3, <2>2 DEF CompleteTask, WithStatus
    <3>2. [live[t].doc EXCEPT !.status = "completed"].status # "pending"
      BY <1>a, <2>2 DEF Statuses
    <3> QED BY <1>3, <2>1, <3>1, <3>2, QuietWrite DEF CompleteTask
  <2>3. CASE ~Exists(live, t)
    BY <1>3, <2>1, <2>3, QuietStep DEF CompleteTask
  <2> QED BY <2>2, <2>3
<1>4. ASSUME NEW w \in Workers, NEW t \in Tasks, RetryLater(w, t) PROVE OwnInv'
  <2>1. t \in held[w] /\ held' = [held EXCEPT ![w] = @ \ {t}]
    BY <1>4 DEF RetryLater
  <2>2. \A v \in Workers : held'[v] \subseteq held[v] /\ t \notin held'[v] \union Calling(v)
    BY <2>1 DEF OwnInv
  <2> QED BY <1>4, <2>2, QuietWrite DEF RetryLater
<1>5. ASSUME NEW t \in Tasks, TaskStep(t) PROVE OwnInv'
  <2>1. CASE InsertTask(t)
    <3>1. \A v \in Workers : t \notin held[v] \union Calling(v)
      BY <2>1 DEF InsertTask, OwnInv, Taken
    <3> QED BY <2>1, <3>1, QuietWrite DEF InsertTask, callVars
  <2>2. CASE DeleteOperation(t)
    BY <2>2, QuietWrite DEF DeleteOperation, callVars
  <2>3. CASE CancelOperation(t)
    <3>1. [live[t].doc EXCEPT !.status = "cancelled"].status # "pending"
      BY <1>a, <2>3 DEF CancelOperation, HasStatus, Statuses
    <3> QED BY <2>3, <3>1, QuietWrite DEF CancelOperation, WithStatus, callVars
  <2>4. CASE RetryRipens(t)
    <3>1. UNCHANGED <<live, claimed, hits, pc, held>>
      BY <2>4 DEF RetryRipens, callVars
    <3> QED BY <3>1, NobodyMoves
  <2> QED BY <1>5, <2>1, <2>2, <2>3, <2>4 DEF TaskStep
<1>6. CASE Refresh \/ UNCHANGED vars
  <2>1. UNCHANGED <<live, claimed, hits, pc, held>>
    BY <1>6 DEF Refresh, callVars, vars
  <2> QED BY <2>1, NobodyMoves
<1> QED BY <1>1, <1>2, <1>3, <1>4, <1>5, <1>6, CallStepOwns DEF Next

\* SKIP LOCKED: no task is ever handed to two workers.
THEOREM TaskQueueExclusiveClaim == Spec => []ExclusiveClaim
<1>1. Init => OwnInv
  BY DEF Init, OwnInv, Calling, ClaimedIds, InFlight
<1>2. OwnInv => ExclusiveClaim
  BY DEF OwnInv, ExclusiveClaim, Owned, Calling
<1> QED BY <1>1, <1>2, InitType, InitHits, TypeInvStep, HitsInvStep, OwnInvStep, PTL DEF Spec

-----------------------------------------------------------------------------
(* No task is claimed and forgotten. *)

\* the tasks that w will finish
Minds(w) == held[w] \union Calling(w)

\* a task in processing is minded by the worker that its row names, or lost
OrphanInv ==
  \A t \in Tasks : HasStatus(live, t, "processing") =>
    \/ t \in faults.lost
    \/ \E w \in Workers : live[t].doc.worker = w /\ t \in Minds(w)

\* A step that keeps the index, and in which no worker forgets a task that is
\* not lost.
LEMMA NobodyForgets ==
  ASSUME OrphanInv, UNCHANGED live, faults.lost \subseteq faults'.lost,
         \A v \in Workers : Minds(v) \subseteq Minds(v)' \union faults'.lost
  PROVE  OrphanInv'
BY DEF OrphanInv, HasStatus, Exists

\* ... in which only w moves.
LEMMA OneForgets ==
  ASSUME OrphanInv, UNCHANGED live, faults.lost \subseteq faults'.lost, NEW w \in Workers,
         \A v \in Workers \ {w} : /\ claimed'[v] = claimed[v] /\ hits'[v] = hits[v]
                                  /\ pc'[v] = pc[v] /\ held'[v] = held[v],
         Minds(w) \subseteq Minds(w)' \union faults'.lost
  PROVE  OrphanInv'
<1>1. \A v \in Workers \ {w} : Minds(v)' = Minds(v)
  BY DEF Minds, Calling, ClaimedIds, InFlight, IsFirst
<1> QED BY <1>1, NobodyForgets

\* A write that leaves its task in another status.
LEMMA OtherStatus ==
  ASSUME TypeInv, OrphanInv, NEW t \in Tasks, NEW doc, live' = Put(live, t, doc),
         doc = Missing \/ doc.status # "processing",
         UNCHANGED <<claimed, hits, pc, faults>>,
         \A v \in Workers : held[v] \subseteq held'[v] \union {t}
  PROVE  OrphanInv'
<1>1. \A v \in Workers : Minds(v) \subseteq Minds(v)' \union {t}
  BY DEF Minds, Calling, ClaimedIds, InFlight, IsFirst
<1>2. ~HasStatus(live', t, "processing")
  BY DEF Put, HasStatus, Exists, TypeInv, TypeOK
<1>3. \A u \in Tasks : u # t => live'[u] = live[u]
  BY DEF Put, TypeInv, TypeOK
<1>4. ASSUME NEW u \in Tasks, HasStatus(live', u, "processing")
      PROVE  \/ u \in faults'.lost
             \/ \E w \in Workers : live'[u].doc.worker = w /\ u \in Minds(w)'
  <2>1. u # t /\ live'[u] = live[u]
    BY <1>2, <1>3, <1>4
  <2>2. HasStatus(live, u, "processing")
    BY <1>4, <2>1 DEF HasStatus, Exists
  <2>3. u \in faults.lost \/ \E w \in Workers : live[u].doc.worker = w /\ u \in Minds(w)
    BY <2>2 DEF OrphanInv
  <2> QED BY <1>1, <2>1, <2>3
<1> QED BY <1>4 DEF OrphanInv

LEMMA OrphanInvStep == TypeInv /\ OrphanInv /\ [Next]_vars => OrphanInv'
<1> SUFFICES ASSUME TypeInv, OrphanInv, [Next]_vars PROVE OrphanInv'
  OBVIOUS
<1> USE DEF TypeInv, TypeOK
<1>1. ASSUME NEW w \in Workers, CallStep(w) PROVE OrphanInv'
  <2>1. CASE NextPool(w) \/ ReadBusyBanks(w) \/ NextPass(w) \/ EndPool(w)
             \/ SearchCandidates(w) \/ EndSearch(w)
    <3>1. Minds(w) \subseteq Minds(w)'
      BY <2>1 DEF NextPool, ReadBusyBanks, NextPass, EndPool, SearchCandidates, EndSearch,
                  Minds, Calling, ClaimedIds, InFlight
    <3> QED BY <2>1, <3>1, OneForgets
            DEF NextPool, ReadBusyBanks, NextPass, EndPool, SearchCandidates, EndSearch
  <2>2. CASE ClaimLoses(w) \/ EndHits(w)
    <3>1. Minds(w) \subseteq Minds(w)'
      BY <2>2 DEF ClaimLoses, EndHits, Minds, Calling, ClaimedIds, InFlight
    <3> QED BY <2>2, <3>1, OneForgets DEF ClaimLoses, EndHits
  <2>3. CASE ClaimAnswered(w)
    <3>1. PICK hit \in hits[w] : /\ IsFirst(hit, w)
                                 /\ claimed' = [claimed EXCEPT ![w] =
                                      @ \union {[task |-> hit.id, pool |-> frame[w].pool]}]
      BY <2>3 DEF ClaimAnswered
    <3>2. ClaimedIds(w) \union {hit.id} \subseteq ClaimedIds(w)'
      <4>1. claimed'[w] = claimed[w] \union {[task |-> hit.id, pool |-> frame[w].pool]}
        BY <3>1
      <4>2. [task |-> hit.id, pool |-> frame[w].pool].task = hit.id
        OBVIOUS
      <4>3. hit.id \in ClaimedIds(w)'
        BY <4>1, <4>2, Zenon DEF ClaimedIds
      <4> QED BY <4>1, <4>3, Zenon DEF ClaimedIds
    <3>3. InFlight(w) \subseteq {hit.id}
      <4> SUFFICES ASSUME NEW h \in hits[w], IsFirst(h, w) PROVE h.id = hit.id
        BY DEF InFlight
      <4>a. h.id \in Tasks /\ hit.id \in Tasks
        BY DEF Hits
      <4>b. Tasks \subseteq Nat
        BY TaskAssumption
      <4>1. h.id \in Nat /\ hit.id \in Nat
        BY <4>a, <4>b
      <4>2. h.id <= hit.id /\ hit.id <= h.id
        BY <3>1 DEF IsFirst
      <4> QED BY ONLY <4>1, <4>2
    <3>4. Minds(w) \subseteq Minds(w)'
      BY <2>3, <3>2, <3>3 DEF Minds, Calling, ClaimAnswered
    <3> QED BY <2>3, <3>4, OneForgets DEF ClaimAnswered
  <2>4. CASE ReturnClaimed(w)
    <3>1. Minds(w) \subseteq Minds(w)'
      BY <2>4 DEF ReturnClaimed, Minds, Calling, InFlight
    <3> QED BY <2>4, <3>1, OneForgets DEF ReturnClaimed
  <2>5. CASE ClaimWins(w)
    <3>1. PICK hit \in hits[w] : /\ IsFirst(hit, w) /\ Unchanged(live, hit)
                                 /\ live' = ClaimedBy(live, hit.id, w)
      BY <2>5 DEF ClaimWins, MayClaim
    <3> DEFINE t == hit.id
    <3>2. /\ pc[w] = "try" /\ pc' = [pc EXCEPT ![w] = "wait"]
          /\ UNCHANGED <<hits, claimed, held, faults>>
      BY <2>5 DEF ClaimWins
    <3>3. t \in Tasks /\ live[t].doc \in TaskDocs
      BY <3>1 DEF Hits, Unchanged, Exists, Copies
    <3>4. live'[t].doc.worker = w
      BY <3>1, <3>3 DEF ClaimedBy, Put, TaskDocs
    <3>5. t \in Minds(w)'
      BY <3>1, <3>2 DEF Minds, Calling, InFlight, IsFirst
    <3>6. \A v \in Workers : Minds(v) \subseteq Minds(v)'
      BY <3>2 DEF Minds, Calling, ClaimedIds, InFlight, IsFirst
    <3>7. \A u \in Tasks : u # t => live'[u] = live[u]
      BY <3>1, <3>3 DEF ClaimedBy, Put
    <3> HIDE DEF t
    <3> SUFFICES ASSUME NEW u \in Tasks, HasStatus(live', u, "processing"), u # t
                 PROVE  \/ u \in faults'.lost
                        \/ \E v \in Workers : live'[u].doc.worker = v /\ u \in Minds(v)'
      BY <3>4, <3>5 DEF OrphanInv
    <3>8. HasStatus(live, u, "processing") /\ live'[u] = live[u]
      BY <3>7 DEF HasStatus, Exists
    <3>9. u \in faults.lost \/ \E v \in Workers : live[u].doc.worker = v /\ u \in Minds(v)
      BY <3>8 DEF OrphanInv
    <3> QED BY <3>2, <3>6, <3>8, <3>9
  <2> QED BY <1>1, <2>1, <2>2, <2>3, <2>4, <2>5 DEF CallStep
<1>2. ASSUME NEW w \in Workers, Fault(w) PROVE OrphanInv'
  <2>a. \A kind, tasks : Fails(kind, tasks) => faults'.lost = faults.lost \union tasks
    BY DEF Fails
  <2>1. CASE AnswerTimesOut(w)
    <3>1. faults'.lost = faults.lost \union InFlight(w)
      BY <2>a, <2>1 DEF AnswerTimesOut
    <3>2. ClaimedIds(w)' = ClaimedIds(w) /\ held'[w] = held[w]
      BY <2>1 DEF AnswerTimesOut, ClaimedIds
    <3>3. Minds(w) \subseteq Minds(w)' \union faults'.lost
      BY <3>1, <3>2 DEF Minds, Calling
    <3> QED BY <2>1, <3>1, <3>3, OneForgets DEF AnswerTimesOut
  <2>2. CASE CallRaises(w)
    <3>1. faults'.lost = faults.lost \union (ClaimedIds(w) \union InFlight(w))
      BY <2>a, <2>2 DEF CallRaises
    <3>2. Minds(w) \subseteq Minds(w)' \union faults'.lost
      BY <2>2, <3>1 DEF CallRaises, Minds, Calling
    <3> QED BY <2>2, <3>1, <3>2, OneForgets DEF CallRaises, AbandonCall
  <2>3. CASE Crash(w)
    <3>1. faults'.lost = faults.lost \union (ClaimedIds(w) \union InFlight(w) \union held[w])
      BY <2>a, <2>3 DEF Crash
    <3>2. Minds(w) \subseteq faults'.lost
      BY <3>1 DEF Minds, Calling
    <3> QED BY <2>3, <3>1, <3>2, OneForgets DEF Crash, AbandonCall
  <2> QED BY <1>2, <2>1, <2>2, <2>3 DEF Fault
<1>3. ASSUME NEW w \in Workers, NEW pools \in PoolChoices, StartClaim(w, pools) PROVE OrphanInv'
  <2>1. Minds(w) \subseteq Minds(w)'
    BY <1>3 DEF StartClaim, Minds, Calling, ClaimedIds, InFlight
  <2> QED BY <1>3, <2>1, OneForgets DEF StartClaim
<1>a. ASSUME NEW t \in Tasks, NEW status, Exists(live, t)
      PROVE  [live[t].doc EXCEPT !.status = status].status = status
  BY <1>a DEF Exists, Copies, TaskDocs
<1>4. ASSUME NEW w \in Workers, NEW t \in Tasks, CompleteTask(w, t) PROVE OrphanInv'
  <2>1. /\ held' = [held EXCEPT ![w] = @ \ {t}]
        /\ UNCHANGED <<claimed, hits, pc, faults>>
    BY <1>4 DEF CompleteTask
  <2>2. \A v \in Workers : held[v] \subseteq held'[v] \union {t}
    BY <2>1
  <2>3. CASE Exists(live, t)
    BY <1>4, <1>a, <2>1, <2>2, <2>3, OtherStatus DEF CompleteTask, WithStatus
  <2>4. CASE ~Exists(live, t)
    <3>1. UNCHANGED live
      BY <1>4, <2>4 DEF CompleteTask
    <3>2. \A v \in Workers : Minds(v) \subseteq Minds(v)' \union {t}
      BY <2>1, <2>2 DEF Minds, Calling, ClaimedIds, InFlight, IsFirst
    <3> QED BY <2>1, <2>4, <3>1, <3>2 DEF OrphanInv, HasStatus, Exists
  <2> QED BY <2>3, <2>4
<1>5. ASSUME NEW w \in Workers, NEW t \in Tasks, RetryLater(w, t) PROVE OrphanInv'
  <2>1. \A v \in Workers : held[v] \subseteq held'[v] \union {t}
    BY <1>5 DEF RetryLater
  <2> QED BY <1>5, <2>1, OtherStatus DEF RetryLater
<1>6. ASSUME NEW t \in Tasks, TaskStep(t) PROVE OrphanInv'
  <2>1. CASE InsertTask(t)
    BY <2>1, OtherStatus DEF InsertTask, NewTask, callVars
  <2>2. CASE DeleteOperation(t)
    BY <2>2, OtherStatus DEF DeleteOperation, callVars
  <2>3. CASE CancelOperation(t)
    BY <1>a, <2>3, OtherStatus DEF CancelOperation, WithStatus, HasStatus, callVars
  <2>4. CASE RetryRipens(t)
    <3>1. UNCHANGED <<live, faults, claimed, hits, pc, held>>
      BY <2>4 DEF RetryRipens, callVars
    <3> QED BY <3>1, NobodyForgets DEF Minds, Calling, ClaimedIds, InFlight, IsFirst
  <2> QED BY <1>6, <2>1, <2>2, <2>3, <2>4 DEF TaskStep
<1>7. CASE Refresh \/ UNCHANGED vars
  <2>1. UNCHANGED <<live, faults, claimed, hits, pc, held>>
    BY <1>7 DEF Refresh, callVars, vars
  <2> QED BY <2>1, NobodyForgets DEF Minds, Calling, ClaimedIds, InFlight, IsFirst
<1> QED BY <1>1, <1>2, <1>3, <1>4, <1>5, <1>6, <1>7 DEF Next

\* No claim is applied and then forgotten, but for those that a fault took from
\* the hands of their worker.
THEOREM TaskQueueNoOrphan == Spec => []NoOrphan
<1>1. Init => OrphanInv
  BY DEF Init, OrphanInv, EmptyIndex, HasStatus, Exists
<1>2. OrphanInv => NoOrphan
  BY DEF OrphanInv, NoOrphan, Minds, Calling, Owned
<1> QED BY <1>1, <1>2, InitType, TypeInvStep, OrphanInvStep, PTL DEF Spec

-----------------------------------------------------------------------------
(* No call claims more than it was asked for. *)

\* what w has claimed in the i-th pool of its call
Share(w, i) == {c \in claimed[w] : c.pool = i}

\* quota is what the current pool has left; later pools have claimed nothing
Counts(w) ==
  /\ IsFiniteSet(claimed[w])
  /\ pc[w] = "idle" => claimed[w] = {}
  /\ frame[w].pool <= Len(frame[w].pools)
  /\ \A c \in claimed[w] : c.pool <= frame[w].pool
  /\ \A i \in 1..Len(frame[w].pools) :
       Cardinality(Share(w, i)) + (IF i = frame[w].pool THEN frame[w].quota ELSE 0)
         <= frame[w].pools[i].limit

CountInv == \A w \in Workers : Counts(w)

\* A part of the claims is finite, and its cardinality a number.
LEMMA ShareIsFinite ==
  ASSUME NEW w, NEW i, IsFiniteSet(claimed[w])
  PROVE  IsFiniteSet(Share(w, i)) /\ Cardinality(Share(w, i)) \in Nat
<1>1. Share(w, i) \in SUBSET claimed[w]
  BY DEF Share
<1>2. IsFiniteSet(Share(w, i))
  BY <1>1, FS_Subset
<1> QED BY <1>2, FS_CardinalityType

\* The loops of a call leave its count as it is.
LEMMA QuietCount ==
  ASSUME NEW w \in Workers, Counts(w), claimed'[w] = claimed[w],
         pc'[w] # "idle" \/ pc'[w] = pc[w],
         \/ frame'[w] = frame[w]
         \/ /\ frame'[w].pools = frame[w].pools /\ frame'[w].pool = frame[w].pool
            /\ frame'[w].quota = frame[w].quota
  PROVE  Counts(w)'
BY DEF Counts, Share

\* A call that has nothing, or no longer anything, counts to zero.
LEMMA FreshCount ==
  ASSUME NEW w \in Workers, claimed'[w] = {}, frame'[w].pool = 0,
         frame'[w].pools \in Seq(Pool)
  PROVE  Counts(w)'
<1>1. Len(frame'[w].pools) \in Nat
  OBVIOUS
<1>2. IsFiniteSet(claimed'[w])
  BY FS_EmptySet
<1>3. ASSUME NEW i \in 1..Len(frame'[w].pools)
      PROVE  Cardinality(Share(w, i)') + (IF i = frame'[w].pool THEN frame'[w].quota ELSE 0)
               <= frame'[w].pools[i].limit
  <2>1. Share(w, i)' = {}
    BY DEF Share
  <2>2. Cardinality(Share(w, i)') = 0
    BY <2>1, FS_EmptySet
  <2>3. i # frame'[w].pool
    BY <1>3
  <2>4. frame'[w].pools[i] \in Pool
    BY <1>3
  <2>5. frame'[w].pools[i].limit \in Nat
    BY <2>4 DEF Pool
  <2> QED BY <2>2, <2>3, <2>5
<1> QED BY <1>1, <1>2, <1>3 DEF Counts

\* The next pool has its whole limit left: nothing was claimed in it.
LEMMA NextPoolCount ==
  ASSUME TypeInv, NEW w \in Workers, Counts(w), NextPool(w)
  PROVE  Counts(w)'
<1> DEFINE f == frame[w] n == f.pool + 1
<1>1. f.pools \in Seq(Pool) /\ f.pool \in Nat /\ f.quota \in Nat /\ f.pool < Len(f.pools)
  BY DEF TypeInv, TypeOK, Frame, NextPool
<1>2. n \in 1..Len(f.pools) /\ n \in Nat
  BY <1>1
<1>3. /\ claimed' = claimed /\ pc'[w] # "idle"
      /\ frame'[w].pools = f.pools /\ frame'[w].pool = n
      /\ frame'[w].quota = f.pools[n].limit
  BY DEF NextPool, TypeInv, TypeOK, Frame
<1>4. \A c \in claimed[w] : c.pool \in Nat /\ c.pool <= f.pool
  BY DEF Counts, TypeInv, TypeOK
<1> HIDE DEF f, n
<1>5. \A c \in claimed[w] : c.pool < n
  BY <1>1, <1>4 DEF n
<1>6. ASSUME NEW i \in 1..Len(f.pools)
      PROVE  Cardinality(Share(w, i)') + (IF i = n THEN f.pools[n].limit ELSE 0)
               <= f.pools[i].limit
  <2>1. Share(w, i)' = Share(w, i)
    BY <1>3 DEF Share
  <2>2. f.pools[i] \in Pool
    BY <1>1
  <2>3. f.pools[i].limit \in Nat
    BY <2>2 DEF Pool
  <2>4. CASE i = n
    <3>1. Share(w, i) = {}
      BY <1>5, <1>2, <1>4, <2>4 DEF Share
    <3>2. Cardinality(Share(w, i)) = 0
      BY <3>1, FS_EmptySet
    <3> QED BY <2>1, <2>3, <2>4, <3>2
  <2>5. CASE i # n
    <3>1. Cardinality(Share(w, i)) \in Nat
      BY ShareIsFinite DEF Counts
    <3>2. Cardinality(Share(w, i)) + (IF i = f.pool THEN f.quota ELSE 0) <= f.pools[i].limit
      BY DEF Counts, f
    <3> QED BY <1>1, <2>1, <2>3, <2>5, <3>1, <3>2
  <2> QED BY <2>4, <2>5
<1>7. \A c \in claimed[w] : c.pool <= n
  BY <1>2, <1>4, <1>5
<1>8. n <= Len(f.pools)
  BY <1>2
<1> QED BY <1>3, <1>6, <1>7, <1>8 DEF Counts

\* A claim that is answered takes the slot that it held.
LEMMA AnsweredCount ==
  ASSUME TypeInv, NEW w \in Workers, Counts(w), ClaimAnswered(w)
  PROVE  Counts(w)'
<1> DEFINE f == frame[w]
<1>1. f.pools \in Seq(Pool) /\ f.pool \in Nat /\ f.quota \in Nat /\ f.quota > 0
  BY DEF TypeInv, TypeOK, WaitHoldsSlot, Frame, ClaimAnswered
<1>2. PICK x : x.pool = f.pool /\ claimed'[w] = claimed[w] \union {x}
  <2>1. PICK hit \in hits[w] :
          claimed' = [claimed EXCEPT ![w] = @ \union {[task |-> hit.id, pool |-> f.pool]}]
    BY DEF ClaimAnswered
  <2>2. claimed'[w] = claimed[w] \union {[task |-> hit.id, pool |-> f.pool]}
    BY <2>1 DEF TypeInv, TypeOK
  <2> QED BY <2>2
<1>3. /\ frame'[w].pools = f.pools /\ frame'[w].pool = f.pool /\ frame'[w].quota = f.quota - 1
      /\ pc'[w] # "idle"
  BY DEF ClaimAnswered, CountRow, TypeInv, TypeOK, Frame
<1>4. IsFiniteSet(claimed'[w])
  BY <1>2, FS_AddElement DEF Counts
<1>5. \A c \in claimed'[w] : c.pool <= f.pool
  BY <1>1, <1>2 DEF Counts
<1>6. ASSUME NEW i \in 1..Len(f.pools)
      PROVE  Cardinality(Share(w, i)') + (IF i = f.pool THEN f.quota - 1 ELSE 0)
               <= f.pools[i].limit
  <2>1. IsFiniteSet(Share(w, i)) /\ Cardinality(Share(w, i)) \in Nat
    BY ShareIsFinite DEF Counts
  <2>2. Cardinality(Share(w, i)) + (IF i = f.pool THEN f.quota ELSE 0) <= f.pools[i].limit
    BY DEF Counts
  <2>3. f.pools[i].limit \in Nat
    <3>1. f.pools[i] \in Pool
      BY <1>1
    <3> QED BY <3>1 DEF Pool
  <2>4. CASE i = f.pool
    <3>1. Share(w, i)' = Share(w, i) \union {x}
      BY <1>2, <2>4 DEF Share
    <3>2. Cardinality(Share(w, i)') \in Nat
          /\ Cardinality(Share(w, i)') <= Cardinality(Share(w, i)) + 1
      <4>1. Cardinality(Share(w, i) \union {x}) =
              IF x \in Share(w, i) THEN Cardinality(Share(w, i)) ELSE Cardinality(Share(w, i)) + 1
        BY <2>1, FS_AddElement
      <4> QED BY <2>1, <3>1, <4>1
    <3> QED BY <1>1, <2>1, <2>2, <2>3, <2>4, <3>2
  <2>5. CASE i # f.pool
    <3>1. Share(w, i)' = Share(w, i)
      BY <1>2, <2>5 DEF Share
    <3> QED BY <2>2, <2>5, <3>1
  <2> QED BY <2>4, <2>5
<1> QED BY <1>3, <1>4, <1>5, <1>6 DEF Counts

LEMMA CountInvStep == TypeInv /\ CountInv /\ [Next]_vars => CountInv'
<1> SUFFICES ASSUME TypeInv, CountInv, [Next]_vars, NEW v \in Workers PROVE Counts(v)'
  BY DEF CountInv
<1> USE DEF TypeInv, TypeOK
<1>a. Counts(v)
  BY DEF CountInv
<1>b. <<>> \in Seq(Pool)
  OBVIOUS
<1>1. ASSUME NEW w \in Workers, CallStep(w) PROVE Counts(v)'
  <2>1. CASE NextPool(w)
    <3>1. CASE v = w
      BY <1>a, <2>1, <3>1, NextPoolCount
    <3>2. CASE v # w
      BY <1>a, <2>1, <3>2, QuietCount DEF NextPool
    <3> QED BY <3>1, <3>2
  <2>2. CASE ReadBusyBanks(w)
    BY <1>a, <2>2, QuietCount DEF ReadBusyBanks, Frame
  <2>3. CASE NextPass(w)
    <3>1. PICK pass \in frame[w].passes :
            frame' = [frame EXCEPT ![w].passes = @ \ {pass}, ![w].banks = pass.banks,
                                   ![w].attempts = 0]
      BY <2>3 DEF NextPass
    <3>2. /\ frame'[v].pools = frame[v].pools /\ frame'[v].pool = frame[v].pool
          /\ frame'[v].quota = frame[v].quota
      BY <3>1 DEF Frame
    <3> QED BY <1>a, <2>3, <3>2, QuietCount DEF NextPass
  <2>4. CASE EndPool(w) \/ EndSearch(w) \/ ClaimWins(w) \/ ClaimLoses(w)
    BY <1>a, <2>4, QuietCount DEF EndPool, EndSearch, ClaimWins, ClaimLoses
  <2>5. CASE SearchCandidates(w)
    BY <1>a, <2>5, QuietCount DEF SearchCandidates, Frame
  <2>6. CASE EndHits(w)
    BY <1>a, <2>6, QuietCount DEF EndHits
  <2>7. CASE ClaimAnswered(w)
    <3>1. CASE v = w
      BY <1>a, <2>7, <3>1, AnsweredCount
    <3>2. CASE v # w
      BY <1>a, <2>7, <3>2, QuietCount DEF ClaimAnswered
    <3> QED BY <3>1, <3>2
  <2>8. CASE ReturnClaimed(w)
    <3>1. CASE v = w
      BY <1>b, <2>8, <3>1, FreshCount DEF ReturnClaimed, IdleFrame, NewFrame
    <3>2. CASE v # w
      BY <1>a, <2>8, <3>2, QuietCount DEF ReturnClaimed
    <3> QED BY <3>1, <3>2
  <2> QED BY <1>1, <2>1, <2>2, <2>3, <2>4, <2>5, <2>6, <2>7, <2>8 DEF CallStep
<1>2. ASSUME NEW w \in Workers, Fault(w) PROVE Counts(v)'
  <2>1. CASE AnswerTimesOut(w)
    BY <1>a, <2>1, QuietCount DEF AnswerTimesOut
  <2>2. CASE CallRaises(w) \/ Crash(w)
    <3>1. CASE v = w
      <4>1. claimed'[w] = {} /\ frame'[w] = IdleFrame
        BY <2>2 DEF CallRaises, Crash, AbandonCall
      <4>2. frame'[w].pool = 0 /\ frame'[w].pools = <<>>
        BY <4>1 DEF IdleFrame, NewFrame
      <4> QED BY <1>b, <3>1, <4>1, <4>2, FreshCount
    <3>2. CASE v # w
      BY <1>a, <2>2, <3>2, QuietCount DEF CallRaises, Crash, AbandonCall
    <3> QED BY <3>1, <3>2
  <2> QED BY <1>2, <2>1, <2>2 DEF Fault
<1>3. ASSUME NEW w \in Workers, NEW pools \in PoolChoices, StartClaim(w, pools) PROVE Counts(v)'
  <2>1. CASE v = w
    <3>1. claimed'[v] = {}
      BY <1>a, <1>3, <2>1 DEF StartClaim, Counts
    <3> QED BY <1>3, <2>1, <3>1, FreshCount, CallAssumption DEF StartClaim, NewFrame
  <2>2. CASE v # w
    BY <1>a, <1>3, <2>2, QuietCount DEF StartClaim
  <2> QED BY <2>1, <2>2
<1>4. ASSUME UNCHANGED <<pc, frame, claimed>> PROVE Counts(v)'
  BY <1>a, <1>4, QuietCount
<1>5. ASSUME NEW w \in Workers, NEW t \in Tasks, CompleteTask(w, t) \/ RetryLater(w, t)
      PROVE  Counts(v)'
  BY <1>4, <1>5 DEF CompleteTask, RetryLater
<1>6. ASSUME NEW t \in Tasks, TaskStep(t) PROVE Counts(v)'
  BY <1>4, <1>6
  DEF TaskStep, InsertTask, DeleteOperation, CancelOperation, RetryRipens, callVars
<1>7. CASE Refresh \/ UNCHANGED vars
  BY <1>4, <1>7 DEF Refresh, callVars, vars
<1> QED BY <1>1, <1>2, <1>3, <1>5, <1>6, <1>7 DEF Next

\* A call never claims more in one pool than that pool's limit.
THEOREM TaskQueueLimitsRespected == Spec => []LimitsRespected
<1>1. Init => CountInv
  <2> SUFFICES ASSUME Init, NEW w \in Workers PROVE Counts(w)
    BY DEF CountInv
  <2>1. claimed[w] = {} /\ frame[w].pools = <<>> /\ frame[w].pool = 0
    BY DEF Init, IdleFrame, NewFrame
  <2>2. Len(frame[w].pools) = 0
    BY <2>1
  <2> QED BY <2>1, <2>2, FS_EmptySet DEF Counts
<1>2. TypeInv /\ CountInv => LimitsRespected
  <2> SUFFICES ASSUME TypeInv, CountInv, NEW w \in Workers, NEW i \in 1..Len(frame[w].pools)
               PROVE  Cardinality(Share(w, i)) <= frame[w].pools[i].limit
    BY DEF LimitsRespected, Share
  <2>1. frame[w].pools \in Seq(Pool) /\ frame[w].quota \in Nat
    BY DEF TypeInv, TypeOK, Frame
  <2>2. frame[w].pools[i] \in Pool
    BY <2>1
  <2>3. frame[w].pools[i].limit \in Nat
    BY <2>2 DEF Pool
  <2>4. Counts(w)
    BY DEF CountInv
  <2>5. Cardinality(Share(w, i)) \in Nat
    BY <2>4, ShareIsFinite DEF Counts
  <2>6. Cardinality(Share(w, i)) + (IF i = frame[w].pool THEN frame[w].quota ELSE 0)
          <= frame[w].pools[i].limit
    BY <2>4 DEF Counts
  <2> QED BY <2>1, <2>3, <2>5, <2>6
<1> QED BY <1>1, <1>2, InitType, TypeInvStep, CountInvStep, PTL DEF Spec

-----------------------------------------------------------------------------
(* The pools of a call keep the banks serial among themselves. *)

Consolidates(t) == TaskType[t] = Consolidation

\* the phases in which the current pool has looked up what it must know
Matching == {"pass", "search", "try", "wait"}

ClaimsConsolidations(f) == Consolidation \in f.pools[f.pool].types

\* What was claimed can be searched as it is, and an applied update is the
\* one of its hit.
SeenInv ==
  \A w \in Workers :
    /\ \A c \in claimed[w] :
         HasStatus(live, c.task, "processing") => snap[c.task] = live[c.task]
    /\ \A h, g \in hits[w] : h.id = g.id => h = g
    /\ pc[w] = "wait" =>
         \A h \in hits[w] : IsFirst(h, w) /\ HasStatus(live, h.id, "processing")
                              => live[h.id].seq = h.seq + 1

\* A pool that may claim consolidations knows the banks that its call has made
\* busy in other pools, and tries no hit of a busy bank.
SerialInv ==
  \A w \in Workers :
    /\ pc[w] \in Matching /\ ClaimsConsolidations(frame[w]) =>
         \A c \in claimed[w] :
           /\ Consolidates(c.task) /\ c.pool # frame[w].pool
           /\ HasStatus(live, c.task, "processing")
           => TaskBank[c.task] \in frame[w].busy
    /\ pc[w] \in {"try", "wait"} =>
         \A h \in hits[w] : Consolidates(h.id) =>
           ClaimsConsolidations(frame[w]) /\ TaskBank[h.id] \notin frame[w].busy

\* What the steps of everybody leave of a call.
LEMMA CallMoves ==
  ASSUME TypeInv, [Next]_vars, NEW w \in Workers
  PROVE  /\ ClaimAnswered(w) \/ claimed'[w] \subseteq claimed[w]
         /\ SearchCandidates(w) \/ hits'[w] \subseteq hits[w]
         /\ pc'[w] = "wait" => ClaimWins(w) \/ (pc[w] = "wait" /\ hits'[w] = hits[w])
         /\ pc'[w] \in {"try", "wait"} => SearchCandidates(w) \/ pc[w] \in {"try", "wait"}
         /\ pc'[w] \in Matching =>
              \/ NextPool(w) \/ ReadBusyBanks(w)
              \/ /\ pc[w] \in Matching /\ frame'[w].pools = frame[w].pools
                 /\ frame'[w].pool = frame[w].pool /\ frame'[w].busy = frame[w].busy
         /\ UNCHANGED snap \/ (snap' = live /\ UNCHANGED live)
<1> DEFINE Goal ==
         /\ ClaimAnswered(w) \/ claimed'[w] \subseteq claimed[w]
         /\ SearchCandidates(w) \/ hits'[w] \subseteq hits[w]
         /\ pc'[w] = "wait" => ClaimWins(w) \/ (pc[w] = "wait" /\ hits'[w] = hits[w])
         /\ pc'[w] \in {"try", "wait"} => SearchCandidates(w) \/ pc[w] \in {"try", "wait"}
         /\ pc'[w] \in Matching =>
              \/ NextPool(w) \/ ReadBusyBanks(w)
              \/ /\ pc[w] \in Matching /\ frame'[w].pools = frame[w].pools
                 /\ frame'[w].pool = frame[w].pool /\ frame'[w].busy = frame[w].busy
         /\ UNCHANGED snap \/ (snap' = live /\ UNCHANGED live)
<1> USE DEF TypeInv, TypeOK, Matching
<1>1. ASSUME \/ UNCHANGED snap \/ (snap' = live /\ UNCHANGED live),
             UNCHANGED <<pc[w], hits[w], claimed[w], frame[w]>>
      PROVE  Goal
  BY <1>1
<1>2. ASSUME NEW v \in Workers, CallStep(v) PROVE Goal
  <2>1. CASE NextPool(v)
    BY <2>1 DEF NextPool
  <2>2. CASE ReadBusyBanks(v)
    BY <2>2 DEF ReadBusyBanks
  <2>3. CASE NextPass(v)
    <3>1. PICK pass \in frame[v].passes :
            frame' = [frame EXCEPT ![v].passes = @ \ {pass}, ![v].banks = pass.banks,
                                   ![v].attempts = 0]
      BY <2>3 DEF NextPass
    <3>2. /\ frame'[w].pools = frame[w].pools /\ frame'[w].pool = frame[w].pool
          /\ frame'[w].busy = frame[w].busy
      BY <3>1 DEF Frame
    <3> QED BY <2>3, <3>2 DEF NextPass
  <2>4. CASE EndPool(v) \/ EndSearch(v) \/ EndHits(v)
    BY <2>4 DEF EndPool, EndSearch, EndHits
  <2>5. CASE SearchCandidates(v)
    <3>1. /\ frame'[w].pools = frame[w].pools /\ frame'[w].pool = frame[w].pool
          /\ frame'[w].busy = frame[w].busy
      BY <2>5 DEF SearchCandidates, Frame
    <3> QED BY <2>5, <3>1 DEF SearchCandidates
  <2>6. CASE ClaimWins(v) \/ ClaimLoses(v)
    BY <2>6 DEF ClaimWins, ClaimLoses
  <2>7. CASE ClaimAnswered(v)
    <3>1. /\ frame'[w].pools = frame[w].pools /\ frame'[w].pool = frame[w].pool
          /\ frame'[w].busy = frame[w].busy
      BY <2>7 DEF ClaimAnswered, CountRow, Frame
    <3> QED BY <2>7, <3>1 DEF ClaimAnswered
  <2>8. CASE ReturnClaimed(v)
    BY <2>8 DEF ReturnClaimed
  <2> QED BY <1>2, <2>1, <2>2, <2>3, <2>4, <2>5, <2>6, <2>7, <2>8 DEF CallStep
<1>3. ASSUME NEW v \in Workers, Fault(v) PROVE Goal
  BY <1>3 DEF Fault, AnswerTimesOut, CallRaises, Crash, AbandonCall
<1>4. ASSUME NEW v \in Workers, NEW pools \in PoolChoices, StartClaim(v, pools) PROVE Goal
  BY <1>4 DEF StartClaim
<1>5. ASSUME NEW v \in Workers, NEW t \in Tasks, CompleteTask(v, t) \/ RetryLater(v, t)
      PROVE  Goal
  BY <1>1, <1>5 DEF CompleteTask, RetryLater
<1>6. ASSUME NEW t \in Tasks, TaskStep(t) PROVE Goal
  BY <1>1, <1>6
  DEF TaskStep, InsertTask, DeleteOperation, CancelOperation, RetryRipens, callVars
<1>7. CASE Refresh \/ UNCHANGED vars
  BY <1>1, <1>7 DEF Refresh, callVars, vars
<1> QED BY <1>2, <1>3, <1>4, <1>5, <1>6, <1>7 DEF Next

\* A task that somebody owns is not written to stay in processing.
LEMMA TakenStays ==
  ASSUME TypeInv, HitsInv, OwnInv, [Next]_vars, NEW w \in Workers, NEW t \in Calling(w),
         HasStatus(live', t, "processing")
  PROVE  live'[t] = live[t] /\ HasStatus(live, t, "processing")
<1>1. t \in Tasks /\ Taken(t)
  BY DEF OwnInv, TypeInv, TypeOK, Calling, ClaimedIds, InFlight, Hits
<1>2. live'[t] = live[t]
  BY <1>1, ClaimsWereDue DEF Due, Taken
<1> QED BY <1>2 DEF HasStatus, Exists

LEMMA SeenInvStep ==
  TypeInv /\ HitsInv /\ OwnInv /\ SeenInv /\ [Next]_vars => SeenInv'
<1> SUFFICES ASSUME TypeInv, HitsInv, OwnInv, SeenInv, [Next]_vars, NEW w \in Workers
             PROVE  /\ \A c \in claimed'[w] :
                         HasStatus(live', c.task, "processing") => snap'[c.task] = live'[c.task]
                    /\ \A h, g \in hits'[w] : h.id = g.id => h = g
                    /\ pc'[w] = "wait" =>
                         \A h \in hits'[w] :
                           IsFirst(h, w)' /\ HasStatus(live', h.id, "processing")
                             => live'[h.id].seq = h.seq + 1
  BY DEF SeenInv
<1> USE DEF TypeInv, TypeOK
<1>1. ASSUME NEW c \in claimed'[w], HasStatus(live', c.task, "processing")
      PROVE  snap'[c.task] = live'[c.task]
  <2>1. CASE c \in claimed[w]
    <3>1. c.task \in Calling(w)
      BY <2>1 DEF Calling, ClaimedIds
    <3>2. live'[c.task] = live[c.task] /\ snap[c.task] = live[c.task]
      BY <1>1, <2>1, <3>1, TakenStays DEF SeenInv
    <3> QED BY <3>2, CallMoves
  <2>2. CASE c \notin claimed[w]
    <3>1. ClaimAnswered(w)
      BY <1>1, <2>2, CallMoves
    <3>2. PICK hit \in hits[w] :
            /\ IsFirst(hit, w) /\ IsRefreshed(hit)
            /\ claimed' = [claimed EXCEPT ![w] =
                             @ \union {[task |-> hit.id, pool |-> frame[w].pool]}]
      BY <3>1 DEF ClaimAnswered
    <3>3. c.task = hit.id /\ hit.id \in Tasks /\ hit.seq \in Nat
      BY <1>1, <2>2, <3>2 DEF Hits
    <3>4. pc[w] = "wait" /\ UNCHANGED <<live, snap>>
      BY <3>1 DEF ClaimAnswered
    <3>5. live[hit.id].seq = hit.seq + 1
      BY <1>1, <3>2, <3>3, <3>4 DEF SeenInv
    <3>6. /\ snap[hit.id].seq \in Nat /\ snap[hit.id].seq >= hit.seq + 1
          /\ snap[hit.id].seq <= live[hit.id].seq
      BY <3>2, <3>3 DEF IsRefreshed, Searchable, Copies, HitsInv, SnapIsOld
    <3>7. snap[hit.id].seq = live[hit.id].seq
      BY <3>3, <3>5, <3>6
    <3> QED BY <3>3, <3>4, <3>7 DEF HitsInv, SnapIsOld
  <2> QED BY <2>1, <2>2
<1>2. ASSUME NEW h \in hits'[w], NEW g \in hits'[w], h.id = g.id PROVE h = g
  <2>1. CASE hits'[w] \subseteq hits[w]
    BY <1>2, <2>1 DEF SeenInv
  <2>2. CASE SearchCandidates(w)
    <3> DEFINE found == Oldest(2 * frame[w].quota, Candidates(w))
    <3>1. hits'[w] = {[id |-> t, seq |-> snap[t].seq] : t \in found}
      BY <2>2 DEF SearchCandidates
    <3> HIDE DEF found
    <3> QED BY <1>2, <3>1
  <2> QED BY <2>1, <2>2, CallMoves
<1>3. ASSUME pc'[w] = "wait", NEW h \in hits'[w], IsFirst(h, w)',
             HasStatus(live', h.id, "processing")
      PROVE  live'[h.id].seq = h.seq + 1
  <2>1. CASE pc[w] = "wait" /\ hits'[w] = hits[w]
    <3>1. h \in hits[w] /\ IsFirst(h, w)
      BY <1>3, <2>1 DEF IsFirst
    <3>2. h.id \in Calling(w)
      BY <2>1, <3>1 DEF Calling, InFlight
    <3>3. live'[h.id] = live[h.id] /\ HasStatus(live, h.id, "processing")
      BY <1>3, <3>2, TakenStays
    <3> QED BY <2>1, <3>1, <3>3 DEF SeenInv
  <2>2. CASE ClaimWins(w)
    <3>1. PICK hit \in hits[w] : /\ IsFirst(hit, w) /\ Unchanged(live, hit)
                                 /\ live' = ClaimedBy(live, hit.id, w)
      BY <2>2 DEF ClaimWins, MayClaim
    <3>2. UNCHANGED hits
      BY <2>2 DEF ClaimWins
    <3>3. h.id \in Tasks /\ hit.id \in Tasks
      BY <3>2 DEF Hits
    <3>4. h.id <= hit.id /\ hit.id <= h.id
      BY <1>3, <3>1, <3>2 DEF IsFirst
    <3>5. Tasks \subseteq Nat
      BY TaskAssumption
    <3>6. h.id \in Nat /\ hit.id \in Nat
      BY <3>3, <3>5
    <3>7. h.id = hit.id
      BY ONLY <3>4, <3>6
    <3>8. h = hit
      BY <3>2, <3>7 DEF SeenInv
    <3> QED BY <3>1, <3>3, <3>8 DEF ClaimedBy, Put, Unchanged
  <2> QED BY <1>3, <2>1, <2>2, CallMoves
<1> QED BY <1>1, <1>2, <1>3

LEMMA SerialInvStep ==
  /\ TypeInv /\ HitsInv /\ OwnInv /\ SeenInv /\ SerialInv /\ SerialAcrossPools
  /\ [Next]_vars
  => (SerialInv /\ SerialAcrossPools)'
<1> SUFFICES ASSUME TypeInv, HitsInv, OwnInv, SeenInv, SerialInv, SerialAcrossPools, [Next]_vars
             PROVE  SerialInv' /\ SerialAcrossPools'
  OBVIOUS
<1> USE DEF TypeInv, TypeOK
<1> DEFINE Same(w) == /\ pc[w] \in Matching /\ frame'[w].pools = frame[w].pools
                      /\ frame'[w].pool = frame[w].pool /\ frame'[w].busy = frame[w].busy
<1>a. ASSUME NEW w \in Workers, NEW c \in claimed[w], HasStatus(live', c.task, "processing")
      PROVE  HasStatus(live, c.task, "processing") /\ snap[c.task] = live[c.task]
  <2>1. c.task \in Calling(w)
    BY DEF Calling, ClaimedIds
  <2> QED BY <1>a, <2>1, TakenStays DEF SeenInv
<1>b. ASSUME NEW w \in Workers, NEW c \in claimed'[w], c \notin claimed[w]
      PROVE  /\ ClaimAnswered(w) /\ c.pool = frame[w].pool
             /\ \E hit \in hits[w] : c.task = hit.id
  <2>1. ClaimAnswered(w)
    BY <1>b, CallMoves
  <2>2. PICK hit \in hits[w] :
          claimed' = [claimed EXCEPT ![w] =
                        @ \union {[task |-> hit.id, pool |-> frame[w].pool]}]
    BY <2>1 DEF ClaimAnswered
  <2> QED BY <1>b, <2>1, <2>2
\* the pool knows the banks
<1>1. ASSUME NEW w \in Workers, pc'[w] \in Matching, ClaimsConsolidations(frame'[w]),
             NEW c \in claimed'[w], Consolidates(c.task), c.pool # frame'[w].pool,
             HasStatus(live', c.task, "processing")
      PROVE  TaskBank[c.task] \in frame'[w].busy
  <2>1. CASE NextPool(w)
    <3>1. frame'[w].pool = frame[w].pool + 1 /\ frame'[w].pools = frame[w].pools
      BY <2>1 DEF NextPool, Frame
    <3>2. pc'[w] # "pass"
      BY <1>1, <2>1, <3>1 DEF NextPool, ClaimsConsolidations
    <3> QED BY <1>1, <2>1, <3>2 DEF NextPool, Matching
  <2>2. CASE ReadBusyBanks(w)
    <3>1. c \in claimed[w] /\ frame'[w].busy = BusyBanks(snap)
      BY <1>1, <2>2 DEF ReadBusyBanks, Frame
    <3>2. HasStatus(snap, c.task, "processing") /\ c.task \in Tasks
      BY <1>1, <1>a, <3>1 DEF HasStatus, Exists
    <3> QED BY <1>1, <3>1, <3>2 DEF BusyBanks, BusyStatuses, HasStatus, Consolidates
  <2>3. CASE Same(w)
    <3>1. c \in claimed[w]
      BY <1>1, <1>b, <2>3
    <3>2. HasStatus(live, c.task, "processing")
      BY <1>1, <1>a, <3>1
    <3>3. ClaimsConsolidations(frame[w])
      BY <1>1, <2>3 DEF ClaimsConsolidations
    <3> QED BY <1>1, <2>3, <3>1, <3>2, <3>3 DEF SerialInv
  <2> QED BY <1>1, <2>1, <2>2, <2>3, CallMoves
\* and tries no hit of a busy one
<1>2. ASSUME NEW w \in Workers, pc'[w] \in {"try", "wait"}, NEW h \in hits'[w], Consolidates(h.id)
      PROVE  ClaimsConsolidations(frame'[w]) /\ TaskBank[h.id] \notin frame'[w].busy
  <2>a. Same(w)
    <3>1. ~NextPool(w) /\ ~ReadBusyBanks(w)
      BY <1>2 DEF NextPool, ReadBusyBanks
    <3> QED BY <1>2, <3>1, CallMoves DEF Matching
  <2>b. /\ ClaimsConsolidations(frame'[w]) <=> ClaimsConsolidations(frame[w])
        /\ frame'[w].busy = frame[w].busy
    BY <2>a DEF ClaimsConsolidations
  <2>1. CASE SearchCandidates(w)
    <3> DEFINE found == Oldest(2 * frame[w].quota, Candidates(w))
    <3>1. hits'[w] = {[id |-> t, seq |-> snap[t].seq] : t \in found}
      BY <2>1 DEF SearchCandidates
    <3>2. found \subseteq Candidates(w)
      BY DEF Oldest
    <3> HIDE DEF found
    <3>3. h.id \in Candidates(w)
      BY <3>1, <3>2
    <3> QED BY <1>2, <2>b, <3>3 DEF Candidates, ClaimsConsolidations, Consolidates
  <2>2. CASE pc[w] \in {"try", "wait"} /\ hits'[w] \subseteq hits[w]
    BY <1>2, <2>b, <2>2 DEF SerialInv
  <2> QED BY <1>2, <2>1, <2>2, CallMoves
<1>3. SerialInv'
  BY <1>1, <1>2 DEF SerialInv
<1>4. ASSUME NEW w \in Workers, NEW c \in claimed'[w], NEW d \in claimed'[w],
             Consolidates(c.task), Consolidates(d.task), TaskBank[c.task] = TaskBank[d.task],
             HasStatus(live', c.task, "processing"), HasStatus(live', d.task, "processing")
      PROVE  c.pool = d.pool
  \* a new claim and an older one
  <2>1. ASSUME NEW x \in claimed'[w], NEW y \in claimed[w], x \notin claimed[w],
               Consolidates(x.task), Consolidates(y.task), TaskBank[x.task] = TaskBank[y.task],
               HasStatus(live', y.task, "processing")
        PROVE  x.pool = y.pool
    <3>1. PICK hit \in hits[w] : x.task = hit.id
      BY <1>b, <2>1
    <3>2. pc[w] = "wait" /\ x.pool = frame[w].pool
      BY <1>b, <2>1 DEF ClaimAnswered
    <3>3. ClaimsConsolidations(frame[w]) /\ TaskBank[x.task] \notin frame[w].busy
      BY <2>1, <3>1, <3>2 DEF SerialInv
    <3>4. HasStatus(live, y.task, "processing")
      BY <1>a, <2>1
    <3> QED BY <2>1, <3>2, <3>3, <3>4 DEF SerialInv, Matching
  <2>2. CASE c \in claimed[w] /\ d \in claimed[w]
    <3>1. HasStatus(live, c.task, "processing") /\ HasStatus(live, d.task, "processing")
      BY <1>4, <1>a, <2>2
    <3> QED BY <1>4, <2>2, <3>1 DEF SerialAcrossPools, Consolidates
  <2>3. CASE c \notin claimed[w] /\ d \notin claimed[w]
    BY <1>b, <2>3
  <2> QED BY <1>4, <2>1, <2>2, <2>3
<1>5. SerialAcrossPools'
  BY <1>4 DEF SerialAcrossPools, Consolidates
<1> QED BY <1>3, <1>5

\* No call claims consolidations of one bank in two of its pools.
THEOREM TaskQueueSerialAcrossPools == Spec => []SerialAcrossPools
<1> DEFINE IInv == TypeInv /\ HitsInv /\ OwnInv /\ SeenInv /\ SerialInv /\ SerialAcrossPools
<1>1. Init => OwnInv
  BY DEF Init, OwnInv, Calling, ClaimedIds, InFlight
<1>2. Init => SeenInv /\ SerialInv /\ SerialAcrossPools
  BY DEF Init, SeenInv, SerialInv, SerialAcrossPools
<1>3. Init => IInv
  BY <1>1, <1>2, InitType, InitHits
<1>4. IInv /\ [Next]_vars => IInv'
  BY TypeInvStep, HitsInvStep, OwnInvStep, SeenInvStep, SerialInvStep
<1>5. IInv => SerialAcrossPools
  OBVIOUS
<1> HIDE DEF IInv
<1> QED BY <1>3, <1>4, <1>5, PTL DEF Spec

-----------------------------------------------------------------------------
(* The queue leases its tasks: what happens to a task, step by step. *)

\* the phases of the tasks, and the leases, as Leases sees them
PhaseOf == [t \in Tasks |-> Phase(t)]
Leased == [w \in Workers |-> Minds(w)]

\* The mapping in the words of the invariants.
LEMMA LeasesAre ==
  /\ [t \in Tasks |-> Phase(t)] = PhaseOf /\ [t \in Tasks |-> Phase(t)'] = PhaseOf'
  /\ [w \in Workers |-> Owned(w) \union InFlight(w)] = Leased
  /\ [w \in Workers |-> Owned(w)' \union InFlight(w)'] = Leased'
<1>1. \A w : Owned(w) \union InFlight(w) = Minds(w) /\ Owned(w)' \union InFlight(w)' = Minds(w)'
  BY DEF Owned, Minds, Calling
<1> QED BY <1>1 DEF PhaseOf, Leased

\* Only what was written exists.
WrittenInv == \A t \in Tasks : Exists(live, t) => Used(live, t)

\* A step writes one task or none.
LEMMA LiveMoves ==
  ASSUME TypeInv, [Next]_vars
  PROVE  UNCHANGED live \/ \E t \in Tasks : \E doc : live' = Put(live, t, doc)
<1> USE DEF TypeInv, TypeOK
<1>1. ASSUME NEW w \in Workers, ClaimWins(w)
      PROVE  \E t \in Tasks : \E doc : live' = Put(live, t, doc)
  BY <1>1 DEF ClaimWins, ClaimedBy, Hits
<1>2. ASSUME NEW w \in Workers, CallStep(w), ~ClaimWins(w) PROVE UNCHANGED live
  BY <1>2 DEF CallStep, NextPool, ReadBusyBanks, NextPass, EndPool, SearchCandidates, EndSearch,
              ClaimLoses, ClaimAnswered, EndHits, ReturnClaimed
<1>3. ASSUME NEW w \in Workers, Fault(w) PROVE UNCHANGED live
  BY <1>3 DEF Fault, AnswerTimesOut, CallRaises, Crash
<1>4. ASSUME NEW w \in Workers, NEW pools \in PoolChoices, StartClaim(w, pools)
      PROVE  UNCHANGED live
  BY <1>4 DEF StartClaim
<1>5. Refresh \/ UNCHANGED vars => UNCHANGED live
  BY DEF Refresh, vars
<1>6. ASSUME NEW w \in Workers, NEW t \in Tasks, CompleteTask(w, t) \/ RetryLater(w, t)
      PROVE  UNCHANGED live \/ \E doc : live' = Put(live, t, doc)
  BY <1>6 DEF CompleteTask, RetryLater, WithStatus
<1>7. ASSUME NEW t \in Tasks, TaskStep(t)
      PROVE  UNCHANGED live \/ \E doc : live' = Put(live, t, doc)
  BY <1>7 DEF TaskStep, InsertTask, DeleteOperation, CancelOperation, RetryRipens, WithStatus
<1> QED BY <1>1, <1>2, <1>3, <1>4, <1>5, <1>6, <1>7 DEF Next

LEMMA WrittenInvStep == TypeInv /\ WrittenInv /\ [Next]_vars => WrittenInv'
<1> SUFFICES ASSUME TypeInv, WrittenInv, [Next]_vars PROVE WrittenInv'
  OBVIOUS
<1>1. CASE UNCHANGED live
  BY <1>1 DEF WrittenInv, Exists, Used
<1>2. ASSUME NEW t \in Tasks, NEW doc, live' = Put(live, t, doc) PROVE WrittenInv'
  <2>1. live'[t].seq = live[t].seq + 1 /\ live[t].seq \in Nat
        /\ \A u \in Tasks : u # t => live'[u] = live[u]
    BY <1>2 DEF Put, TypeInv, TypeOK, Copies
  <2> QED BY <2>1 DEF WrittenInv, Exists, Used
<1> QED BY <1>1, <1>2, LiveMoves

\* What a step does not write keeps its phase, but for the time that passes.
LEMMA PhaseKept ==
  ASSUME NEW t, live'[t] = live[t], ripe'[t] = ripe[t]
  PROVE  Phase(t)' = Phase(t)
BY DEF Phase, Used, HasStatus, Exists

\* A write of one task changes its phase alone.
LEMMA OnePhase ==
  ASSUME TypeInv, NEW t \in Tasks, NEW doc, live' = Put(live, t, doc), UNCHANGED ripe
  PROVE  /\ PhaseOf' = [PhaseOf EXCEPT ![t] = Phase(t)']
         /\ doc # Missing /\ doc.status = "processing" => Phase(t)' = "leased"
         /\ doc = Missing \/ doc.status \in {"completed", "cancelled"} => Phase(t)' = "ended"
         /\ doc # Missing /\ doc.status = "pending" => Phase(t)' \in {"open", "later"}
<1>1. \A u \in Tasks : u # t => live'[u] = live[u]
  BY DEF Put, TypeInv, TypeOK
<1>2. \A u \in Tasks : u # t => Phase(u)' = Phase(u)
  BY <1>1, PhaseKept
<1>3. live'[t].doc = doc /\ live'[t].seq = live[t].seq + 1 /\ live[t].seq \in Nat
  BY DEF Put, TypeInv, TypeOK, Copies
<1>4. Used(live', t) /\ \A s : HasStatus(live', t, s) <=> doc # Missing /\ doc.status = s
  BY <1>3 DEF Used, HasStatus, Exists
<1>5. PhaseOf' = [PhaseOf EXCEPT ![t] = Phase(t)']
  BY <1>2 DEF PhaseOf
<1> QED BY <1>4, <1>5 DEF Phase

\* A step in which only w moves changes the leases of w alone.
LEMMA OneLessee ==
  ASSUME NEW w \in Workers,
         \A v \in Workers \ {w} : /\ claimed'[v] = claimed[v] /\ hits'[v] = hits[v]
                                  /\ pc'[v] = pc[v] /\ held'[v] = held[v]
  PROVE  Leased' = [Leased EXCEPT ![w] = Minds(w)']
<1>1. \A v \in Workers \ {w} : Minds(v)' = Minds(v)
  BY DEF Minds, Calling, ClaimedIds, InFlight, IsFirst
<1> QED BY <1>1 DEF Leased

\* A step that leaves the calls alone leaves the leases.
LEMMA NoLessee ==
  ASSUME UNCHANGED <<claimed, hits, pc, held>>
  PROVE  Leased' = Leased
<1>1. \A v \in Workers : Minds(v)' = Minds(v)
  BY DEF Minds, Calling, ClaimedIds, InFlight, IsFirst
<1> QED BY <1>1 DEF Leased

\* Neither a lease nor a task has changed.
LEMMA QuietLease ==
  ASSUME UNCHANGED <<live, ripe, faults>>, Leased' = Leased
  PROVE  UNCHANGED L!vars
<1>1. PhaseOf' = PhaseOf
  BY PhaseKept DEF PhaseOf
<1> QED BY <1>1, LeasesAre DEF L!vars

\* The hits that come first are of one task.
LEMMA FirstIsOne ==
  ASSUME TypeInv, NEW w \in Workers, NEW hit \in hits[w], IsFirst(hit, w)
  PROVE  {h.id : h \in {g \in hits[w] : IsFirst(g, w)}} = {hit.id}
<1>1. ASSUME NEW h \in hits[w], IsFirst(h, w) PROVE h.id = hit.id
  <2>1. h.id \in Tasks /\ hit.id \in Tasks /\ Tasks \subseteq Nat
    BY TaskAssumption DEF Hits, TypeInv, TypeOK
  <2>2. h.id \in Nat /\ hit.id \in Nat
    BY <2>1
  <2>3. h.id <= hit.id /\ hit.id <= h.id
    BY <1>1 DEF IsFirst
  <2> QED BY ONLY <2>2, <2>3
<1> QED BY <1>1

\* The steps of a call lease a task or nothing.
LEMMA CallStepLeases ==
  ASSUME TypeInv, HitsInv, WrittenInv, NEW w \in Workers, CallStep(w)
  PROVE  [L!Next]_(L!vars)
<1> USE DEF TypeInv, TypeOK
<1>1. CASE NextPool(w) \/ ReadBusyBanks(w) \/ NextPass(w) \/ EndPool(w)
           \/ SearchCandidates(w) \/ EndSearch(w) \/ ClaimLoses(w) \/ EndHits(w)
  <2>1. Minds(w)' = Minds(w)
    BY <1>1 DEF NextPool, ReadBusyBanks, NextPass, EndPool, SearchCandidates, EndSearch,
                ClaimLoses, EndHits, Minds, Calling, ClaimedIds, InFlight
  <2>2. Leased' = [Leased EXCEPT ![w] = Minds(w)']
    BY <1>1, OneLessee
       DEF NextPool, ReadBusyBanks, NextPass, EndPool, SearchCandidates, EndSearch, ClaimLoses, EndHits
  <2>3. Leased' = Leased
    BY <2>1, <2>2 DEF Leased
  <2> QED BY <1>1, <2>3, QuietLease
          DEF NextPool, ReadBusyBanks, NextPass, EndPool, SearchCandidates, EndSearch, ClaimLoses, EndHits
<1>2. CASE ClaimAnswered(w)
  <2>1. PICK hit \in hits[w] : /\ IsFirst(hit, w)
                               /\ claimed' = [claimed EXCEPT ![w] =
                                    @ \union {[task |-> hit.id, pool |-> frame[w].pool]}]
    BY <1>2 DEF ClaimAnswered
  <2>2. ClaimedIds(w)' = ClaimedIds(w) \union {hit.id}
    <3> DEFINE c == [task |-> hit.id, pool |-> frame[w].pool]
    <3>1. claimed'[w] = claimed[w] \union {c} /\ c.task = hit.id
      BY <2>1
    <3> HIDE DEF c
    <3> QED BY <3>1, Zenon DEF ClaimedIds
  <2>3. InFlight(w) = {hit.id} /\ InFlight(w)' = {} /\ UNCHANGED held
    BY <1>2, <2>1, FirstIsOne DEF ClaimAnswered, InFlight
  <2>4. Minds(w)' = Minds(w)
    BY <2>2, <2>3 DEF Minds, Calling
  <2>5. Leased' = [Leased EXCEPT ![w] = Minds(w)']
    BY <1>2, OneLessee DEF ClaimAnswered
  <2>6. Leased' = Leased
    BY <2>4, <2>5 DEF Leased
  <2> QED BY <1>2, <2>6, QuietLease DEF ClaimAnswered
<1>3. CASE ReturnClaimed(w)
  <2>1. pc[w] = "pool" /\ pc'[w] = "idle" /\ claimed'[w] = {} /\ held'[w] = held[w] \union ClaimedIds(w)
    BY <1>3 DEF ReturnClaimed
  <2>2. InFlight(w) = {} /\ InFlight(w)' = {} /\ ClaimedIds(w)' = {}
    BY <2>1 DEF InFlight, ClaimedIds
  <2>3. Minds(w)' = Minds(w)
    BY <2>1, <2>2 DEF Minds, Calling
  <2>4. Leased' = [Leased EXCEPT ![w] = Minds(w)']
    BY <1>3, OneLessee DEF ReturnClaimed
  <2>5. Leased' = Leased
    BY <2>3, <2>4 DEF Leased
  <2> QED BY <1>3, <2>5, QuietLease DEF ReturnClaimed
<1>4. CASE ClaimWins(w)
  <2>1. PICK hit \in hits[w] : /\ IsFirst(hit, w) /\ Unchanged(live, hit)
                               /\ live' = ClaimedBy(live, hit.id, w)
    BY <1>4 DEF ClaimWins, MayClaim
  <2> DEFINE t == hit.id
             doc == [live[t].doc EXCEPT !.status = "processing", !.worker = w]
  <2>2. t \in Tasks /\ live[t].doc \in TaskDocs /\ live' = Put(live, t, doc)
    BY <2>1 DEF Hits, Unchanged, Exists, Copies, ClaimedBy
  <2>3. doc # Missing /\ doc.status = "processing"
    <3>1. doc \in TaskDocs
      BY <2>2 DEF TaskDocs, Statuses
    <3> QED BY <2>2, <3>1, TaskAssumption DEF TaskDocs
  <2>4. /\ pc[w] = "try" /\ pc' = [pc EXCEPT ![w] = "wait"]
        /\ UNCHANGED <<hits, claimed, held, faults, ripe>>
    BY <1>4 DEF ClaimWins
  <2>5. PhaseOf' = [PhaseOf EXCEPT ![t] = "leased"]
    <3> HIDE DEF doc, t
    <3> QED BY <2>2, <2>3, <2>4, OnePhase
  <2>6. Phase(t) = "open"
    <3>1. Due(t)
      BY <2>1 DEF HitsInv, HitsAreFresh, Unchanged
    <3>2. Used(live, t)
      BY <2>2, <3>1 DEF WrittenInv, Due, HasStatus
    <3> QED BY <3>1, <3>2 DEF Due, Phase, HasStatus
  <2>7. InFlight(w)' = {t} /\ InFlight(w) = {} /\ ClaimedIds(w)' = ClaimedIds(w)
    <3>1. {h.id : h \in {g \in hits[w] : IsFirst(g, w)}} = {t}
      BY <2>1, FirstIsOne
    <3>2. InFlight(w)' = {h.id : h \in {g \in hits[w] : IsFirst(g, w)}}
      BY <2>4 DEF InFlight, IsFirst
    <3> QED BY <2>4, <3>1, <3>2 DEF InFlight, ClaimedIds
  <2>8. Minds(w)' = Minds(w) \union {t}
    BY <2>4, <2>7 DEF Minds, Calling
  <2>9. Leased' = [Leased EXCEPT ![w] = @ \union {t}]
    <3>1. Leased' = [Leased EXCEPT ![w] = Minds(w)']
      BY <2>4, OneLessee
    <3> QED BY <2>8, <3>1 DEF Leased
  <2> HIDE DEF t
  <2>10. L!Lease(w, t)
    BY <2>2, <2>4, <2>5, <2>6, <2>9, LeasesAre DEF L!Lease
  <2> QED BY <2>2, <2>10 DEF L!Next
<1> QED BY <1>1, <1>2, <1>3, <1>4 DEF CallStep

\* What a call has still to try it has not claimed.
ApartInv ==
  \A w \in Workers : \A h \in hits[w] :
    /\ h.id \notin ClaimedIds(w)
    /\ \A g \in hits[w] : g.id = h.id => g = h

\* A step after which w has fewer hits and claims.
LEMMA ApartStays ==
  ASSUME TypeInv, ApartInv, NEW w \in Workers,
         \A v \in Workers \ {w} : hits'[v] = hits[v] /\ claimed'[v] = claimed[v],
         hits'[w] \subseteq hits[w], claimed'[w] \subseteq claimed[w]
  PROVE  ApartInv'
<1>1. \A v \in Workers : hits'[v] \subseteq hits[v] /\ ClaimedIds(v)' \subseteq ClaimedIds(v)
  BY DEF ClaimedIds
<1> QED BY <1>1 DEF ApartInv

LEMMA ApartInvStep == TypeInv /\ ApartInv /\ [Next]_vars => ApartInv'
<1> SUFFICES ASSUME TypeInv, ApartInv, [Next]_vars PROVE ApartInv'
  OBVIOUS
<1> USE DEF TypeInv, TypeOK
<1>1. ASSUME NEW w \in Workers, CallStep(w) PROVE ApartInv'
  <2>1. CASE NextPool(w) \/ ReadBusyBanks(w) \/ NextPass(w) \/ EndPool(w) \/ EndSearch(w)
             \/ ClaimWins(w)
    BY <2>1, ApartStays DEF NextPool, ReadBusyBanks, NextPass, EndPool, EndSearch, ClaimWins
  <2>2. CASE ClaimLoses(w) \/ EndHits(w) \/ ReturnClaimed(w)
    BY <2>2, ApartStays DEF ClaimLoses, EndHits, ReturnClaimed
  <2>3. CASE SearchCandidates(w)
    <3> DEFINE found == Oldest(2 * frame[w].quota, Candidates(w))
    <3>1. \A t \in found : t \notin ClaimedIds(w)
      BY DEF Oldest, Candidates
    <3> HIDE DEF found
    <3>2. hits'[w] = {[id |-> t, seq |-> snap[t].seq] : t \in found} /\ UNCHANGED claimed
      BY <2>3 DEF SearchCandidates, found
    <3>3. \A v \in Workers \ {w} : hits'[v] = hits[v]
      BY <2>3 DEF SearchCandidates
    <3>4. \A v \in Workers : ClaimedIds(v)' = ClaimedIds(v)
      BY <3>2 DEF ClaimedIds
    <3> QED BY <3>1, <3>2, <3>3, <3>4 DEF ApartInv
  <2>4. CASE ClaimAnswered(w)
    <3>1. PICK hit \in hits[w] : /\ hits' = [hits EXCEPT ![w] = @ \ {hit}]
                                 /\ claimed' = [claimed EXCEPT ![w] =
                                      @ \union {[task |-> hit.id, pool |-> frame[w].pool]}]
      BY <2>4 DEF ClaimAnswered
    <3>2. ClaimedIds(w)' = ClaimedIds(w) \union {hit.id}
      <4> DEFINE c == [task |-> hit.id, pool |-> frame[w].pool]
      <4>1. claimed'[w] = claimed[w] \union {c} /\ c.task = hit.id
        BY <3>1
      <4> HIDE DEF c
      <4> QED BY <4>1, Zenon DEF ClaimedIds
    <3>3. hits'[w] = hits[w] \ {hit}
      BY <3>1
    <3>4. \A v \in Workers \ {w} : hits'[v] = hits[v] /\ ClaimedIds(v)' = ClaimedIds(v)
      BY <3>1 DEF ClaimedIds
    <3> QED BY <3>2, <3>3, <3>4 DEF ApartInv
  <2> QED BY <1>1, <2>1, <2>2, <2>3, <2>4 DEF CallStep
<1>2. ASSUME NEW w \in Workers, Fault(w) PROVE ApartInv'
  BY <1>2, ApartStays DEF Fault, AnswerTimesOut, CallRaises, Crash, AbandonCall
<1>3. CASE UNCHANGED <<hits, claimed>>
  BY <1>3 DEF ApartInv, ClaimedIds
<1> QED BY <1>1, <1>2, <1>3 DEF Next, StartClaim, CompleteTask, RetryLater, TaskStep, InsertTask,
          DeleteOperation, CancelOperation, RetryRipens, Refresh, vars, callVars

\* A fault loses the leases that it takes from a worker.
LEMMA FaultLoses ==
  ASSUME TypeInv, OwnInv, ApartInv, NEW w \in Workers, Fault(w)
  PROVE  L!Next
<1> USE DEF TypeInv, TypeOK
<1>1. ASSUME NEW kind, NEW tasks, Fails(kind, tasks)
      PROVE  FaultKinds # {} /\ faults'.lost = faults.lost \union tasks
  BY <1>1 DEF Fails
<1>2. UNCHANGED <<live, ripe>> /\ Leased' = [Leased EXCEPT ![w] = Minds(w)']
  <2>1. UNCHANGED <<live, ripe>>
    BY DEF Fault, AnswerTimesOut, CallRaises, Crash
  <2>2. Leased' = [Leased EXCEPT ![w] = Minds(w)']
    BY OneLessee DEF Fault, AnswerTimesOut, CallRaises, Crash, AbandonCall
  <2> QED BY <2>1, <2>2
<1>3. \E tasks \in SUBSET Minds(w) :
        /\ FaultKinds # {} /\ faults'.lost = faults.lost \union tasks
        /\ Minds(w)' = Minds(w) \ tasks
  <2>1. CASE AnswerTimesOut(w)
    <3>1. ClaimedIds(w)' = ClaimedIds(w) /\ held'[w] = held[w] /\ InFlight(w)' = {}
      BY <2>1 DEF AnswerTimesOut, ClaimedIds, InFlight
    <3>2. InFlight(w) \intersect (held[w] \union ClaimedIds(w)) = {}
      BY DEF InFlight, ApartInv, OwnInv, Calling
    <3>3. InFlight(w) \in SUBSET Minds(w) /\ Minds(w)' = Minds(w) \ InFlight(w)
      BY <3>1, <3>2 DEF Minds, Calling
    <3> QED BY <1>1, <2>1, <3>3 DEF AnswerTimesOut
  <2>2. CASE CallRaises(w)
    <3>1. ClaimedIds(w)' = {} /\ held'[w] = held[w] /\ InFlight(w)' = {}
      BY <2>2 DEF CallRaises, AbandonCall, ClaimedIds, InFlight
    <3>2. Calling(w) \in SUBSET Minds(w) /\ Minds(w)' = Minds(w) \ Calling(w)
      BY <3>1 DEF Minds, Calling, OwnInv
    <3> QED BY <1>1, <2>2, <3>2 DEF CallRaises, Calling
  <2>3. CASE Crash(w)
    <3>1. ClaimedIds(w)' = {} /\ held'[w] = {} /\ InFlight(w)' = {}
      BY <2>3 DEF Crash, AbandonCall, ClaimedIds, InFlight
    <3>2. Minds(w)' = Minds(w) \ Minds(w)
      BY <3>1 DEF Minds, Calling
    <3>3. Minds(w) = ClaimedIds(w) \union InFlight(w) \union held[w]
      BY DEF Minds, Calling
    <3> QED BY <1>1, <2>3, <3>2, <3>3 DEF Crash
  <2> QED BY <2>1, <2>2, <2>3 DEF Fault
<1>4. PICK tasks \in SUBSET Minds(w) :
        /\ FaultKinds # {} /\ faults'.lost = faults.lost \union tasks
        /\ Minds(w)' = Minds(w) \ tasks
  BY <1>3
<1>5. Leased' = [Leased EXCEPT ![w] = @ \ tasks] /\ tasks \in SUBSET Leased[w]
  BY <1>2, <1>4 DEF Leased
<1>6. PhaseOf' = PhaseOf
  BY <1>2, PhaseKept DEF PhaseOf
<1>7. L!Lose(w, tasks)
  BY <1>4, <1>5, <1>6, LeasesAre DEF L!Lose
<1> QED BY <1>5, <1>7, LeasesAre DEF L!Next

\* Whatever happens is a step of Leases, or none.
LEMMA LeasesStep ==
  ASSUME TypeInv, HitsInv, OwnInv, WrittenInv, ApartInv, [Next]_vars
  PROVE  [L!Next]_(L!vars)
<1> USE DEF TypeInv, TypeOK
<1>1. ASSUME NEW w \in Workers, NEW pools \in PoolChoices, StartClaim(w, pools)
      PROVE  UNCHANGED L!vars
  <2>1. Minds(w)' = Minds(w)
    BY <1>1 DEF StartClaim, Minds, Calling, ClaimedIds, InFlight
  <2>2. Leased' = [Leased EXCEPT ![w] = Minds(w)']
    BY <1>1, OneLessee DEF StartClaim
  <2>3. Leased' = Leased
    BY <2>1, <2>2 DEF Leased
  <2> QED BY <1>1, <2>3, QuietLease DEF StartClaim
<1>a. ASSUME NEW t \in Tasks, NEW status \in Statuses, Exists(live, t)
      PROVE  LET doc == [live[t].doc EXCEPT !.status = status]
             IN  doc # Missing /\ doc.status = status
  <2> DEFINE doc == [live[t].doc EXCEPT !.status = status]
  <2>1. doc \in TaskDocs /\ doc.status = status
    BY <1>a DEF Exists, Copies, TaskDocs
  <2> QED BY <2>1, TaskAssumption
<1>b. ASSUME NEW w \in Workers, NEW t \in held[w], UNCHANGED <<claimed, hits, pc>>,
             held' = [held EXCEPT ![w] = @ \ {t}]
      PROVE  /\ Leased' = [Leased EXCEPT ![w] = @ \ {t}] /\ t \in Leased[w]
             /\ Taken(t) /\ t \in Tasks
  <2>1. Leased' = [Leased EXCEPT ![w] = Minds(w)']
    BY <1>b, OneLessee
  <2>2. Calling(w)' = Calling(w) /\ t \notin Calling(w)
    BY <1>b DEF Calling, ClaimedIds, InFlight, IsFirst, OwnInv
  <2>3. Minds(w)' = Minds(w) \ {t} /\ t \in Minds(w)
    BY <1>b, <2>2 DEF Minds
  <2> QED BY <2>1, <2>3 DEF Leased, OwnInv
<1>2. ASSUME NEW w \in Workers, NEW t \in Tasks, CompleteTask(w, t) PROVE L!Next
  <2>1. /\ Leased' = [Leased EXCEPT ![w] = @ \ {t}] /\ t \in Leased[w] /\ Taken(t)
        /\ UNCHANGED <<ripe, faults>>
    BY <1>2, <1>b DEF CompleteTask
  <2>2. PhaseOf' = [PhaseOf EXCEPT ![t] = "ended"]
    <3>1. CASE Exists(live, t)
      <4> DEFINE doc == [live[t].doc EXCEPT !.status = "completed"]
      <4>1. live' = Put(live, t, doc)
        BY <1>2, <3>1 DEF CompleteTask, WithStatus
      <4>2. doc.status = "completed"
        BY <1>a, <3>1 DEF Statuses
      <4> HIDE DEF doc
      <4> QED BY <2>1, <4>1, <4>2, OnePhase
    <3>2. CASE ~Exists(live, t)
      <4>1. UNCHANGED live
        BY <1>2, <3>2 DEF CompleteTask
      <4>2. PhaseOf' = PhaseOf
        BY <2>1, <4>1, PhaseKept DEF PhaseOf
      <4>3. Phase(t) = "ended"
        BY <2>1, <3>2 DEF Taken, Phase, HasStatus
      <4> QED BY <4>2, <4>3 DEF PhaseOf
    <3> QED BY <3>1, <3>2
  <2>3. L!End(w, t)
    BY <2>1, <2>2, LeasesAre DEF L!End, L!Returns
  <2> QED BY <2>3 DEF L!Next
<1>3. ASSUME NEW w \in Workers, NEW t \in Tasks, RetryLater(w, t) PROVE L!Next
  <2>1. /\ Leased' = [Leased EXCEPT ![w] = @ \ {t}] /\ t \in Leased[w]
        /\ Taken(t) /\ HasStatus(live, t, "processing") /\ UNCHANGED <<ripe, faults>>
    BY <1>3, <1>b DEF RetryLater
  <2>2. PhaseOf[t] = "leased"
    BY <2>1 DEF Taken, Phase, PhaseOf
  <2> DEFINE doc == [status |-> "pending", worker |-> NoWorker, retry |-> live[t].doc.retry + 1]
  <2>3. live' = Put(live, t, doc) /\ doc.status = "pending" /\ doc # Missing
    <3>1. live[t].doc \in TaskDocs
      BY <2>1 DEF HasStatus, Exists, Copies
    <3>2. doc \in TaskDocs
      BY <3>1 DEF TaskDocs, Statuses
    <3> QED BY <1>3, <3>2, TaskAssumption DEF RetryLater
  <2> HIDE DEF doc
  <2>4. PhaseOf' = [PhaseOf EXCEPT ![t] = "later"] \/ PhaseOf' = [PhaseOf EXCEPT ![t] = "open"]
    BY <2>1, <2>3, OnePhase
  <2>5. L!PutBack(w, t)
    BY <2>1, <2>2, <2>4, LeasesAre DEF L!PutBack, L!Returns, L!Waits
  <2> QED BY <2>5 DEF L!Next
<1>c. ASSUME UNCHANGED <<live, callVars, faults>>, NEW t \in Tasks,
             ripe' = [ripe EXCEPT ![t] = live[t].doc.retry], Exists(live, t)
      PROVE  UNCHANGED L!vars \/ L!Open(t)
  <2>1. Leased' = Leased
    BY <1>c, NoLessee DEF callVars
  <2>2. \A u \in Tasks \ {t} : Phase(u)' = Phase(u)
    BY <1>c, PhaseKept
  <2>3. Phase(t)' = Phase(t) \/ (Phase(t) = "later" /\ Phase(t)' = "open")
    <3>1. ripe'[t] = live[t].doc.retry
      BY <1>c
    <3>2. HasStatus(live, t, "pending") => live[t].doc.retry \in Nat
      BY DEF HasStatus, Exists, Copies, TaskDocs
    <3>3. HasStatus(live, t, "pending") => live[t].doc.retry <= ripe'[t]
      BY <3>1, <3>2
    <3> QED BY <1>c, <3>3 DEF Phase, Used, HasStatus, Exists
  <2>4. CASE Phase(t)' = Phase(t)
    <3>1. PhaseOf' = PhaseOf
      BY <2>2, <2>4 DEF PhaseOf
    <3> QED BY <1>c, <2>1, <3>1, LeasesAre DEF L!vars
  <2>5. CASE Phase(t) = "later" /\ Phase(t)' = "open"
    <3>1. PhaseOf[t] = "later" /\ PhaseOf' = [PhaseOf EXCEPT ![t] = "open"]
      BY <2>2, <2>5 DEF PhaseOf
    <3> QED BY <1>c, <2>1, <3>1, LeasesAre DEF L!Open
  <2> QED BY <2>3, <2>4, <2>5
<1>4. ASSUME NEW t \in Tasks, TaskStep(t) PROVE UNCHANGED L!vars \/ L!Next
  <2>1. CASE InsertTask(t)
    <3>1. PhaseOf[t] = "unknown"
      BY <2>1 DEF InsertTask, Phase, PhaseOf
    <3>2. NewTask.status = "pending" /\ NewTask # Missing
      <4>1. NewTask \in TaskDocs
        BY DEF NewTask, TaskDocs, Statuses
      <4> QED BY <4>1, TaskAssumption DEF NewTask
    <3>3. PhaseOf' = [PhaseOf EXCEPT ![t] = "later"] \/ PhaseOf' = [PhaseOf EXCEPT ![t] = "open"]
      BY <2>1, <3>2, OnePhase DEF InsertTask
    <3>4. Leased' = Leased /\ UNCHANGED faults
      BY <2>1, NoLessee DEF InsertTask, callVars
    <3>5. L!Offer(t)
      BY <3>1, <3>3, <3>4, LeasesAre DEF L!Offer, L!Waits
    <3> QED BY <3>5 DEF L!Next
  <2>2. ASSUME NEW doc, doc = Missing \/ doc.status = "cancelled", Exists(live, t),
               live' = Put(live, t, doc), UNCHANGED <<ripe, callVars, faults>>
        PROVE  L!Next
    <3>1. PhaseOf[t] # "unknown"
      BY <2>2 DEF WrittenInv, Phase, PhaseOf
    <3>2. PhaseOf' = [PhaseOf EXCEPT ![t] = "ended"]
      BY <2>2, OnePhase
    <3>3. Leased' = Leased
      BY <2>2, NoLessee DEF callVars
    <3>4. L!Withdraw(t)
      BY <2>2, <3>1, <3>2, <3>3, LeasesAre DEF L!Withdraw
    <3> QED BY <3>4 DEF L!Next
  <2>3. CASE DeleteOperation(t)
    BY <2>2, <2>3 DEF DeleteOperation
  <2>4. CASE CancelOperation(t)
    <3>1. Exists(live, t)
      BY <2>4 DEF CancelOperation, HasStatus
    <3>2. [live[t].doc EXCEPT !.status = "cancelled"].status = "cancelled"
      BY <1>a, <3>1 DEF Statuses
    <3> QED BY <2>2, <2>4, <3>1, <3>2 DEF CancelOperation, WithStatus
  <2>5. CASE RetryRipens(t)
    BY <1>c, <2>5 DEF RetryRipens, L!Next
  <2> QED BY <1>4, <2>1, <2>3, <2>4, <2>5 DEF TaskStep
<1>5. CASE Refresh \/ UNCHANGED vars
  <2>1. UNCHANGED <<live, ripe, faults, claimed, hits, pc, held>>
    BY <1>5 DEF Refresh, callVars, vars
  <2> QED BY <2>1, NoLessee, QuietLease
<1> QED BY <1>1, <1>2, <1>3, <1>4, <1>5, CallStepLeases, FaultLoses DEF Next

\* The queue implements leases: a task is leased when it is due and nobody has it,
\* and is open to others again only when its worker puts it back; what faults take
\* from a worker is lost, and nothing else is.
THEOREM TaskQueueIsLeased == Spec => IsLeased
<1>1. Init => L!Init
  <2> SUFFICES ASSUME Init PROVE L!Init
    OBVIOUS
  <2>1. \A t \in Tasks : Phase(t) = "unknown"
    BY DEF Init, EmptyIndex, Phase, Used
  <2>2. \A w \in Workers : Owned(w) \union InFlight(w) = {}
    BY DEF Init, Owned, ClaimedIds, InFlight
  <2> QED BY <2>1, <2>2 DEF L!Init, Init
<1>2. Init => OwnInv /\ WrittenInv /\ ApartInv
  <2>1. Init => OwnInv
    BY DEF Init, OwnInv, Calling, ClaimedIds, InFlight
  <2>2. Init => WrittenInv /\ ApartInv
    BY DEF Init, EmptyIndex, WrittenInv, Exists, ApartInv
  <2> QED BY <2>1, <2>2
<1> DEFINE IInv == TypeInv /\ HitsInv /\ OwnInv /\ WrittenInv /\ ApartInv
<1>3. Init => IInv
  BY <1>2, InitType, InitHits
<1>4. IInv /\ [Next]_vars => IInv'
  BY TypeInvStep, HitsInvStep, OwnInvStep, WrittenInvStep, ApartInvStep
<1>5. IInv /\ [Next]_vars => [L!Next]_(L!vars)
  BY LeasesStep
<1> QED BY <1>1, <1>3, <1>4, <1>5, PTL DEF Spec, IsLeased, L!Spec

-----------------------------------------------------------------------------
(* A call goes on                                                           *)

\* what the call of w consists of
CallOf(w) == <<pc[w], frame[w], hits[w], claimed[w]>>

\* The steps of one worker leave the calls of the others alone.
LEMMA OthersCall ==
  ASSUME TypeInv, NEW v \in Workers, CallStep(v) \/ Fault(v), NEW w \in Workers, w # v
  PROVE  UNCHANGED CallOf(w)
<1> USE DEF TypeInv, TypeOK, CallOf
<1>1. CASE NextPool(v) \/ ReadBusyBanks(v) \/ EndPool(v) \/ ReturnClaimed(v)
  BY <1>1 DEF NextPool, ReadBusyBanks, EndPool, ReturnClaimed
<1>2. CASE NextPass(v)
  <2>1. PICK pass \in frame[v].passes :
          frame' = [frame EXCEPT ![v].passes = @ \ {pass}, ![v].banks = pass.banks,
                                 ![v].attempts = 0]
    BY <1>2 DEF NextPass
  <2> QED BY <1>2, <2>1 DEF NextPass
<1>3. CASE SearchCandidates(v) \/ EndSearch(v) \/ EndHits(v)
  BY <1>3 DEF SearchCandidates, EndSearch, EndHits
<1>4. CASE ClaimWins(v) \/ ClaimLoses(v) \/ ClaimAnswered(v)
  BY <1>4 DEF ClaimWins, ClaimLoses, ClaimAnswered
<1>5. CASE Fault(v)
  BY <1>5 DEF Fault, AnswerTimesOut, CallRaises, Crash, AbandonCall
<1> QED BY <1>1, <1>2, <1>3, <1>4, <1>5 DEF CallStep

\* Every step of a call brings it further.
LEMMA StepAdvances ==
  ASSUME TypeInv, NEW w \in Workers, CallStep(w) \/ Fault(w), pc[w] # "idle"
  PROVE  Advances(w)
<1> USE DEF TypeInv, TypeOK
<1> DEFINE f == frame[w]
           g == frame'[w]
<1>0. /\ pc[w] \in Phases /\ f \in Frame /\ f.pool \in Nat /\ f.attempts \in Nat
      /\ MaxAttempts \in Nat /\ f.pools \in Seq(Pool)
  BY CallAssumption DEF Frame
<1>1. CASE NextPool(w)
  <2>1. g.pool = f.pool + 1 /\ g.pools = f.pools /\ f.pool < Len(f.pools) /\ Len(f.pools) \in Nat
    BY <1>0, <1>1 DEF NextPool, Frame
  <2>2. g.pool \in f.pool + 1 .. Len(f.pools)
    BY <1>0, <2>1
  <2> QED BY <2>1, <2>2 DEF Advances
<1>2. CASE ReadBusyBanks(w)
  <2>1. g.pool = f.pool /\ g.pools = f.pools /\ pc[w] = "busy" /\ pc'[w] = "pass"
    BY <1>2 DEF ReadBusyBanks, Frame
  <2> QED BY <2>1 DEF Advances, Enters
<1>3. CASE NextPass(w)
  <2>1. PICK pass \in f.passes :
          frame' = [frame EXCEPT ![w].passes = @ \ {pass}, ![w].banks = pass.banks,
                                 ![w].attempts = 0]
    BY <1>3 DEF NextPass
  <2>2. /\ g.pool = f.pool /\ g.pools = f.pools /\ g.passes = f.passes \ {pass}
        /\ pc[w] = "pass" /\ pc'[w] = "search"
    BY <1>3, <2>1 DEF NextPass, Frame
  <2>3. Shrinks(f.passes, g.passes)
    BY <2>1, <2>2 DEF Shrinks
  <2> QED BY <2>2, <2>3 DEF Advances, Within
<1>4. CASE EndPool(w)
  BY <1>4 DEF EndPool, Advances, Enters
<1>5. CASE SearchCandidates(w)
  <2>1. /\ g.pool = f.pool /\ g.pools = f.pools /\ g.passes = f.passes
        /\ g.attempts = f.attempts + 1 /\ f.attempts < MaxAttempts
        /\ pc[w] = "search" /\ pc'[w] \in {"pass", "try"}
    BY <1>5 DEF SearchCandidates, Frame
  <2>2. g.attempts \in f.attempts + 1 .. MaxAttempts
    BY <1>0, <2>1
  <2>3. CASE pc'[w] = "pass"
    BY <2>1, <2>3 DEF Advances, Within, Enters
  <2>4. CASE pc'[w] = "try"
    BY <2>1, <2>2, <2>4 DEF Advances, Within
  <2> QED BY <2>1, <2>3, <2>4
<1>6. CASE EndSearch(w)
  <2>1. frame' = frame /\ pc[w] = "search" /\ pc'[w] = "pass"
    BY <1>6 DEF EndSearch
  <2> QED BY <2>1 DEF Advances, Within, Enters
<1>7. CASE ClaimWins(w)
  <2>1. frame' = frame /\ hits' = hits /\ pc[w] = "try" /\ pc'[w] = "wait"
    BY <1>7 DEF ClaimWins
  <2> QED BY <2>1 DEF Advances, Within, Enters
\* a hit is taken off the list
<1>a. ASSUME Within(w, {"try", "wait"}), NEW hit \in hits[w], hits'[w] = hits[w] \ {hit},
             g.pool = f.pool, g.pools = f.pools, g.passes = f.passes, g.attempts = f.attempts
      PROVE  Advances(w)
  <2>1. Shrinks(hits[w], hits'[w])
    BY <1>a DEF Shrinks
  <2> QED BY <1>a, <2>1 DEF Advances, Within
<1>8. CASE ClaimLoses(w)
  <2>1. PICK hit \in hits[w] : hits' = [hits EXCEPT ![w] = @ \ {hit}]
    BY <1>8 DEF ClaimLoses
  <2>2. UNCHANGED <<pc, frame>> /\ pc[w] = "try" /\ hits'[w] = hits[w] \ {hit}
    BY <1>8, <2>1 DEF ClaimLoses
  <2> QED BY <1>a, <2>2 DEF Within
<1>9. CASE ClaimAnswered(w) \/ AnswerTimesOut(w)
  <2>1. PICK hit \in hits[w] : hits' = [hits EXCEPT ![w] = @ \ {hit}]
    BY <1>9 DEF ClaimAnswered, AnswerTimesOut
  <2>2. hits'[w] = hits[w] \ {hit} /\ pc[w] = "wait" /\ pc'[w] = "try"
    BY <1>9, <2>1 DEF ClaimAnswered, AnswerTimesOut
  <2>3. g = f \/ g = CountRow(f)
    BY <1>9 DEF ClaimAnswered, AnswerTimesOut
  <2>4. /\ g.pool = f.pool /\ g.pools = f.pools /\ g.passes = f.passes
        /\ g.attempts = f.attempts
    BY <1>0, <2>3 DEF CountRow, Frame
  <2> QED BY <1>a, <2>2, <2>4 DEF Within
<1>10. CASE EndHits(w)
  <2>1. frame' = frame /\ pc[w] = "try" /\ pc'[w] \in {"search", "pass"}
    BY <1>10 DEF EndHits
  <2> QED BY <2>1 DEF Advances, Within, Enters
<1>11. CASE ReturnClaimed(w) \/ CallRaises(w) \/ Crash(w)
  BY <1>11 DEF ReturnClaimed, CallRaises, Crash, AbandonCall, Advances, Enters
<1> QED BY <1>1, <1>2, <1>3, <1>4, <1>5, <1>6, <1>7, <1>8, <1>9, <1>10, <1>11 DEF CallStep, Fault

\* A call ends after a bounded number of its steps, whatever the others do: each
\* of them takes a pool, a tier, a search or a hit off what is left, and nothing
\* is put back. (That it takes these steps is fairness, and checked only.)
THEOREM TaskQueueCallAdvances == Spec => CallAdvances
<1> DEFINE Goes == \A w \in Workers :
              pc[w] # "idle" => UNCHANGED <<pc[w], frame[w], hits[w], claimed[w]>> \/ Advances(w)
<1>1. TypeInv /\ [Next]_vars => [Goes]_vars
  <2> SUFFICES ASSUME TypeInv, Next, NEW w \in Workers, pc[w] # "idle"
               PROVE  UNCHANGED CallOf(w) \/ Advances(w)
    BY DEF CallOf
  <2>1. ASSUME NEW v \in Workers, CallStep(v) \/ Fault(v) PROVE UNCHANGED CallOf(w) \/ Advances(w)
    BY <2>1, OthersCall, StepAdvances
  <2>2. ASSUME NEW v \in Workers, NEW pools \in PoolChoices, StartClaim(v, pools)
        PROVE  UNCHANGED CallOf(w)
    BY <2>2 DEF StartClaim, CallOf, TypeInv, TypeOK
  <2>3. ASSUME NEW v \in Workers, NEW t \in Tasks, CompleteTask(v, t) \/ RetryLater(v, t)
        PROVE  UNCHANGED CallOf(w)
    BY <2>3 DEF CompleteTask, RetryLater, CallOf
  <2>4. ASSUME Refresh \/ \E t \in Tasks : TaskStep(t) PROVE UNCHANGED CallOf(w)
    BY <2>4 DEF Refresh, TaskStep, InsertTask, DeleteOperation, CancelOperation, RetryRipens,
                callVars, CallOf
  <2> QED BY <2>1, <2>2, <2>3, <2>4 DEF Next
<1>2. Spec => []TypeInv
  BY InitType, TypeInvStep, PTL DEF Spec
<1> QED BY <1>1, <1>2, PTL DEF Spec, CallAdvances
=============================================================================
