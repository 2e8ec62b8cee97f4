--------------------------- MODULE GraphQueueProofs ---------------------------
(***************************************************************************)
(* GraphQueue for every number of workers, units, rows and faults.  A row  *)
(* that was deleted has a sequence number its id has left behind (Gone):   *)
(* so a conditional delete, which needs the current one, cannot win it     *)
(* again.                                                                  *)
(***************************************************************************)
EXTENDS GraphQueue, ElasticProofs

\* The types are preserved by every step of the claim, of the purge, of the
\* enqueues and of the server.
THEOREM GraphQueueType == Spec => []TypeOK
<1> USE QueueAssumption DEF TypeOK
<1>1. Init => TypeOK
  BY DEF Init, EmptyIndex, Copies
<1>2. TypeOK /\ [Next]_vars => TypeOK'
  <2> SUFFICES ASSUME TypeOK, [Next]_vars PROVE TypeOK'
    OBVIOUS
  <2>0. \A u \in Units : [id |-> u, seq |-> snap[u].seq] \in Rows
    BY DEF Rows, Copies
  <2>1. ASSUME NEW u \in Units, EnqueueUnit(u) PROVE TypeOK'
    <3>1. Put(live, u, clock) \in [Units -> Copies(Nat)]
      BY PutType
    <3> QED BY <2>1, <3>1 DEF EnqueueUnit
  <2>2. ASSUME NEW w \in Workers, SearchRows(w) PROVE TypeOK'
    <3>1. OldestRows \subseteq Units
      BY DEF OldestRows
    <3>2. {[id |-> u, seq |-> snap[u].seq] : u \in OldestRows} \subseteq Rows
      BY <2>0, <3>1
    <3> QED BY <2>2, <3>2 DEF SearchRows, Hit
  <2>3. ASSUME NEW w \in Workers, NEW row \in hits[w], DeleteWins(w, row) PROVE TypeOK'
    <3>1. row \in Rows /\ row.id \in Units
      BY DEF Rows
    <3>2. Put(live, row.id, Missing) \in [Units -> Copies(Nat)]
      BY <3>1, PutType
    <3> QED BY <2>3, <3>1, <3>2 DEF DeleteWins
  <2>4. ASSUME NEW w \in Workers, NEW row \in hits[w], DeleteLoses(w, row) PROVE TypeOK'
    BY <2>4 DEF DeleteLoses
  <2>5. ASSUME NEW w \in Workers, ReturnRows(w) PROVE TypeOK'
    BY <2>5 DEF ReturnRows
  <2>6. ASSUME NEW w \in Workers, RaiseError(w) PROVE TypeOK'
    BY <2>6 DEF RaiseError
  <2>7. ASSUME NEW w \in Workers, Fault(w) PROVE TypeOK'
    BY <2>7 DEF Fault, ItemRejected, AnswerTimesOut, Crash, Fails
  <2>8. ASSUME NEW units \in SUBSET Units, StartPurge(units) PROVE TypeOK'
    <3>1. {[id |-> u, seq |-> snap[u].seq] : u \in {v \in units : Exists(snap, v)}}
            \subseteq Rows
      BY <2>0
    <3> QED BY <2>8, <3>1 DEF StartPurge, Hit
  <2>9. ASSUME NEW row \in doomed, PurgeRow(row) PROVE TypeOK'
    <3>1. row.id \in Units
      BY DEF Rows
    <3>2. Put(live, row.id, Missing) \in [Units -> Copies(Nat)]
      BY <3>1, PutType
    <3> QED BY <2>9, <3>2 DEF PurgeRow
  <2>10. CASE Refresh
    BY <2>10 DEF Refresh
  <2>11. CASE UNCHANGED vars
    BY <2>11 DEF vars
  <2> QED
    BY <2>1, <2>2, <2>3, <2>4, <2>5, <2>6, <2>7, <2>8, <2>9, <2>10, <2>11
    DEF Next, ClaimStep
<1> QED BY <1>1, <1>2, PTL DEF Spec

-----------------------------------------------------------------------------
\* the row was deleted: its id has had a later write
Left(row) == row.seq < live[row.id].seq

Gone ==
  /\ \A w \in Workers : \A row \in won[w] : Left(row)
  /\ \A row \in delivered : Left(row)

ClaimInv == TypeOK /\ Gone /\ AtMostOnce

\* No step gives an id an earlier sequence number.
LEMMA SeqGrows ==
  ASSUME TypeOK, [Next]_vars, NEW u \in Units
  PROVE  live[u].seq <= live'[u].seq
<1> USE QueueAssumption DEF TypeOK, Rows, Copies, Put
<1>1. CASE live' = live
  BY <1>1
<1>2. ASSUME NEW v \in Units, EnqueueUnit(v) PROVE live[u].seq <= live'[u].seq
  BY <1>2 DEF EnqueueUnit
<1>3. ASSUME NEW w \in Workers, NEW row \in hits[w], DeleteWins(w, row)
      PROVE  live[u].seq <= live'[u].seq
  BY <1>3 DEF DeleteWins
<1>4. ASSUME NEW row \in doomed, PurgeRow(row) PROVE live[u].seq <= live'[u].seq
  BY <1>4 DEF PurgeRow
<1> QED
  BY <1>1, <1>2, <1>3, <1>4
  DEF Next, ClaimStep, Fault, vars, SearchRows, Hit, DeleteLoses, ReturnRows, RaiseError,
      ItemRejected, AnswerTimesOut, Crash, StartPurge, Refresh

\* At every step the rows a call has won, and those that were returned, only
\* change by a delete that wins, a return, or a loss.
LEMMA ClaimInvStep == ClaimInv /\ TypeOK' /\ [Next]_vars => (Gone /\ AtMostOnce)'
<1> SUFFICES ASSUME ClaimInv, TypeOK', [Next]_vars PROVE (Gone /\ AtMostOnce)'
  OBVIOUS
<1>0. ASSUME NEW row \in Rows, Left(row) PROVE Left(row)'
  <2>1. row.id \in Units /\ row.seq \in Nat
    BY DEF Rows
  <2>2. live[row.id].seq \in Nat /\ live'[row.id].seq \in Nat
    BY <2>1 DEF ClaimInv, TypeOK, Copies
  <2>3. live[row.id].seq <= live'[row.id].seq
    BY <2>1, SeqGrows DEF ClaimInv
  <2> QED BY <1>0, <2>1, <2>2, <2>3 DEF Left
<1>a. delivered \subseteq Rows /\ won \in [Workers -> SUBSET Rows]
  BY DEF ClaimInv, TypeOK
<1> USE DEF ClaimInv, Gone, AtMostOnce
<1>1. ASSUME NEW w \in Workers, NEW row \in hits[w], DeleteWins(w, row)
      PROVE  (Gone /\ AtMostOnce)'
  <2>1. row \in Rows /\ row.id \in Units /\ row.seq \in Nat
    BY DEF TypeOK, Rows
  <2>2. row.seq = live[row.id].seq /\ Left(row)'
    <3>1. live'[row.id].seq = live[row.id].seq + 1
      BY <1>1, <2>1, PutReads DEF DeleteWins, TypeOK
    <3> QED BY <1>1, <2>1, <3>1 DEF DeleteWins, Unchanged, Left
  <2>3. row \notin delivered /\ \A v \in Workers : row \notin won[v]
    BY <2>1, <2>2 DEF Left
  <2>4. delivered' = delivered /\ \A v \in Workers :
          won'[v] = IF v = w THEN won[v] \union {row} ELSE won[v]
    BY <1>1, <1>a DEF DeleteWins
  <2>5. Gone'
    BY <1>0, <1>a, <2>2, <2>4
  <2>6. AtMostOnce'
    BY <2>3, <2>4
  <2> QED BY <2>5, <2>6
<1>2. ASSUME NEW w \in Workers, ReturnRows(w) PROVE (Gone /\ AtMostOnce)'
  <2>1. /\ delivered' = delivered \union won[w]
        /\ \A v \in Workers : won'[v] = IF v = w THEN {} ELSE won[v]
    BY <1>2, <1>a DEF ReturnRows
  <2> QED BY <1>0, <1>a, <2>1
<1>3. ASSUME NEW w \in Workers, RaiseError(w) \/ AnswerTimesOut(w) \/ Crash(w)
      PROVE  (Gone /\ AtMostOnce)'
  <2>1. /\ delivered' = delivered
        /\ \A v \in Workers : won'[v] = IF v = w THEN {} ELSE won[v]
    BY <1>3, <1>a DEF RaiseError, AnswerTimesOut, Crash
  <2> QED BY <1>0, <1>a, <2>1
<1>4. ASSUME UNCHANGED <<won, delivered>> PROVE (Gone /\ AtMostOnce)'
  BY <1>0, <1>a, <1>4
<1> QED
  BY <1>1, <1>2, <1>3, <1>4
  DEF Next, ClaimStep, Fault, vars, EnqueueUnit, SearchRows, Hit, DeleteLoses,
      ItemRejected, StartPurge, PurgeRow, Refresh

\* A row is handed out at most once, whatever is lost, rejected or dies.
THEOREM GraphQueueAtMostOnce == Spec => []AtMostOnce
<1>1. Init => Gone /\ AtMostOnce
  BY DEF Init, Gone, AtMostOnce
<1>2. ClaimInv /\ TypeOK' /\ [Next]_vars => (Gone /\ AtMostOnce)'
  BY ClaimInvStep
<1> QED BY <1>1, <1>2, GraphQueueType, PTL DEF Spec, ClaimInv

-----------------------------------------------------------------------------
(* The refinement. *)

\* a call that fails has met a fault
Faultless == \A w \in Workers : pc[w] = "failing" => MaxFaults > 0

\* an id was written at most twice for each row enqueued so far, and once for
\* the row it holds
Bounded ==
  /\ clock <= MaxEnqueues
  /\ \A u \in Units : live[u].seq <= IF Exists(live, u) THEN 2 * clock - 1 ELSE 2 * clock

QueueInv == TypeOK /\ Gone /\ Faultless /\ Bounded

LEMMA BoundedInit == Init => Bounded
BY QueueAssumption DEF Init, Bounded, EmptyIndex, Exists

\* The bound is kept: a create comes with a tick of the clock, a delete needs
\* a row.
LEMMA BoundedStep == TypeOK /\ Bounded /\ TypeOK' /\ [Next]_vars => Bounded'
<1> SUFFICES ASSUME TypeOK, Bounded, TypeOK', [Next]_vars PROVE Bounded'
  OBVIOUS
<1> USE QueueAssumption DEF Bounded, Exists
<1>a. clock \in Nat /\ \A u \in Units : live[u].seq \in Nat
  BY DEF TypeOK, Copies
<1>1. ASSUME NEW u \in Units, EnqueueUnit(u) PROVE Bounded'
  <2>1. /\ live'[u].seq = live[u].seq + 1 /\ live'[u].doc = clock
        /\ \A v \in Units : v # u => live'[v] = live[v]
    BY <1>1 DEF EnqueueUnit, TypeOK, Copies, Put
  <2>2. clock < MaxEnqueues /\ clock' = clock + 1 /\ live[u].doc = Missing /\ clock # Missing
    BY <1>1, <1>a DEF EnqueueUnit, MayCreate, Exists
  <2> QED BY <1>a, <2>1, <2>2
<1>2. ASSUME NEW row \in Rows, Unchanged(live, row), UNCHANGED clock,
             live' = Put(live, row.id, Missing)
      PROVE  Bounded'
  <2>1. row.id \in Units
    BY DEF Rows
  <2>2. /\ live'[row.id].seq = live[row.id].seq + 1 /\ live'[row.id].doc = Missing
        /\ \A v \in Units : v # row.id => live'[v] = live[v]
    BY <1>2, <2>1 DEF TypeOK, Copies, Put
  <2>3. live[row.id].doc # Missing
    BY <1>2 DEF Unchanged
  <2>4. live[row.id].seq <= 2 * clock - 1
    BY <2>1, <2>3
  <2>5. live'[row.id].seq <= 2 * clock
    <3> DEFINE n == live[row.id].seq
    <3>1. n \in Nat /\ clock \in Nat
      BY <1>a, <2>1
    <3>2. n <= 2 * clock - 1 => n + 1 <= 2 * clock
      BY ONLY <3>1
    <3> QED BY ONLY <2>2, <2>4, <3>2
  <2>6. clock' = clock
    BY <1>2
  <2> QED BY <2>1, <2>2, <2>5, <2>6
<1>3. ASSUME NEW w \in Workers, NEW row \in hits[w], DeleteWins(w, row) PROVE Bounded'
  BY <1>2, <1>3 DEF DeleteWins, TypeOK
<1>4. ASSUME NEW row \in doomed, PurgeRow(row) PROVE Bounded'
  BY <1>2, <1>4 DEF PurgeRow, TypeOK
<1>5. CASE UNCHANGED <<live, clock>>
  BY <1>5
<1> QED
  BY <1>1, <1>3, <1>4, <1>5
  DEF Next, ClaimStep, Fault, vars, SearchRows, Hit, DeleteLoses, ReturnRows, RaiseError,
      ItemRejected, AnswerTimesOut, Crash, StartPurge, Refresh

LEMMA FaultAllowed == \A kind : TypeOK /\ Fails(kind) => MaxFaults > 0
BY QueueAssumption DEF Fails, TypeOK

\* Every step is a step of the abstract queue, or changes nothing that it
\* sees.
LEMMA QueueStep ==
  ASSUME QueueInv, QueueInv', [Next]_vars
  PROVE  [Queue!Next]_(Queue!vars)
<1> USE QueueAssumption
<1>a. /\ \A u \in Units : live[u].seq \in Nat /\ live[u].seq <= 2 * MaxEnqueues
      /\ \A u \in Units : live'[u].seq \in Nat /\ live'[u].seq <= 2 * MaxEnqueues
  BY DEF QueueInv, TypeOK, Copies, Bounded
<1>b. QueuedRows \subseteq NamedRows /\ QueuedRows' \subseteq NamedRows
  BY <1>a DEF QueuedRows, NamedRows
<1>1. ASSUME NEW u \in Units, EnqueueUnit(u) PROVE Queue!Next
  <2> DEFINE row == [id |-> u, seq |-> live[u].seq + 1]
  <2>1. /\ live'[u].seq = live[u].seq + 1 /\ live'[u].doc = clock /\ clock # Missing
        /\ \A v \in Units : v # u => live'[v] = live[v]
        /\ live[u].doc = Missing
    BY <1>1 DEF EnqueueUnit, MayCreate, QueueInv, TypeOK, Copies, Put, Exists
  <2>2. QueuedRows' = QueuedRows \union {row}
    BY <2>1 DEF QueuedRows, Exists
  <2>3. row \in NamedRows
    BY <1>b, <2>2
  <2>4. row \notin QueuedRows
    BY <2>1 DEF QueuedRows, Exists
  <2>5. ~Left(row)
    <3>1. live[u].seq \in Nat /\ row.id = u /\ row.seq = live[u].seq + 1
      BY <1>a
    <3>2. ~(row.seq < live[row.id].seq)
      BY <3>1
    <3> QED BY <3>2 DEF Left
  <2>6. row \notin delivered /\ \A w \in Workers : row \notin won[w]
    BY <2>5 DEF QueueInv, Gone
  <2>7. ~Queue!Known(row)
    BY <2>4, <2>6 DEF Queue!Known
  <2>8. UNCHANGED <<won, delivered>>
    BY <1>1 DEF EnqueueUnit
  <2>9. Queue!Enqueue(row)
    BY <2>2, <2>7, <2>8 DEF Queue!Enqueue
  <2> QED BY <2>3, <2>9 DEF Queue!Next
<1>2. ASSUME NEW row \in Rows, Unchanged(live, row), live' = Put(live, row.id, Missing)
      PROVE  row \in NamedRows /\ row \in QueuedRows /\ QueuedRows' = QueuedRows \ {row}
  <2>1. row.id \in Units /\ row = [id |-> row.id, seq |-> live[row.id].seq]
    BY <1>2 DEF Rows, Unchanged
  <2>2. /\ live'[row.id].doc = Missing /\ live[row.id].doc # Missing
        /\ \A v \in Units : v # row.id => live'[v] = live[v]
    BY <1>2, <2>1 DEF QueueInv, TypeOK, Copies, Put, Unchanged, Exists
  <2>3. row \in QueuedRows
    BY <2>1, <2>2 DEF QueuedRows, Exists
  <2>4. \A other : other \in QueuedRows' <=> other \in QueuedRows /\ other # row
    BY <2>1, <2>2 DEF QueuedRows, Exists
  <2> QED BY <1>b, <2>3, <2>4
<1>3. ASSUME NEW w \in Workers, NEW row \in hits[w], DeleteWins(w, row) PROVE Queue!Next
  <2>1. row \in Rows
    BY DEF QueueInv, TypeOK
  <2>2. row \in NamedRows /\ Queue!Take(w, row)
    BY <1>2, <1>3, <2>1 DEF DeleteWins, Queue!Take
  <2> QED BY <2>2 DEF Queue!Next
<1>4. ASSUME NEW w \in Workers, ReturnRows(w) PROVE Queue!Next
  BY <1>4 DEF ReturnRows, Queue!Next, Queue!Deliver, QueuedRows
<1>5. ASSUME NEW row \in doomed, PurgeRow(row) PROVE [Queue!Next]_(Queue!vars)
  <2>1. row \in Rows
    BY DEF QueueInv, TypeOK
  <2>2. CASE Unchanged(live, row)
    <3>1. row \in NamedRows /\ Queue!Drop(row)
      BY <1>2, <1>5, <2>1, <2>2 DEF PurgeRow, Queue!Drop
    <3> QED BY <3>1 DEF Queue!Next
  <2>3. CASE ~Unchanged(live, row)
    BY <1>5, <2>3 DEF PurgeRow, Queue!vars, QueuedRows
  <2> QED BY <2>2, <2>3
<1>6. CASE UNCHANGED <<live, won, delivered>>
  BY <1>6 DEF Queue!vars, QueuedRows
<1>7. ASSUME NEW w \in Workers, RaiseError(w) \/ AnswerTimesOut(w) \/ Crash(w)
      PROVE  Queue!Next
  <2>1. MaxFaults > 0
    BY <1>7, FaultAllowed DEF RaiseError, AnswerTimesOut, Crash, QueueInv, Faultless
  <2>2. won' = [won EXCEPT ![w] = {}] /\ UNCHANGED <<live, delivered>>
    BY <1>7 DEF RaiseError, AnswerTimesOut, Crash
  <2>3. Queue!Lose(w)
    BY <2>1, <2>2 DEF Queue!Lose, QueuedRows
  <2> QED BY <2>3 DEF Queue!Next
<1> QED
  BY <1>1, <1>3, <1>4, <1>5, <1>6, <1>7
  DEF Next, ClaimStep, Fault, ItemRejected, vars, SearchRows, Hit, DeleteLoses, StartPurge, Refresh

\* The index implements the abstract queue: each row that is enqueued goes to
\* one caller, or to a purge, and without faults none gets lost on the way.
THEOREM GraphQueueRefines == Spec => ImplementsWorkQueue
<1>1. Init => Queue!Init
  BY DEF Init, Queue!Init, QueuedRows, EmptyIndex, Exists
<1>2. Init => Gone /\ Faultless /\ Bounded
  BY BoundedInit DEF Init, Gone, Faultless
<1>3. TypeOK /\ TypeOK' /\ Faultless /\ [Next]_vars => Faultless'
  <2> SUFFICES ASSUME TypeOK, TypeOK', Faultless, [Next]_vars PROVE Faultless'
    OBVIOUS
  <2>1. ASSUME NEW w \in Workers, Fault(w) PROVE Faultless'
    BY <2>1, FaultAllowed DEF Fault, ItemRejected, AnswerTimesOut, Crash, Faultless, TypeOK
  <2>2. ASSUME NEW w \in Workers, ClaimStep(w) PROVE Faultless'
    BY <2>2
    DEF ClaimStep, SearchRows, Hit, DeleteWins, DeleteLoses, ReturnRows, RaiseError, Faultless, TypeOK
  <2> QED
    BY <2>1, <2>2
    DEF Faultless, Next, vars, EnqueueUnit, StartPurge, Hit, PurgeRow, Refresh
<1>4. TypeOK /\ TypeOK' /\ Bounded /\ [Next]_vars => Bounded'
  BY BoundedStep
<1>5. ClaimInv /\ TypeOK' /\ [Next]_vars => Gone'
  BY ClaimInvStep
<1>6. QueueInv /\ QueueInv' /\ [Next]_vars => [Queue!Next]_(Queue!vars)
  BY QueueStep
<1>7. Spec => []QueueInv
  BY <1>2, <1>3, <1>4, <1>5, GraphQueueType, GraphQueueAtMostOnce, PTL
  DEF Spec, QueueInv, ClaimInv
<1> QED BY <1>1, <1>6, <1>7, PTL DEF Spec, ImplementsWorkQueue, Queue!Spec
=============================================================================
