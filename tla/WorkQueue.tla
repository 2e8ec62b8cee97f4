------------------------------ MODULE WorkQueue ------------------------------
(***************************************************************************)
(* What a queue with claim-and-delete promises: a job that was enqueued is *)
(* taken by one worker, or dropped before anyone takes it; a job that was  *)
(* taken is delivered, once, by the worker that took it, or lost, if the   *)
(* queue is a lossy one.                                                   *)
(***************************************************************************)
CONSTANTS
  Workers, Jobs,
  Lossy    \* may a worker lose what it has taken?

VARIABLES
  queued,  \* the jobs nobody has taken
  taken,   \* the jobs a worker has taken and not delivered yet
  done     \* the jobs that were delivered

vars == <<queued, taken, done>>

Init ==
  /\ queued = {}
  /\ taken = [w \in Workers |-> {}]
  /\ done = {}

Known(j) == j \in queued \union done \/ \E w \in Workers : j \in taken[w]

Enqueue(j) ==
  /\ ~Known(j)
  /\ queued' = queued \union {j}
  /\ UNCHANGED <<taken, done>>

Take(w, j) ==
  /\ j \in queued
  /\ queued' = queued \ {j}
  /\ taken' = [taken EXCEPT ![w] = @ \union {j}]
  /\ UNCHANGED done

Drop(j) ==
  /\ j \in queued
  /\ queued' = queued \ {j}
  /\ UNCHANGED <<taken, done>>

Deliver(w) ==
  /\ done' = done \union taken[w]
  /\ taken' = [taken EXCEPT ![w] = {}]
  /\ UNCHANGED queued

Lose(w) ==
  /\ Lossy
  /\ taken' = [taken EXCEPT ![w] = {}]
  /\ UNCHANGED <<queued, done>>

Next ==
  \/ \E j \in Jobs : Enqueue(j) \/ Drop(j)
  \/ \E w \in Workers, j \in Jobs : Take(w, j)
  \/ \E w \in Workers : Deliver(w) \/ Lose(w)

Spec == Init /\ [][Next]_vars
=============================================================================
