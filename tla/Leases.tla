-------------------------------- MODULE Leases --------------------------------
(***************************************************************************)
(* What a queue of tasks promises its workers: a task that is open is      *)
(* leased to one of them, who ends it or puts it back, and it is leased    *)
(* again only after that; unless the lease is lost, or the task is ended   *)
(* by somebody else, which does not end the lease.                         *)
(***************************************************************************)
CONSTANTS
  Workers, Tasks,
  Lossy    \* may leases be lost?

VARIABLES
  phase,   \* of each task
  leases,  \* leases[w]: the tasks that w has
  lost     \* the tasks whose lease was lost

vars == <<phase, leases, lost>>

Init ==
  /\ phase = [t \in Tasks |-> "unknown"]
  /\ leases = [w \in Workers |-> {}]
  /\ lost = {}

\* a task that waits is open when it is due
Waits(t) == phase' \in {[phase EXCEPT ![t] = "later"], [phase EXCEPT ![t] = "open"]}

Returns(w, t) == t \in leases[w] /\ leases' = [leases EXCEPT ![w] = @ \ {t}]

Offer(t) ==
  /\ phase[t] = "unknown" /\ Waits(t)
  /\ UNCHANGED <<leases, lost>>

Open(t) ==
  /\ phase[t] = "later" /\ phase' = [phase EXCEPT ![t] = "open"]
  /\ UNCHANGED <<leases, lost>>

Lease(w, t) ==
  /\ phase[t] = "open" /\ phase' = [phase EXCEPT ![t] = "leased"]
  /\ leases' = [leases EXCEPT ![w] = @ \union {t}]
  /\ UNCHANGED lost

PutBack(w, t) ==
  /\ phase[t] = "leased" /\ Returns(w, t)
  /\ Waits(t)
  /\ UNCHANGED lost

End(w, t) ==
  /\ Returns(w, t)
  /\ phase' = [phase EXCEPT ![t] = "ended"]
  /\ UNCHANGED lost

\* whoever has the task keeps it
Withdraw(t) ==
  /\ phase[t] # "unknown" /\ phase' = [phase EXCEPT ![t] = "ended"]
  /\ UNCHANGED <<leases, lost>>

Lose(w, tasks) ==
  /\ Lossy
  /\ lost' = lost \union tasks
  /\ leases' = [leases EXCEPT ![w] = @ \ tasks]
  /\ UNCHANGED phase

Next ==
  \/ \E t \in Tasks : Offer(t) \/ Open(t) \/ Withdraw(t)
  \/ \E w \in Workers, t \in Tasks : Lease(w, t) \/ PutBack(w, t) \/ End(w, t)
  \/ \E w \in Workers : \E tasks \in SUBSET leases[w] : Lose(w, tasks)

Spec == Init /\ [][Next]_vars
===============================================================================
