----------------------------- MODULE MCTaskQueue -----------------------------
(* Instances of TaskQueue: tasks 1 and 2 are consolidations of one bank, 3   *)
(* is of another type and bank; and the calls a poller makes with one or two *)
(* free slots per pool.                                                      *)
EXTENDS TaskQueue, TLC

CONSTANTS w1, w2, b1, b2, p1

MCTypes == {"consolidation", "retain"}
MCTaskType == [t \in Tasks |-> IF t = 3 THEN "retain" ELSE "consolidation"]
MCTaskBank == [t \in Tasks |-> IF t = 3 THEN b2 ELSE b1]

Reserved(type, n) == [types |-> {type}, limit |-> n]
Shared(n)         == [types |-> MCTypes, limit |-> n]

\* one slot in the reserved pool, one in the shared pool
OneEach == {<<Reserved("consolidation", 1), Reserved("retain", 0), Shared(1)>>}
\* a shared pool with two slots
SharedTwo == {<<Shared(2)>>}

NoPriority == << >>
\* a pattern that puts b1 before every other bank
B1First == p1 :> 2
B1Covers == p1 :> {b1}

WorkerSymmetry == Permutations(Workers)
=============================================================================
