-------------------------------- MODULE Ledger --------------------------------
(***************************************************************************)
(* What a ledger of versions promises the processes that bring a schema up *)
(* to date: versions are begun in their order, each is run by one process  *)
(* at a time and never again once it is applied; a run that fails says so, *)
(* and is only repeated after somebody has reset the version; a run that   *)
(* is lost is not repeated at all.                                         *)
(***************************************************************************)
EXTENDS Naturals

CONSTANTS
  Starters, Versions,
  Lossy     \* may runs be lost?

VARIABLES
  entry,    \* of each version
  runners   \* runners[v]: the processes that run v

vars == <<entry, runners>>

Init ==
  /\ entry = [v \in Versions |-> "new"]
  /\ runners = [v \in Versions |-> {}]

Claim(s, v) ==
  /\ entry[v] \in {"new", "reset"}
  /\ \A u \in Versions : u < v => entry[u] # "new"
  /\ entry' = [entry EXCEPT ![v] = "running"]
  /\ runners' = [runners EXCEPT ![v] = {s}]

\* the run of s ends, and nobody else is at it
Ends(s, v, how) ==
  /\ entry[v] = "running" /\ runners[v] = {s}
  /\ entry' = [entry EXCEPT ![v] = how]
  /\ runners' = [runners EXCEPT ![v] = {}]

Lose(s, v) == Lossy /\ Ends(s, v, "lost")

Reset(v) ==
  /\ entry[v] = "failed"
  /\ entry' = [entry EXCEPT ![v] = "reset"]
  /\ UNCHANGED runners

Next ==
  \E v \in Versions :
    \/ Reset(v)
    \/ \E s \in Starters : \/ Claim(s, v) \/ Lose(s, v)
                           \/ Ends(s, v, "applied") \/ Ends(s, v, "failed")

Spec == Init /\ [][Next]_vars
===============================================================================
