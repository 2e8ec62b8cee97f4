------------------------------ MODULE Migrations ------------------------------
(***************************************************************************)
(* run_migrations, executed by every API process that starts: each version *)
(* is claimed by creating its tracking document, with the status it will   *)
(* have when it is applied, and then applied.  Versions are numbered in    *)
(* their order.  A starter is cut at every request.                        *)
(***************************************************************************)
EXTENDS Elastic

CONSTANTS
  Starters,
  Last,          \* the versions are 1..Last
  MaxStarts,     \* bound: how often run_migrations is called
  MaxFailures,   \* bound: apply functions that raise
  FaultKinds,    \* the faults considered: some of "timeout", "error", "crash"
  MaxFaults      \* bound: how many of them

Versions == 1..Last
Statuses == {"applied", "failed"}

ASSUME MigrationAssumption ==
  /\ Last \in Nat
  /\ Missing \notin Statuses

VARIABLES
  live,      \* the tracking index as GET and writes see it; a document is its status
  snap,      \* ... as the search of _applied_versions sees it
  schema,    \* the versions whose apply function has run to its end
  pc,        \* where each starter is
  applied,   \* the versions it read as applied
  next,      \* the version it is at
  barred,    \* history: the versions marked failed when it read them
  starts, failures,
  faults     \* how many faults happened, and the versions whose run they ended

vars == <<live, snap, schema, pc, applied, next, barred, starts, failures, faults>>
bounds == <<starts, failures, faults>>

Phases == {"off", "read", "step", "claim", "check", "apply", "mark", "marked",
           "ready", "raised"}

Init ==
  /\ live = EmptyIndex(Versions)
  /\ snap = live
  /\ schema = {}
  /\ pc = [s \in Starters |-> "off"]
  /\ applied = [s \in Starters |-> {}]
  /\ next = [s \in Starters |-> 1]
  /\ barred = [s \in Starters |-> {}]
  /\ starts = 0 /\ failures = 0 /\ faults = [count |-> 0, lost |-> {}]

Goto(s, phase) == pc' = [pc EXCEPT ![s] = phase]

\* mutant: a loop that does not advance
Repeat(s) == Goto(s, "step") /\ UNCHANGED next

\* the loop goes on with the next version
Continue(s) ==
  /\ next' = [next EXCEPT ![s] = @ + 1]
  /\ Goto(s, "step")

HasStatus(index, v, status) == Exists(index, v) /\ index[v].doc = status

AppliedVersions ==
  {v \in Versions : HasStatus(snap, v, "applied")}

\* mutant: without op_type=create
MayWrite(v) == TRUE

\* op_type=create
MayCreate(v) == ~Exists(live, v)

Working(s) == pc[s] \in {"claim", "apply", "mark"}

\* the version that s is running
InHand(s) == IF Working(s) THEN {next[s]} ELSE {}

\* a fault ends the run of s, and nobody takes the version up again
Fails(kind, s) ==
  /\ kind \in FaultKinds /\ faults.count < MaxFaults
  /\ faults' = [count |-> faults.count + 1, lost |-> faults.lost \union InHand(s)]

-----------------------------------------------------------------------------
\* a process starts (again), and the tracking index exists from here on
Start(s) ==
  /\ pc[s] \in {"off", "ready", "raised"} /\ starts < MaxStarts
  /\ starts' = starts + 1
  /\ Goto(s, "read")
  /\ UNCHANGED <<live, snap, schema, applied, next, barred, failures, faults>>

ReadApplied(s) ==
  /\ pc[s] = "read"
  /\ applied' = [applied EXCEPT ![s] = AppliedVersions]
  /\ barred' = [barred EXCEPT ![s] = {v \in Versions : /\ HasStatus(snap, v, "failed")
                                                         /\ HasStatus(live, v, "failed")}]
  /\ next' = [next EXCEPT ![s] = 1]
  /\ Goto(s, "step")
  /\ UNCHANGED <<live, snap, schema, bounds>>

SkipApplied(s) ==
  /\ pc[s] = "step" /\ next[s] \in applied[s]
  /\ Continue(s)
  /\ UNCHANGED <<live, snap, schema, applied, barred, bounds>>

\* op_type=create with refresh=wait_for
ClaimVersion(s) ==
  /\ pc[s] = "step" /\ next[s] \in Versions \ applied[s]
  /\ MayCreate(next[s])
  /\ live' = Put(live, next[s], "applied")
  /\ Goto(s, "claim")
  /\ UNCHANGED <<snap, schema, applied, next, barred, bounds>>

ClaimAnswered(s) ==
  /\ pc[s] = "claim" /\ Searchable(snap, next[s], live[next[s]].seq)
  /\ Goto(s, "apply")
  /\ UNCHANGED <<live, snap, schema, applied, next, barred, bounds>>

ClaimRefused(s) ==
  /\ pc[s] = "step" /\ next[s] \in Versions \ applied[s]
  /\ ~MayCreate(next[s])
  /\ Goto(s, "check")
  /\ UNCHANGED <<live, snap, schema, applied, next, barred, bounds>>

\* mutant: after a 409, the status is not looked at
SkipClaimedAnyway(s) ==
  /\ pc[s] = "check"
  /\ Continue(s)
  /\ UNCHANGED <<live, snap, schema, applied, barred, bounds>>

\* after a 409: a version that is claimed and did not fail is skipped
SkipClaimed(s) ==
  /\ pc[s] = "check" /\ HasStatus(live, next[s], "applied")
  /\ Continue(s)
  /\ UNCHANGED <<live, snap, schema, applied, barred, bounds>>

\* a version that failed stops the starter, and so does a document that is
\* gone since: the GET raises
RaiseFailed(s) ==
  /\ pc[s] = "check" /\ ~HasStatus(live, next[s], "applied")
  /\ Goto(s, "raised")
  /\ UNCHANGED <<live, snap, schema, applied, next, barred, bounds>>

ApplySucceeds(s) ==
  /\ pc[s] = "apply"
  /\ schema' = schema \union {next[s]}
  /\ Continue(s)
  /\ UNCHANGED <<live, snap, applied, barred, bounds>>

ApplyFails(s) ==
  /\ pc[s] = "apply" /\ failures < MaxFailures
  /\ failures' = failures + 1
  /\ Goto(s, "mark")
  /\ UNCHANGED <<live, snap, schema, applied, next, barred, starts, faults>>

\* mutant: the document keeps its status
MarkFailedNot(s) ==
  /\ pc[s] = "mark"
  /\ Goto(s, "marked")
  /\ UNCHANGED <<live, snap, schema, applied, next, barred, bounds>>

MarkFailed(s) ==
  /\ pc[s] = "mark"
  /\ live' = IF Exists(live, next[s]) THEN Put(live, next[s], "failed") ELSE live
  /\ Goto(s, "marked")
  /\ UNCHANGED <<snap, schema, applied, next, barred, bounds>>

\* refresh=wait_for, then the exception of the step goes on
RaiseApplyError(s) ==
  /\ pc[s] = "marked" /\ Searchable(snap, next[s], live[next[s]].seq)
  /\ Goto(s, "raised")
  /\ UNCHANGED <<live, snap, schema, applied, next, barred, bounds>>

Finish(s) ==
  /\ pc[s] = "step" /\ next[s] > Last
  /\ Goto(s, "ready")
  /\ UNCHANGED <<live, snap, schema, applied, next, barred, bounds>>

-----------------------------------------------------------------------------
\* The answer of the create is late: the client sends it again and is told
\* 409 by its own document.
ClaimTimesOut(s) ==
  /\ pc[s] = "claim"
  /\ Fails("timeout", s)
  /\ Goto(s, "check")
  /\ UNCHANGED <<live, snap, schema, applied, next, barred, starts, failures>>

\* The update that marks the failure fails itself, and raises instead.
MarkRaises(s) ==
  /\ pc[s] = "mark"
  /\ Fails("error", s)
  /\ Goto(s, "raised")
  /\ UNCHANGED <<live, snap, schema, applied, next, barred, starts, failures>>

Crash(s) ==
  /\ pc[s] \notin {"off", "ready", "raised"}
  /\ Fails("crash", s)
  /\ Goto(s, "off")
  /\ UNCHANGED <<live, snap, schema, applied, next, barred, starts, failures>>

\* external: the operator fixes a failed step and deletes its document
ResetFailed(v) ==
  /\ HasStatus(live, v, "failed")
  /\ live' = Put(live, v, Missing)
  /\ barred' = [s \in Starters |-> barred[s] \ {v}]
  /\ UNCHANGED <<snap, schema, pc, applied, next, bounds>>

\* external: Elasticsearch refreshes the index
Refresh ==
  /\ snap # live
  /\ snap' = live
  /\ UNCHANGED <<live, schema, pc, applied, next, barred, bounds>>

-----------------------------------------------------------------------------
RunStep(s) ==
  \/ ReadApplied(s) \/ SkipApplied(s)
  \/ ClaimVersion(s) \/ ClaimAnswered(s) \/ ClaimRefused(s)
  \/ SkipClaimed(s) \/ RaiseFailed(s)
  \/ ApplySucceeds(s) \/ ApplyFails(s) \/ MarkFailed(s) \/ RaiseApplyError(s)
  \/ Finish(s)

Fault(s) == ClaimTimesOut(s) \/ MarkRaises(s) \/ Crash(s)

Next ==
  \/ \E s \in Starters : Start(s) \/ RunStep(s) \/ Fault(s)
  \/ \E v \in Versions : ResetFailed(v)
  \/ Refresh

Spec == Init /\ [][Next]_vars

Fairness == /\ \A s \in Starters : WF_vars(RunStep(s))
            /\ WF_vars(Refresh)

FairSpec == Spec /\ Fairness

-----------------------------------------------------------------------------
\* The type invariant.
TypeOK ==
  /\ live \in [Versions -> Copies(Statuses)]
  /\ snap \in [Versions -> Copies(Statuses)]
  /\ schema \subseteq Versions
  /\ pc \in [Starters -> Phases]
  /\ applied \in [Starters -> SUBSET Versions]
  /\ next \in [Starters -> Nat]
  /\ barred \in [Starters -> SUBSET Versions]
  /\ starts \in Nat /\ failures \in Nat
  /\ faults \in [count : Nat, lost : SUBSET Versions]

\* A version is run by one starter at a time, and never again once it has
\* succeeded, whatever fails, dies or is reset.
ExclusiveRun ==
  \A s \in Starters : Working(s) =>
    /\ next[s] \notin schema
    /\ \A r \in Starters : Working(r) /\ next[r] = next[s] => r = s

\* "failed-step tracking that blocks subsequent startups": a starter that
\* began when a version was known to have failed runs neither that version
\* nor a later one, until the operator resets it.
FailureBlocks ==
  \A s \in Starters : Working(s) => \A v \in barred[s] : next[s] < v

\* A tracking document that says applied is true, or its starter is at work.
\* It lies about the version that a starter was at when it died, when its claim
\* was sent again and refused, or when it could not mark the failure; and about
\* no other.
AppliedIsTrue ==
  \A v \in Versions : HasStatus(live, v, "applied") =>
    \/ v \in schema \union faults.lost
    \/ \E s \in Starters : Working(s) /\ next[s] = v

\* A failed version is never behind one that was applied: no "silently
\* continuing past a hole in the tree".
NoHole ==
  \A v \in schema : \A u \in Versions : HasStatus(live, u, "failed") => u > v

\* A start comes to its end, one way or the other.
StartsEnd ==
  \A s \in Starters : pc[s] = "read" ~> pc[s] \in {"ready", "raised", "off"}
-----------------------------------------------------------------------------
(* The abstract ledger: what the tracking index says of a version, and who is *)
(* at it.                                                                     *)

Entry(v) ==
  IF ~Used(live, v) THEN "new"
  ELSE IF ~Exists(live, v) THEN "reset"
  ELSE IF HasStatus(live, v, "failed") THEN "failed"
  ELSE IF v \in schema THEN "applied"
  ELSE IF v \in faults.lost THEN "lost" ELSE "running"

Runners(v) == {s \in Starters : Working(s) /\ next[s] = v}

G == INSTANCE Ledger WITH
       entry <- [v \in Versions |-> Entry(v)],
       runners <- [v \in Versions |-> Runners(v)],
       Lossy <- FaultKinds # {}

\* The tracking index keeps such a ledger.
IsLedger == G!Spec
=============================================================================
