--------------------------- MODULE MigrationsProofs ---------------------------
(***************************************************************************)
(* Migrations for every number of processes, versions, starts, failures    *)
(* and faults; and Startup, which implements them.                         *)
(*                                                                         *)
(* The argument is the one of a lock: the tracking document of a version   *)
(* that is being run says "applied" (Claimed), so it cannot be created by  *)
(* another starter, nor reset. A version read as failed stays so (Barred). *)
(* A starter only gets past a version whose document was written           *)
(* (UsedInv), so a process that serves has met all of them. The move of an *)
(* index is in one hand, and its documents are in the old index, in the    *)
(* new one, or too late (MoveInv).                                         *)
(***************************************************************************)
EXTENDS Startup, ElasticProofs

\* In a process that starts, a step also fails when one of its requests is
\* refused; what is proved of run_migrations holds with these failures too.
Refusal(s) ==
  /\ pc[s] = "apply"
  /\ Goto(s, "mark")
  /\ UNCHANGED <<live, snap, schema, applied, next, barred, bounds>>

Runs == Next \/ \E s \in Starters : Refusal(s)

RunsSpec == Init /\ [][Runs]_vars

LEMMA SpecRuns == Spec => RunsSpec
<1>1. [Next]_vars => [Runs]_vars
  BY DEF Runs
<1> QED BY <1>1, PTL DEF Spec, RunsSpec

\* the types, and a starter that has a version at hand.
TypeInv ==
  /\ TypeOK
  /\ \A s \in Starters : pc[s] \in {"claim", "check", "apply", "mark", "marked"} => next[s] \in Versions

\* The types are preserved by every step of a start, by faults, by the
\* operator and by the server.
LEMMA MigrationsTypeInv == RunsSpec => []TypeInv
<1> USE MigrationAssumption
<1>1. Init => TypeInv
  BY DEF Init, TypeInv, TypeOK, EmptyIndex, Copies, Phases
<1>2. TypeInv /\ [Runs]_vars => TypeInv'
  <2> SUFFICES ASSUME TypeInv, [Runs]_vars PROVE TypeInv'
    OBVIOUS
  <2> USE DEF TypeInv, TypeOK, Goto, bounds, Phases
  <2>1. ASSUME NEW s \in Starters, Start(s) PROVE TypeInv'
    BY <2>1 DEF Start
  <2>2. ASSUME NEW s \in Starters, ReadApplied(s) PROVE TypeInv'
    BY <2>2 DEF ReadApplied, AppliedVersions
  <2>3. ASSUME NEW s \in Starters, SkipApplied(s) \/ SkipClaimed(s) PROVE TypeInv'
    BY <2>3 DEF SkipApplied, SkipClaimed, Continue
  <2>4. ASSUME NEW s \in Starters, ClaimVersion(s) PROVE TypeInv'
    <3>1. next[s] \in Versions /\ "applied" \in Statuses
      BY <2>4 DEF ClaimVersion, Statuses
    <3>2. Put(live, next[s], "applied") \in [Versions -> Copies(Statuses)]
      BY <3>1, PutType
    <3> QED BY <2>4, <3>1, <3>2 DEF ClaimVersion
  <2>5. ASSUME NEW s \in Starters, ClaimAnswered(s) \/ ClaimRefused(s) PROVE TypeInv'
    BY <2>5 DEF ClaimAnswered, ClaimRefused
  <2>6. ASSUME NEW s \in Starters, RaiseFailed(s) \/ RaiseApplyError(s) \/ Finish(s) PROVE TypeInv'
    BY <2>6 DEF RaiseFailed, RaiseApplyError, Finish
  <2>7. ASSUME NEW s \in Starters, ApplySucceeds(s) PROVE TypeInv'
    BY <2>7 DEF ApplySucceeds, Continue
  <2>8. ASSUME NEW s \in Starters, ApplyFails(s) PROVE TypeInv'
    BY <2>8 DEF ApplyFails
  <2>13. ASSUME NEW s \in Starters, Refusal(s) PROVE TypeInv'
    BY <2>13 DEF Refusal
  <2>9. ASSUME NEW s \in Starters, MarkFailed(s) PROVE TypeInv'
    <3>1. next[s] \in Versions /\ "failed" \in Statuses
      BY <2>9 DEF MarkFailed, Statuses
    <3>2. Put(live, next[s], "failed") \in [Versions -> Copies(Statuses)]
      BY <3>1, PutType
    <3> QED BY <2>9, <3>1, <3>2 DEF MarkFailed
  <2>10. ASSUME NEW s \in Starters, Fault(s) PROVE TypeInv'
    <3>1. InHand(s) \subseteq Versions
      BY DEF InHand, Working
    <3>2. \A kind : Fails(kind, s) => faults' \in [count : Nat, lost : SUBSET Versions]
      BY <3>1 DEF Fails
    <3>3. faults' \in [count : Nat, lost : SUBSET Versions]
      BY <2>10, <3>2 DEF Fault, ClaimTimesOut, MarkRaises, Crash
    <3> QED BY <2>10, <3>3 DEF Fault, ClaimTimesOut, MarkRaises, Crash
  <2>11. ASSUME NEW v \in Versions, ResetFailed(v) PROVE TypeInv'
    <3>1. Put(live, v, Missing) \in [Versions -> Copies(Statuses)]
      BY PutType
    <3> QED BY <2>11, <3>1 DEF ResetFailed
  <2>12. CASE Refresh \/ UNCHANGED vars
    BY <2>12 DEF Refresh, vars
  <2> QED
    BY <2>1, <2>2, <2>3, <2>4, <2>5, <2>6, <2>7, <2>8, <2>9, <2>10, <2>11, <2>12, <2>13
    DEF Runs, Next, RunStep
<1> QED BY <1>1, <1>2, PTL DEF RunsSpec

\* Every variable of the migrations keeps its type.
THEOREM MigrationsType == Spec => []TypeOK
<1>1. TypeInv => TypeOK
  BY DEF TypeInv
<1> QED BY <1>1, MigrationsTypeInv, SpecRuns, PTL

-----------------------------------------------------------------------------
\* what a starter runs is claimed, has not been run, and is run by it alone;
\* what has been run says so
Claimed ==
  /\ \A s \in Starters : Working(s) =>
       HasStatus(live, next[s], "applied") /\ next[s] \notin schema
  /\ \A s, r \in Starters : Working(s) /\ Working(r) /\ next[r] = next[s] => r = s
  /\ \A v \in schema : HasStatus(live, v, "applied")

\* the steps that write no tracking document and end no run well
Quiet(s) ==
  \/ Start(s) \/ ReadApplied(s) \/ SkipApplied(s) \/ ClaimAnswered(s) \/ ClaimRefused(s)
  \/ SkipClaimed(s) \/ RaiseFailed(s) \/ ApplyFails(s) \/ RaiseApplyError(s) \/ Finish(s)
  \/ Fault(s) \/ Refusal(s)

\* Only a claim makes a starter run a version.
LEMMA QuietIs ==
  ASSUME TypeInv, NEW s \in Starters, Quiet(s), NEW t \in Starters, Working(t)'
  PROVE  Working(t) /\ next'[t] = next[t]
<1> USE DEF TypeInv, TypeOK, Goto, bounds, Working
<1>1. CASE Start(s) \/ ReadApplied(s)
  BY <1>1 DEF Start, ReadApplied
<1>2. CASE SkipApplied(s) \/ SkipClaimed(s)
  BY <1>2 DEF SkipApplied, SkipClaimed, Continue
<1>3. CASE ClaimAnswered(s) \/ ClaimRefused(s)
  BY <1>3 DEF ClaimAnswered, ClaimRefused
<1>4. CASE RaiseFailed(s) \/ RaiseApplyError(s) \/ Finish(s)
  BY <1>4 DEF RaiseFailed, RaiseApplyError, Finish
<1>5. CASE ApplyFails(s)
  BY <1>5 DEF ApplyFails
<1>6. CASE Fault(s)
  BY <1>6 DEF Fault, ClaimTimesOut, MarkRaises, Crash, Fails
<1>7. CASE Refusal(s)
  BY <1>7 DEF Refusal
<1> QED BY <1>1, <1>2, <1>3, <1>4, <1>5, <1>6, <1>7 DEF Quiet

LEMMA QuietWrites ==
  ASSUME NEW s \in Starters, Quiet(s)
  PROVE  UNCHANGED <<live, schema>>
BY DEF Quiet, Start, ReadApplied, SkipApplied, ClaimAnswered, ClaimRefused, SkipClaimed,
   RaiseFailed, ApplyFails, RaiseApplyError, Finish, Fault, ClaimTimesOut, MarkRaises, Crash,
   Refusal

\* What the other steps write.
LEMMA WritesOne ==
  ASSUME TypeInv, NEW v \in Versions, NEW doc
  PROVE  /\ Put(live, v, doc)[v].doc = doc
         /\ \A u \in Versions : u # v => Put(live, v, doc)[u] = live[u]
BY PutReads DEF TypeInv, TypeOK

LEMMA MigrationsClaimed == RunsSpec => [](TypeInv /\ Claimed)
<1> USE MigrationAssumption
<1>1. Init => Claimed
  BY DEF Init, Claimed, Working
<1>2. TypeInv /\ Claimed /\ [Runs]_vars => Claimed'
  <2> SUFFICES ASSUME TypeInv, Claimed, [Runs]_vars PROVE Claimed'
    OBVIOUS
  <2>0. /\ pc \in [Starters -> Phases] /\ next \in [Starters -> Nat]
        /\ schema \subseteq Versions
        /\ \A t \in Starters : Working(t) => next[t] \in Versions
    BY DEF TypeInv, TypeOK, Working
  <2>1. ASSUME NEW s \in Starters, Quiet(s) PROVE Claimed'
    BY <2>1, QuietIs, QuietWrites DEF Claimed, HasStatus, Exists
  <2>2. ASSUME NEW s \in Starters, ClaimVersion(s) PROVE Claimed'
    <3>1. /\ next[s] \in Versions /\ ~Exists(live, next[s])
          /\ live' = Put(live, next[s], "applied") /\ UNCHANGED <<schema, next>>
          /\ pc' = [pc EXCEPT ![s] = "claim"]
      BY <2>2 DEF ClaimVersion, MayCreate, Goto
    <3>2. /\ HasStatus(live, next[s], "applied")'
          /\ \A u \in Versions : u # next[s] => live'[u] = live[u]
      BY <3>1, WritesOne DEF HasStatus, Exists, Statuses
    <3>3. next[s] \notin schema /\ \A t \in Starters : Working(t) => next[t] # next[s]
      BY <3>1 DEF Claimed, HasStatus
    <3>4. \A t \in Starters : t # s => Working(t)' = Working(t)
      BY <2>0, <3>1 DEF Working
    <3> QED BY <2>0, <3>1, <3>2, <3>3, <3>4 DEF Claimed, HasStatus, Exists
  <2>3. ASSUME NEW s \in Starters, MarkFailed(s) PROVE Claimed'
    <3>1. /\ Working(s) /\ next[s] \in Versions /\ UNCHANGED <<schema, next>>
          /\ live' = Put(live, next[s], "failed")
          /\ pc' = [pc EXCEPT ![s] = "marked"]
      BY <2>0, <2>3 DEF MarkFailed, Goto, Working, Claimed, HasStatus
    <3>2. \A u \in Versions : u # next[s] => live'[u] = live[u]
      BY <3>1, WritesOne
    <3>3. /\ ~Working(s)'
          /\ \A t \in Starters : t # s => Working(t)' = Working(t)
      BY <2>0, <3>1 DEF Working
    <3>4. next[s] \notin schema /\ \A t \in Starters : Working(t) /\ t # s => next[t] # next[s]
      BY <3>1 DEF Claimed
    <3> QED BY <2>0, <3>1, <3>2, <3>3, <3>4 DEF Claimed, HasStatus, Exists
  <2>4. ASSUME NEW s \in Starters, ApplySucceeds(s) PROVE Claimed'
    <3>1. /\ Working(s) /\ schema' = schema \union {next[s]} /\ live' = live
          /\ pc' = [pc EXCEPT ![s] = "step"]
          /\ next' = [next EXCEPT ![s] = next[s] + 1]
      BY <2>4 DEF ApplySucceeds, Continue, Goto, Working
    <3>2. /\ ~Working(s)'
          /\ \A t \in Starters : t # s => Working(t)' = Working(t) /\ next'[t] = next[t]
      BY <2>0, <3>1 DEF Working
    <3> QED BY <2>0, <3>1, <3>2 DEF Claimed, HasStatus, Exists
  <2>5. ASSUME NEW v \in Versions, ResetFailed(v) PROVE Claimed'
    <3>1. \A u \in Versions : HasStatus(live, u, "applied") => live'[u] = live[u]
      BY <2>5, WritesOne DEF ResetFailed, HasStatus
    <3>2. UNCHANGED <<pc, next, schema>>
      BY <2>5 DEF ResetFailed
    <3> QED BY <2>0, <3>1, <3>2 DEF Claimed, Working, HasStatus, Exists
  <2>6. CASE Refresh \/ UNCHANGED vars
    BY <2>6 DEF Refresh, vars, Claimed, Working, HasStatus, Exists
  <2> QED BY <2>1, <2>2, <2>3, <2>4, <2>5, <2>6 DEF Runs, Next, RunStep, Quiet
<1> QED BY <1>1, <1>2, MigrationsTypeInv, PTL DEF RunsSpec

LEMMA RunsExclusive == RunsSpec => []ExclusiveRun
<1>1. Claimed => ExclusiveRun
  BY DEF Claimed, ExclusiveRun
<1> QED BY <1>1, MigrationsClaimed, PTL

\* One starter at a time runs a version, and none after it has succeeded, for
\* any number of processes that start, fail, die and retry their requests.
THEOREM MigrationsExclusiveRun == Spec => []ExclusiveRun
BY RunsExclusive, SpecRuns, PTL

-----------------------------------------------------------------------------
\* a version that was known to have failed has failed, was not read as applied,
\* and is not behind its reader
Barred ==
  \A s \in Starters : \A v \in barred[s] :
    /\ HasStatus(live, v, "failed")
    /\ v \notin applied[s]
    /\ pc[s] \in {"step", "check"} \/ Working(s) => next[s] <= v

LEMMA MigrationsBarred == RunsSpec => [](TypeInv /\ Claimed /\ Barred)
<1> USE MigrationAssumption
<1>1. Init => Barred
  BY DEF Init, Barred
<1>2. TypeInv /\ Claimed /\ Barred /\ [Runs]_vars => Barred'
  <2> SUFFICES ASSUME TypeInv, Claimed, Barred, [Runs]_vars,
                      NEW t \in Starters, NEW v \in barred'[t]
               PROVE  /\ HasStatus(live, v, "failed")'
                      /\ v \notin applied'[t]
                      /\ pc'[t] \in {"step", "check"} \/ Working(t)' => next'[t] <= v
    BY DEF Barred
  <2> DEFINE AtHand == pc[t] \in {"step", "check"} \/ Working(t)
  <2>0. /\ pc \in [Starters -> Phases] /\ next \in [Starters -> Nat]
        /\ barred \in [Starters -> SUBSET Versions]
        /\ applied \in [Starters -> SUBSET Versions]
        /\ Versions \subseteq Nat /\ \A u \in Versions : 1 <= u
    BY DEF TypeInv, TypeOK, Versions
  <2>1. ASSUME v \in barred[t]
        PROVE  /\ v \in Versions /\ HasStatus(live, v, "failed") /\ ~HasStatus(live, v, "applied")
               /\ v \notin applied[t]
               /\ AtHand => next[t] <= v
               /\ AtHand /\ next[t] # v => next[t] + 1 <= v
    <3>1. v \in Versions /\ HasStatus(live, v, "failed") /\ v \notin applied[t]
          /\ (AtHand => next[t] <= v)
      BY <2>0, <2>1 DEF Barred
    <3>2. v \in Nat /\ next[t] \in Nat
      BY <2>0, <3>1
    <3>3. next[t] <= v /\ next[t] # v => next[t] + 1 <= v
      BY ONLY <3>2
    <3> QED BY <3>1, <3>3 DEF HasStatus
  <2>2. ASSUME NEW s \in Starters, ReadApplied(s) PROVE barred'[t] = barred[t] \/ t = s
    BY <2>0, <2>2 DEF ReadApplied
  <2>3. ASSUME ReadApplied(t)
        PROVE  /\ HasStatus(live, v, "failed")' /\ v \notin applied'[t] /\ next'[t] <= v
    BY <2>0, <2>3 DEF ReadApplied, AppliedVersions, HasStatus, Exists
  <2>4. ASSUME NEW s \in Starters, Quiet(s), ~ReadApplied(s)
        PROVE  UNCHANGED <<live, applied, barred>>
    BY <2>4 DEF Quiet, Start, SkipApplied, ClaimAnswered, ClaimRefused, SkipClaimed, RaiseFailed,
       ApplyFails, RaiseApplyError, Finish, Fault, ClaimTimesOut, MarkRaises, Crash, Refusal
  <2>5. ASSUME NEW s \in Starters, Quiet(s), s # t PROVE UNCHANGED <<pc[t], next[t]>>
    BY <2>0, <2>5 DEF Quiet, Start, ReadApplied, SkipApplied, ClaimAnswered, ClaimRefused,
       SkipClaimed, RaiseFailed, ApplyFails, RaiseApplyError, Finish, Fault, ClaimTimesOut,
       MarkRaises, Crash, Refusal, Continue, Goto
  <2>6. ASSUME Quiet(t), v \in barred[t], ~ReadApplied(t),
               pc'[t] \in {"step", "check"} \/ Working(t)'
        PROVE  next'[t] <= v
    <3>1. CASE SkipApplied(t)
      BY <2>0, <2>1, <2>6, <3>1 DEF SkipApplied, Continue
    <3>2. CASE SkipClaimed(t)
      BY <2>0, <2>1, <2>6, <3>2 DEF SkipClaimed, Continue
    <3>3. CASE ClaimAnswered(t) \/ ClaimRefused(t) \/ ApplyFails(t) \/ Refusal(t) \/ ClaimTimesOut(t)
      BY <2>1, <2>6, <3>3
      DEF ClaimAnswered, ClaimRefused, ApplyFails, Refusal, ClaimTimesOut, Working
    <3>4. CASE Start(t) \/ RaiseFailed(t) \/ RaiseApplyError(t) \/ Finish(t) \/ MarkRaises(t) \/ Crash(t)
      BY <2>0, <2>6, <3>4 DEF Start, RaiseFailed, RaiseApplyError, Finish, MarkRaises, Crash, Goto,
         Working
    <3> QED BY <2>6, <3>1, <3>2, <3>3, <3>4 DEF Quiet, Fault
  <2>7. ASSUME NEW s \in Starters, Quiet(s)
        PROVE  /\ HasStatus(live, v, "failed")' /\ v \notin applied'[t]
               /\ pc'[t] \in {"step", "check"} \/ Working(t)' => next'[t] <= v
    <3>1. CASE s = t /\ ReadApplied(s)
      BY <2>3, <3>1
    <3>2. CASE s # t /\ ReadApplied(s)
      <4>1. UNCHANGED <<live, applied[t], barred[t], pc[t], next[t]>>
        BY <2>0, <2>2, <2>5, <2>7, <3>2 DEF ReadApplied
      <4> QED BY <2>1, <4>1 DEF HasStatus, Exists, Working
    <3>3. CASE s # t /\ ~ReadApplied(s)
      <4>1. UNCHANGED <<live, applied, barred, pc[t], next[t]>>
        BY <2>4, <2>5, <2>7, <3>3
      <4> QED BY <2>1, <4>1 DEF HasStatus, Exists, Working
    <3>4. CASE s = t /\ ~ReadApplied(s)
      <4>1. UNCHANGED <<live, applied, barred>>
        BY <2>4, <2>7, <3>4
      <4> QED BY <2>1, <2>6, <2>7, <3>4, <4>1 DEF HasStatus, Exists
    <3> QED BY <3>1, <3>2, <3>3, <3>4
  <2>8. ASSUME NEW s \in Starters, ClaimVersion(s)
        PROVE  /\ HasStatus(live, v, "failed")' /\ v \notin applied'[t]
               /\ pc'[t] \in {"step", "check"} \/ Working(t)' => next'[t] <= v
    <3>1. /\ next[s] \in Versions /\ ~Exists(live, next[s]) /\ pc[s] = "step"
          /\ live' = Put(live, next[s], "applied") /\ UNCHANGED <<applied, barred, next>>
          /\ pc' = [pc EXCEPT ![s] = "claim"]
      BY <2>8 DEF ClaimVersion, MayCreate, Goto
    <3>2. live'[v] = live[v]
      BY <2>1, <3>1, WritesOne DEF HasStatus
    <3>3. pc'[t] \in {"step", "check"} \/ Working(t)' => AtHand
      BY <2>0, <3>1 DEF Working
    <3> QED BY <2>1, <3>1, <3>2, <3>3 DEF HasStatus, Exists
  <2>9. ASSUME NEW s \in Starters, MarkFailed(s)
        PROVE  /\ HasStatus(live, v, "failed")' /\ v \notin applied'[t]
               /\ pc'[t] \in {"step", "check"} \/ Working(t)' => next'[t] <= v
    <3>1. /\ next[s] \in Versions /\ Working(s) /\ UNCHANGED <<applied, barred, next>>
          /\ live' = Put(live, next[s], "failed") /\ HasStatus(live, next[s], "applied")
          /\ pc' = [pc EXCEPT ![s] = "marked"]
      BY <2>9 DEF MarkFailed, Goto, Working, TypeInv, Claimed, HasStatus
    <3>2. live'[v] = live[v]
      BY <2>1, <3>1, WritesOne
    <3>3. pc'[t] \in {"step", "check"} \/ Working(t)' => AtHand
      BY <2>0, <3>1 DEF Working
    <3> QED BY <2>1, <3>1, <3>2, <3>3 DEF HasStatus, Exists
  <2>10. ASSUME NEW s \in Starters, ApplySucceeds(s)
        PROVE  /\ HasStatus(live, v, "failed")' /\ v \notin applied'[t]
               /\ pc'[t] \in {"step", "check"} \/ Working(t)' => next'[t] <= v
    <3>1. /\ Working(s) /\ HasStatus(live, next[s], "applied")
          /\ UNCHANGED <<live, applied, barred>>
          /\ pc' = [pc EXCEPT ![s] = "step"]
          /\ next' = [next EXCEPT ![s] = next[s] + 1]
      BY <2>10 DEF ApplySucceeds, Continue, Goto, Working, Claimed
    <3>2. CASE t = s
      BY <2>0, <2>1, <3>1, <3>2 DEF HasStatus, Exists
    <3>3. CASE t # s
      BY <2>0, <2>1, <3>1, <3>3 DEF HasStatus, Exists, Working
    <3> QED BY <3>2, <3>3
  <2>11. ASSUME NEW u \in Versions, ResetFailed(u)
        PROVE  /\ HasStatus(live, v, "failed")' /\ v \notin applied'[t]
               /\ pc'[t] \in {"step", "check"} \/ Working(t)' => next'[t] <= v
    <3>1. /\ live' = Put(live, u, Missing) /\ UNCHANGED <<pc, applied, next>>
          /\ v \in barred[t] /\ v # u
      BY <2>11 DEF ResetFailed
    <3>2. live'[v] = live[v]
      BY <2>1, <3>1, WritesOne
    <3> QED BY <2>1, <3>1, <3>2 DEF HasStatus, Exists, Working
  <2>12. ASSUME Refresh \/ UNCHANGED vars
        PROVE  /\ HasStatus(live, v, "failed")' /\ v \notin applied'[t]
               /\ pc'[t] \in {"step", "check"} \/ Working(t)' => next'[t] <= v
    <3>1. UNCHANGED <<live, pc, applied, next, barred>>
      BY <2>12 DEF Refresh, vars
    <3> QED BY <2>1, <3>1 DEF HasStatus, Exists, Working
  <2> QED BY <2>7, <2>8, <2>9, <2>10, <2>11, <2>12 DEF Runs, Next, RunStep, Quiet
<1> QED BY <1>1, <1>2, MigrationsClaimed, PTL DEF RunsSpec

LEMMA RunsFailureBlocks == RunsSpec => []FailureBlocks
<1>1. TypeInv /\ Claimed /\ Barred => FailureBlocks
  <2> SUFFICES ASSUME TypeInv, Claimed, Barred, NEW s \in Starters, Working(s), NEW v \in barred[s]
               PROVE  next[s] < v
    BY DEF FailureBlocks
  <2>1. next[s] <= v /\ next[s] # v
    BY DEF Barred, Claimed, HasStatus
  <2>2. next[s] \in Nat /\ v \in Nat
    BY DEF TypeInv, TypeOK, Versions
  <2> QED BY <2>1, <2>2
<1> QED BY <1>1, MigrationsBarred, PTL

\* A starter that has read a failure runs neither the version that failed nor
\* a later one, however the failure came about.
THEOREM MigrationsFailureBlocks == Spec => []FailureBlocks
BY RunsFailureBlocks, SpecRuns, PTL

-----------------------------------------------------------------------------
LEMMA RunsAppliedIsTrue == RunsSpec => []AppliedIsTrue
<1> USE MigrationAssumption
<1>1. Init => AppliedIsTrue
  BY DEF Init, AppliedIsTrue, EmptyIndex, HasStatus, Exists
<1>2. TypeInv /\ Claimed /\ AppliedIsTrue /\ [Runs]_vars => AppliedIsTrue'
  <2> SUFFICES ASSUME TypeInv, Claimed, AppliedIsTrue, [Runs]_vars,
                      NEW v \in Versions, HasStatus(live, v, "applied")'
               PROVE  v \in (schema \union faults.lost)' \/ \E s \in Starters : Working(s)' /\ next'[s] = v
    BY DEF AppliedIsTrue
  <2>0. /\ pc \in [Starters -> Phases] /\ next \in [Starters -> Nat]
        /\ faults \in [count : Nat, lost : SUBSET Versions]
    BY DEF TypeInv, TypeOK
  <2> DEFINE Explained == v \in (schema \union faults.lost)' \/ \E s \in Starters : Working(s)' /\ next'[s] = v
  <2>1. faults' = faults \/ \E s \in Starters : Fault(s)
    BY DEF Runs, Refusal, Next, RunStep, Start, ReadApplied, SkipApplied, ClaimVersion, ClaimAnswered,
       ClaimRefused, SkipClaimed, RaiseFailed, ApplySucceeds, ApplyFails, MarkFailed,
       RaiseApplyError, Finish, ResetFailed, Refresh, vars, bounds
  <2>2. ASSUME NEW r \in Starters, Start(r) \/ RunStep(r) \/ Refusal(r), ~ClaimVersion(r), ~MarkFailed(r),
               ~ApplySucceeds(r)
        PROVE  /\ UNCHANGED <<live, schema, faults>>
               /\ \A s \in Starters : Working(s) => Working(s)' /\ next'[s] = next[s]
    BY <2>0, <2>2 DEF RunStep, Refusal, Start, ReadApplied, SkipApplied, ClaimAnswered, ClaimRefused,
       SkipClaimed, RaiseFailed, ApplyFails, RaiseApplyError, Finish, Continue, Goto, Working,
       bounds
  <2>3. ASSUME NEW r \in Starters, ClaimVersion(r) PROVE Explained
    <3>1. /\ next[r] \in Versions /\ live' = Put(live, next[r], "applied") /\ pc[r] = "step"
          /\ pc' = [pc EXCEPT ![r] = "claim"] /\ UNCHANGED <<schema, next, faults>>
      BY <2>3 DEF ClaimVersion, Goto, bounds
    <3>2. CASE v = next[r]
      BY <2>0, <3>1, <3>2 DEF Working
    <3>3. CASE v # next[r]
      <4>1. HasStatus(live, v, "applied")
        BY <3>1, <3>3, WritesOne DEF HasStatus, Exists
      <4>2. \A s \in Starters : Working(s) => Working(s)'
        BY <2>0, <3>1 DEF Working
      <4> QED BY <3>1, <4>1, <4>2 DEF AppliedIsTrue
    <3> QED BY <3>2, <3>3
  <2>4. ASSUME NEW r \in Starters, MarkFailed(r) PROVE Explained
    <3>1. /\ next[r] \in Versions /\ live' = Put(live, next[r], "failed")
          /\ pc' = [pc EXCEPT ![r] = "marked"] /\ UNCHANGED <<schema, next, faults>>
      BY <2>4 DEF MarkFailed, Goto, Working, TypeInv, Claimed, HasStatus, bounds
    <3>2. v # next[r] /\ HasStatus(live, v, "applied")
      BY <3>1, WritesOne DEF HasStatus, Exists
    <3>3. \A s \in Starters : s # r /\ Working(s) => Working(s)'
      BY <2>0, <3>1 DEF Working
    <3> QED BY <3>1, <3>2, <3>3 DEF AppliedIsTrue
  <2>5. ASSUME NEW r \in Starters, ApplySucceeds(r) PROVE Explained
    <3>1. /\ live' = live /\ schema' = schema \union {next[r]} /\ faults' = faults
          /\ \A s \in Starters : s # r /\ Working(s) => Working(s)' /\ next'[s] = next[s]
      BY <2>0, <2>5 DEF ApplySucceeds, Continue, Goto, Working, bounds
    <3> QED BY <3>1 DEF AppliedIsTrue, HasStatus, Exists
  <2>6. ASSUME NEW u \in Versions, ResetFailed(u) PROVE Explained
    <3>1. HasStatus(live, v, "applied") /\ UNCHANGED <<schema, pc, next, faults>>
      BY <2>6, WritesOne DEF ResetFailed, HasStatus, Exists, bounds
    <3> QED BY <3>1 DEF AppliedIsTrue, Working
  <2>7. ASSUME Refresh \/ UNCHANGED vars PROVE Explained
    <3>1. UNCHANGED <<live, schema, pc, next, faults>>
      BY <2>7 DEF Refresh, vars, bounds
    <3> QED BY <3>1 DEF AppliedIsTrue, Working, HasStatus, Exists
  <2>8. ASSUME NEW r \in Starters, Start(r) \/ RunStep(r) \/ Refusal(r), ~ClaimVersion(r), ~MarkFailed(r),
               ~ApplySucceeds(r)
        PROVE  Explained
    BY <2>2, <2>8 DEF AppliedIsTrue, HasStatus, Exists
  \* what the starter had in hand is lost, and the others go on
  <2>9. ASSUME NEW r \in Starters, Fault(r) PROVE Explained
    <3>1. UNCHANGED <<live, schema, next>> /\ faults'.lost = faults.lost \union InHand(r)
      BY <2>0, <2>9 DEF Fault, ClaimTimesOut, MarkRaises, Crash, Fails
    <3>2. \A s \in Starters : s # r /\ Working(s) => Working(s)'
      BY <2>0, <2>9 DEF Fault, ClaimTimesOut, MarkRaises, Crash, Goto, Working
    <3>3. CASE \E s \in Starters : s # r /\ Working(s) /\ next[s] = v
      BY <3>1, <3>2, <3>3
    <3>4. CASE Working(r) /\ next[r] = v
      BY <3>1, <3>4 DEF InHand
    <3>5. CASE v \in schema \union faults.lost
      BY <3>1, <3>5
    <3> QED BY <3>1, <3>3, <3>4, <3>5 DEF AppliedIsTrue, HasStatus, Exists
  <2> QED BY <2>3, <2>4, <2>5, <2>6, <2>7, <2>8, <2>9 DEF Runs, Next
<1> QED BY <1>1, <1>2, MigrationsClaimed, PTL DEF RunsSpec

\* A document that says "applied" belongs to a version that has been run, is
\* being run, or was being run when a fault ended its run.
THEOREM MigrationsAppliedIsTrue == Spec => []AppliedIsTrue
BY RunsAppliedIsTrue, SpecRuns, PTL

-----------------------------------------------------------------------------
(* Processes that start, serve and stop *)

\* What is served and stored changes nothing in how versions are run: every
\* step of a process is one of run_migrations, or leaves it where it was.
THEOREM StartupRunsMigrations == StartupSpec => RunsSpec
<1>1. StartupInit => Init
  BY DEF StartupInit
<1>2. [StartupNext]_startupVars => [Runs]_vars
  <2> SUFFICES ASSUME [StartupNext]_startupVars PROVE [Runs]_vars
    OBVIOUS
  <2>1. ASSUME NEW s \in Starters, Begin(s) \/ Die(s) PROVE Runs
    BY <2>1 DEF Begin, RunMigrations, Initialize, Die, Runs, Next, Fault
  <2>2. ASSUME NEW s \in Starters, Lifecycle(s) \/ Shutdown(s) PROVE UNCHANGED vars
    BY <2>2 DEF Lifecycle, ThreadJoined, Initialized, Shutdown
  <2>3. ASSUME NEW s \in Starters, Runner(s) PROVE Runs
    BY <2>3 DEF Runner, Runs, Next, RunStep
  <2>4. ASSUME NEW s \in Starters, VersionStep(s) PROVE Runs \/ UNCHANGED vars
    BY <2>4 DEF VersionStep, CreateIndex, CreateCopy, Reindex, DeleteOld, AddAlias, StepRaises,
       Applying, Refusal, Runs, Next, RunStep
  <2>5. ASSUME NEW s \in Starters, ClaimTimesOut(s) \/ MarkRaises(s) PROVE Runs
    BY <2>5 DEF Runs, Next, Fault
  <2>6. ASSUME NEW s \in Starters, NEW d \in Docs, Write(s, d) PROVE UNCHANGED vars
    BY <2>6 DEF Write
  <2>7. ASSUME Refresh \/ \E v \in Versions : ResetFailed(v) PROVE Runs
    BY <2>7 DEF Runs, Next
  <2>8. CASE UNCHANGED startupVars
    BY <2>8 DEF startupVars
  <2> QED BY <2>1, <2>2, <2>3, <2>4, <2>5, <2>6, <2>7, <2>8 DEF StartupNext
<1> QED BY <1>1, <1>2, PTL DEF StartupSpec, RunsSpec

\* The runs of the migrations keep their properties whatever the processes do
\* besides: one at a time, none after a failure, and a document that tells the
\* truth.
THEOREM StartupKeepsMigrations ==
  StartupSpec => [](ExclusiveRun /\ FailureBlocks /\ AppliedIsTrue)
BY StartupRunsMigrations, RunsExclusive, RunsFailureBlocks, RunsAppliedIsTrue, PTL

\* what the tracking index remembers of the versions
UsedInv ==
  /\ \A v \in Versions : Exists(live, v) \/ Exists(snap, v) => Used(live, v)
  /\ \A s \in Starters : \A v \in Versions : v \in applied[s] \/ v < next[s] => Used(live, v)
  /\ \A s \in Starters : pc[s] = "ready" => next[s] > Last

\* A version that has been claimed once stays known: a write of its document,
\* and its deletion by the operator too, leave a trace.
LEMMA StaysUsed ==
  ASSUME TypeInv, [Runs]_vars, NEW v \in Versions, Used(live, v)
  PROVE  Used(live, v)'
<1>1. CASE live' = live
  BY <1>1 DEF Used
<1>2. ASSUME NEW u \in Versions, NEW doc, live' = Put(live, u, doc) PROVE Used(live, v)'
  <2>1. live'[v] = IF u = v THEN [seq |-> live[u].seq + 1, doc |-> doc] ELSE live[v]
    BY <1>2 DEF Put, TypeInv, TypeOK
  <2>2. live[v].seq \in Nat
    BY DEF TypeInv, TypeOK, Copies
  <2> QED BY <2>1, <2>2 DEF Used
<1>3. ASSUME NEW s \in Starters, ClaimVersion(s) \/ MarkFailed(s) PROVE Used(live, v)'
  <2>1. next[s] \in Versions
    BY <1>3 DEF ClaimVersion, MarkFailed, TypeInv
  <2> QED BY <1>1, <1>2, <1>3, <2>1 DEF ClaimVersion, MarkFailed
<1>4. ASSUME NEW u \in Versions, ResetFailed(u) PROVE Used(live, v)'
  BY <1>2, <1>4 DEF ResetFailed
<1>5. ASSUME NEW s \in Starters, Quiet(s) \/ ApplySucceeds(s) PROVE live' = live
  BY <1>5, QuietWrites DEF ApplySucceeds
<1>6. CASE Refresh \/ UNCHANGED vars
  BY <1>1, <1>6 DEF Refresh, vars
<1> QED BY <1>1, <1>3, <1>4, <1>5, <1>6 DEF Runs, Next, RunStep, Quiet

LEMMA MigrationsUsed == RunsSpec => [](TypeInv /\ UsedInv)
<1> USE MigrationAssumption
<1>1. Init => UsedInv
  BY DEF Init, UsedInv, EmptyIndex, Exists, Versions
<1>2. TypeInv /\ TypeInv' /\ Claimed /\ UsedInv /\ [Runs]_vars => UsedInv'
  <2> SUFFICES ASSUME TypeInv, TypeInv', Claimed, UsedInv, [Runs]_vars PROVE UsedInv'
    OBVIOUS
  <2>0. /\ pc \in [Starters -> Phases] /\ next \in [Starters -> Nat]
        /\ applied \in [Starters -> SUBSET Versions]
        /\ Versions \subseteq Nat /\ \A u \in Versions : 1 <= u
    BY DEF TypeInv, TypeOK, Versions
  <2>1. ASSUME NEW v \in Versions, Exists(live, v)' PROVE Used(live, v)'
    <3>1. CASE live' = live
      BY <2>1, <3>1 DEF UsedInv, Exists, Used
    <3>2. ASSUME NEW u \in Versions, NEW doc, live' = Put(live, u, doc) PROVE Used(live, v)'
      <4>1. live'[v] = IF u = v THEN [seq |-> live[u].seq + 1, doc |-> doc] ELSE live[v]
        BY <3>2 DEF Put, TypeInv, TypeOK
      <4>2. live[u].seq \in Nat
        BY DEF TypeInv, TypeOK, Copies
      <4> QED BY <2>1, <4>1, <4>2 DEF Used, Exists, UsedInv
    <3>3. ASSUME NEW s \in Starters, ClaimVersion(s) \/ MarkFailed(s) PROVE Used(live, v)'
      <4>1. next[s] \in Versions
        BY <3>3 DEF ClaimVersion, MarkFailed, TypeInv
      <4> QED BY <3>1, <3>2, <3>3, <4>1 DEF ClaimVersion, MarkFailed
    <3>4. ASSUME NEW u \in Versions, ResetFailed(u) PROVE Used(live, v)'
      BY <3>2, <3>4 DEF ResetFailed
    <3>5. ASSUME NEW s \in Starters, Quiet(s) \/ ApplySucceeds(s) PROVE live' = live
      BY <3>5, QuietWrites DEF ApplySucceeds
    <3>6. CASE Refresh \/ UNCHANGED vars
      BY <3>1, <3>6 DEF Refresh, vars
    <3> QED BY <3>1, <3>3, <3>4, <3>5, <3>6 DEF Runs, Next, RunStep, Quiet
  <2>2. ASSUME NEW v \in Versions, Exists(snap, v)' PROVE Used(live, v)'
    <3>1. CASE snap' = snap
      BY <2>2, <3>1, StaysUsed DEF UsedInv, Exists
    <3>2. CASE Refresh
      BY <2>1, <2>2, <3>2 DEF Refresh, Exists
    <3>3. ASSUME NEW s \in Starters, Start(s) \/ RunStep(s) \/ Fault(s) \/ Refusal(s) PROVE snap' = snap
      BY <3>3 DEF RunStep, Start, ReadApplied, SkipApplied, ClaimVersion, ClaimAnswered,
         ClaimRefused, SkipClaimed, RaiseFailed, ApplySucceeds, ApplyFails, MarkFailed,
         RaiseApplyError, Finish, Fault, ClaimTimesOut, MarkRaises, Crash, Refusal
    <3>4. ASSUME NEW u \in Versions, ResetFailed(u) PROVE snap' = snap
      BY <3>4 DEF ResetFailed
    <3>5. CASE UNCHANGED vars
      BY <3>1, <3>5 DEF vars
    <3> QED BY <3>1, <3>2, <3>3, <3>4, <3>5 DEF Runs, Next
  \* what a starter knows: it has read it, or passed it
  <2>3. ASSUME NEW t \in Starters
        PROVE  /\ \A v \in Versions : v \in applied'[t] \/ v < next'[t] => Used(live, v)
               /\ pc'[t] = "ready" => next'[t] > Last
    <3> DEFINE Knows == /\ \A v \in Versions : v \in applied'[t] \/ v < next'[t] => Used(live, v)
                        /\ pc'[t] = "ready" => next'[t] > Last
    <3>0. \A v \in Versions : v < next[t] + 1 => v < next[t] \/ v = next[t]
      BY <2>0
    <3>1. ASSUME NEW s \in Starters, Start(s) \/ RunStep(s) \/ Fault(s) \/ Refusal(s), s # t
          PROVE  Knows
      <4>1. UNCHANGED <<pc[t], next[t], applied[t]>>
        BY <2>0, <3>1 DEF RunStep, Start, ReadApplied, SkipApplied, ClaimVersion, ClaimAnswered,
           ClaimRefused, SkipClaimed, RaiseFailed, ApplySucceeds, ApplyFails, MarkFailed,
           RaiseApplyError, Finish, Fault, ClaimTimesOut, MarkRaises, Crash, Refusal, Continue,
           Goto
      <4> QED BY <4>1 DEF UsedInv
    <3>2. CASE ReadApplied(t)
      <4>1. /\ applied'[t] = AppliedVersions /\ next'[t] = 1 /\ pc'[t] = "step"
        BY <2>0, <3>2 DEF ReadApplied, Goto
      <4>2. \A v \in AppliedVersions : Used(live, v)
        BY DEF AppliedVersions, HasStatus, UsedInv
      <4> QED BY <2>0, <4>1, <4>2
    <3>3. CASE SkipApplied(t) \/ SkipClaimed(t) \/ ApplySucceeds(t)
      <4>1. /\ pc'[t] = "step" /\ next'[t] = next[t] + 1 /\ applied'[t] = applied[t]
        BY <2>0, <3>3 DEF SkipApplied, SkipClaimed, ApplySucceeds, Continue, Goto
      <4>2. next[t] \in Versions => Used(live, next[t])
        BY <3>3 DEF SkipApplied, SkipClaimed, ApplySucceeds, UsedInv, Claimed, Working, HasStatus
      <4> QED BY <3>0, <4>1, <4>2 DEF UsedInv
    <3>4. CASE Finish(t)
      BY <2>0, <3>4 DEF Finish, Goto, UsedInv
    <3>5. CASE \/ Start(t) \/ ClaimVersion(t) \/ ClaimAnswered(t) \/ ClaimRefused(t)
               \/ RaiseFailed(t) \/ ApplyFails(t) \/ MarkFailed(t) \/ RaiseApplyError(t)
               \/ Fault(t) \/ Refusal(t)
      <4>1. pc'[t] # "ready" /\ UNCHANGED <<next, applied>>
        BY <2>0, <3>5 DEF Start, ClaimVersion, ClaimAnswered, ClaimRefused, RaiseFailed, ApplyFails,
           MarkFailed, RaiseApplyError, Fault, ClaimTimesOut, MarkRaises, Crash, Refusal, Goto
      <4> QED BY <4>1 DEF UsedInv
    <3>6. CASE Refresh \/ UNCHANGED vars
      BY <3>6 DEF Refresh, vars, UsedInv
    <3>7. ASSUME NEW u \in Versions, ResetFailed(u) PROVE Knows
      BY <3>7 DEF ResetFailed, UsedInv
    <3> QED BY <3>1, <3>2, <3>3, <3>4, <3>5, <3>6, <3>7 DEF Runs, Next, RunStep
  <2> QED BY <2>1, <2>2, <2>3, StaysUsed DEF UsedInv
<1> QED BY <1>1, <1>2, MigrationsClaimed, PTL DEF RunsSpec

-----------------------------------------------------------------------------
(* The tracking index as a ledger *)

\* the entries and the runners of all versions, as Ledger sees them
Entries == [v \in Versions |-> Entry(v)]
RunnersOf == [v \in Versions |-> Runners(v)]

\* The mapping by its names.
LEMMA LedgerIs ==
  /\ [v \in Versions |-> Entry(v)] = Entries /\ [v \in Versions |-> Entry(v)'] = Entries'
  /\ [v \in Versions |-> Runners(v)] = RunnersOf /\ [v \in Versions |-> Runners(v)'] = RunnersOf'
BY DEF Entries, RunnersOf

\* a version whose run was lost says "applied" and is never run
LostInv ==
  \A v \in faults.lost :
    /\ HasStatus(live, v, "applied") /\ v \notin schema
    /\ \A s \in Starters : ~(Working(s) /\ next[s] = v)

\* Neither the entries nor who is at them have changed.
LEMMA QuietLedger ==
  ASSUME UNCHANGED <<live, schema, faults>>, \A v \in Versions : Runners(v)' = Runners(v)
  PROVE  UNCHANGED G!vars
<1>1. Entries' = Entries
  BY DEF Entries, Entry, Used, Exists, HasStatus
<1>2. RunnersOf' = RunnersOf
  BY DEF RunnersOf
<1> QED BY <1>1, <1>2, LedgerIs DEF G!vars

\* One document is written, and the run of one version begins or ends.
LEMMA OneEntry ==
  ASSUME TypeInv, NEW v \in Versions, NEW doc, live' = Put(live, v, doc),
         UNCHANGED <<schema, faults>>
  PROVE  /\ \A u \in Versions : u # v => Entry(u)' = Entry(u)
         /\ Used(live, v)' /\ live'[v].doc = doc
<1>1. /\ live'[v].doc = doc /\ live'[v].seq = live[v].seq + 1 /\ live[v].seq \in Nat
      /\ \A u \in Versions : u # v => live'[u] = live[u]
  BY PutReads DEF TypeInv, TypeOK
<1>2. \A u \in Versions : u # v => Entry(u)' = Entry(u)
  BY <1>1 DEF Entry, Used, Exists, HasStatus
<1>3. Used(live, v)'
  BY <1>1 DEF Used
<1> QED BY <1>1, <1>2, <1>3

\* Who is at a version, when one starter has moved.
LEMMA OneRunner ==
  ASSUME TypeInv, NEW s \in Starters, NEW v \in Versions,
         \A t \in Starters \ {s} : Working(t)' = Working(t) /\ next'[t] = next[t],
         Working(s) => next[s] = v, Working(s)' => next'[s] = v
  PROVE  \A u \in Versions : u # v => Runners(u)' = Runners(u)
<1>1. ASSUME NEW u \in Versions, u # v, NEW t \in Starters
      PROVE  (Working(t)' /\ next'[t] = u) <=> (Working(t) /\ next[t] = u)
  BY <1>1
<1> QED BY <1>1 DEF Runners

\* What a starter runs is entered so, and it is alone with it.
LEMMA RunningIs ==
  ASSUME TypeInv, Claimed, UsedInv, LostInv, NEW s \in Starters, Working(s)
  PROVE  /\ next[s] \in Versions /\ Entry(next[s]) = "running" /\ Runners(next[s]) = {s}
<1>1. next[s] \in Versions
  BY DEF TypeInv, Working
<1>2. HasStatus(live, next[s], "applied") /\ next[s] \notin schema /\ next[s] \notin faults.lost
  BY DEF Claimed, LostInv
<1>3. Entry(next[s]) = "running"
  BY <1>1, <1>2 DEF Entry, UsedInv, HasStatus
<1>4. Runners(next[s]) = {s}
  BY DEF Runners, Claimed
<1> QED BY <1>1, <1>3, <1>4

LEMMA LostInvStep ==
  ASSUME TypeInv, Claimed, LostInv, [Runs]_vars
  PROVE  LostInv'
<1> USE DEF TypeInv, TypeOK
<1>1. ASSUME NEW s \in Starters, Quiet(s), ~Fault(s) PROVE LostInv'
  <2>1. UNCHANGED faults
    BY <1>1 DEF Quiet, Start, ReadApplied, SkipApplied, ClaimAnswered, ClaimRefused, SkipClaimed,
       RaiseFailed, ApplyFails, RaiseApplyError, Finish, Refusal, bounds
  <2> QED BY <1>1, <2>1, QuietIs, QuietWrites DEF LostInv, HasStatus, Exists
<1>2. ASSUME NEW s \in Starters, Fault(s) PROVE LostInv'
  <2>1. UNCHANGED <<live, schema, next>> /\ faults'.lost = faults.lost \union InHand(s)
    BY <1>2 DEF Fault, ClaimTimesOut, MarkRaises, Crash, Fails
  <2>2. ~Working(s)' /\ \A t \in Starters : t # s => Working(t)' = Working(t)
    BY <1>2 DEF Fault, ClaimTimesOut, MarkRaises, Crash, Goto, Working, Phases
  <2>3. ASSUME NEW v \in InHand(s)
        PROVE  /\ HasStatus(live, v, "applied") /\ v \notin schema
               /\ \A t \in Starters : ~(Working(t)' /\ next[t] = v)
    BY <2>2 DEF InHand, Claimed
  <2>4. ASSUME NEW v \in faults.lost
        PROVE  /\ HasStatus(live, v, "applied") /\ v \notin schema
               /\ \A t \in Starters : ~(Working(t)' /\ next[t] = v)
    BY <2>2 DEF LostInv
  <2> QED BY <2>1, <2>3, <2>4 DEF LostInv, HasStatus, Exists
<1>3. ASSUME NEW s \in Starters, ClaimVersion(s) PROVE LostInv'
  <2>1. /\ next[s] \in Versions /\ ~Exists(live, next[s]) /\ UNCHANGED <<schema, next, faults>>
        /\ live' = Put(live, next[s], "applied")
        /\ \A t \in Starters : t # s => Working(t)' = Working(t)
    BY <1>3 DEF ClaimVersion, MayCreate, Goto, Working, bounds
  <2>2. \A v \in faults.lost : v # next[s] /\ v \in Versions
    BY <2>1 DEF LostInv, HasStatus
  <2> QED BY <2>1, <2>2, WritesOne DEF LostInv, HasStatus, Exists
<1>4. ASSUME NEW s \in Starters, MarkFailed(s) PROVE LostInv'
  <2>1. /\ next[s] \in Versions /\ Working(s) /\ UNCHANGED <<schema, next, faults>>
        /\ live' = Put(live, next[s], "failed")
        /\ \A t \in Starters : Working(t)' => Working(t)
    BY <1>4 DEF MarkFailed, Goto, Working, Claimed, HasStatus, bounds
  <2>2. \A v \in faults.lost : v # next[s] /\ v \in Versions
    BY <2>1 DEF LostInv
  <2> QED BY <2>1, <2>2, WritesOne DEF LostInv, HasStatus, Exists
<1>5. ASSUME NEW s \in Starters, ApplySucceeds(s) PROVE LostInv'
  <2>1. /\ Working(s) /\ UNCHANGED <<live, faults>> /\ schema' = schema \union {next[s]}
        /\ ~Working(s)'
        /\ \A t \in Starters : t # s => Working(t)' = Working(t) /\ next'[t] = next[t]
    BY <1>5 DEF ApplySucceeds, Continue, Goto, Working, bounds
  <2> QED BY <2>1 DEF LostInv, HasStatus, Exists
<1>6. ASSUME NEW u \in Versions, ResetFailed(u) PROVE LostInv'
  <2>1. live' = Put(live, u, Missing) /\ UNCHANGED <<schema, pc, next, faults>>
    BY <1>6 DEF ResetFailed, bounds
  <2>2. \A v \in faults.lost : v # u /\ v \in Versions
    BY <1>6 DEF ResetFailed, LostInv, HasStatus
  <2> QED BY <2>1, <2>2, WritesOne DEF LostInv, Working, HasStatus, Exists
<1>7. CASE Refresh \/ UNCHANGED vars
  BY <1>7 DEF Refresh, vars, bounds, LostInv, Working, HasStatus, Exists
<1> QED BY <1>1, <1>2, <1>3, <1>4, <1>5, <1>6, <1>7 DEF Runs, Next, RunStep, Quiet

\* Every step of the migrations is one of the ledger, or does not touch it.
LEMMA LedgerStep ==
  ASSUME TypeInv, Claimed, UsedInv, LostInv, [Runs]_vars
  PROVE  [G!Next]_(G!vars)
<1> USE DEF TypeInv, TypeOK
<1>1. ASSUME NEW s \in Starters, Quiet(s), ~Fault(s) PROVE UNCHANGED G!vars
  <2>1. UNCHANGED <<live, schema, faults>>
    BY <1>1, QuietWrites DEF Quiet, Start, ReadApplied, SkipApplied, ClaimAnswered, ClaimRefused,
       SkipClaimed, RaiseFailed, ApplyFails, RaiseApplyError, Finish, Refusal, bounds
  <2>2. ASSUME NEW t \in Starters, Working(t) PROVE Working(t)' /\ next'[t] = next[t]
    BY <1>1, <2>2 DEF Quiet, Start, ReadApplied, SkipApplied, ClaimAnswered, ClaimRefused,
       SkipClaimed, RaiseFailed, ApplyFails, RaiseApplyError, Finish, Refusal, Continue, Goto,
       Working, bounds
  <2>3. \A v \in Versions : Runners(v)' = Runners(v)
    BY <1>1, <2>2, QuietIs DEF Runners
  <2> QED BY <2>1, <2>3, QuietLedger
<1>2. ASSUME NEW s \in Starters, ClaimVersion(s) PROVE G!Next
  <2> DEFINE v == next[s]
  <2>1. /\ v \in Versions /\ ~Exists(live, v) /\ UNCHANGED <<schema, next, faults>>
        /\ live' = Put(live, v, "applied") /\ ~Working(s) /\ Working(s)'
        /\ \A t \in Starters \ {s} : Working(t)' = Working(t) /\ next'[t] = next[t]
    BY <1>2 DEF ClaimVersion, MayCreate, Goto, Working, bounds
  <2>2. Entries[v] \in {"new", "reset"}
    BY <2>1 DEF Entries, Entry
  <2>3. \A u \in Versions : u < v => Entries[u] # "new"
    BY DEF Entries, Entry, UsedInv
  <2>4. v \notin schema \union faults.lost
    BY <2>1 DEF Claimed, LostInv, HasStatus
  <2>5. Entry(v)' = "running"
    BY <2>1, <2>4, OneEntry, MigrationAssumption DEF Entry, HasStatus, Exists, Statuses
  <2>6. Entries' = [Entries EXCEPT ![v] = "running"]
    BY <2>1, <2>5, OneEntry DEF Entries
  <2>7. Runners(v)' = {s}
    BY <2>1 DEF Runners, Claimed, HasStatus
  <2>8. RunnersOf' = [RunnersOf EXCEPT ![v] = {s}]
    BY <2>1, <2>7, OneRunner DEF RunnersOf
  <2> HIDE DEF v
  <2>9. G!Claim(s, v)
    BY <2>2, <2>3, <2>6, <2>8, LedgerIs DEF G!Claim
  <2> QED BY <2>1, <2>9 DEF G!Next
\* the run of s ends
<1>a. ASSUME NEW s \in Starters, Working(s), ~Working(s)', NEW v, v = next[s], NEW how,
             \A t \in Starters \ {s} : Working(t)' = Working(t) /\ next'[t] = next[t],
             Entry(v)' = how, \A u \in Versions : u # v => Entry(u)' = Entry(u)
      PROVE  v \in Versions /\ G!Ends(s, v, how)
  <2>1. v \in Versions /\ Entries[v] = "running" /\ RunnersOf[v] = {s}
    BY <1>a, RunningIs DEF Entries, RunnersOf
  <2>2. Entries' = [Entries EXCEPT ![v] = how]
    BY <1>a, <2>1 DEF Entries
  <2>3. Runners(v)' = {}
    BY <1>a, <2>1 DEF Runners, Claimed
  <2>4. RunnersOf' = [RunnersOf EXCEPT ![v] = {}]
    BY <1>a, <2>1, <2>3, OneRunner DEF RunnersOf
  <2> QED BY <2>1, <2>2, <2>4, LedgerIs DEF G!Ends
<1>3. ASSUME NEW s \in Starters, ApplySucceeds(s) PROVE G!Next
  <2>0. PICK v \in Versions : v = next[s]
    BY <1>3, RunningIs DEF ApplySucceeds, Working
  <2>1. /\ Working(s) /\ UNCHANGED <<live, faults>> /\ schema' = schema \union {v}
        /\ ~Working(s)'
        /\ \A t \in Starters \ {s} : Working(t)' = Working(t) /\ next'[t] = next[t]
    BY <1>3, <2>0 DEF ApplySucceeds, Continue, Goto, Working, bounds
  <2>2. v \in Versions /\ HasStatus(live, v, "applied") /\ Used(live, v)
    BY <2>0, <2>1, RunningIs DEF Claimed, UsedInv, HasStatus
  <2>3. \A u \in Versions : u # v => Entry(u)' = Entry(u)
    BY <2>1 DEF Entry, Used, Exists, HasStatus
  <2>4. Entry(v)' = "applied"
    BY <2>1, <2>2 DEF Entry, Used, Exists, HasStatus
  <2> QED BY <1>a, <2>0, <2>1, <2>3, <2>4 DEF G!Next
<1>4. ASSUME NEW s \in Starters, MarkFailed(s) PROVE G!Next
  <2>0. PICK v \in Versions : v = next[s]
    BY <1>4, RunningIs DEF MarkFailed, Working
  <2>1. /\ Working(s) /\ v \in Versions /\ live' = Put(live, v, "failed")
        /\ UNCHANGED <<schema, faults>> /\ ~Working(s)'
        /\ \A t \in Starters \ {s} : Working(t)' = Working(t) /\ next'[t] = next[t]
    BY <1>4, <2>0 DEF MarkFailed, Goto, Working, Claimed, HasStatus, bounds
  <2>2. Entry(v)' = "failed"
    BY <2>1, OneEntry, MigrationAssumption DEF Entry, HasStatus, Exists, Statuses
  <2> QED BY <1>a, <2>0, <2>1, <2>2, OneEntry DEF G!Next
<1>5. ASSUME NEW u \in Versions, ResetFailed(u) PROVE G!Next
  <2>1. /\ live' = Put(live, u, Missing) /\ UNCHANGED <<schema, pc, next, faults>>
        /\ HasStatus(live, u, "failed")
    BY <1>5 DEF ResetFailed, bounds
  <2>2. Entries[u] = "failed"
    BY <2>1 DEF Entries, Entry, UsedInv, HasStatus
  <2>3. Entry(u)' = "reset"
    BY <2>1, OneEntry DEF Entry, HasStatus, Exists
  <2>4. Entries' = [Entries EXCEPT ![u] = "reset"]
    BY <2>1, <2>3, OneEntry DEF Entries
  <2>5. RunnersOf' = RunnersOf
    BY <2>1 DEF RunnersOf, Runners, Working
  <2>6. G!Reset(u)
    BY <2>2, <2>4, <2>5, LedgerIs DEF G!Reset
  <2> QED BY <2>6 DEF G!Next
<1>6. ASSUME NEW s \in Starters, Fault(s) PROVE [G!Next]_(G!vars)
  <2>1. /\ UNCHANGED <<live, schema, next>> /\ faults'.lost = faults.lost \union InHand(s)
        /\ FaultKinds # {}
    BY <1>6 DEF Fault, ClaimTimesOut, MarkRaises, Crash, Fails
  <2>2. ~Working(s)' /\ \A t \in Starters \ {s} : Working(t)' = Working(t) /\ next'[t] = next[t]
    BY <1>6, <2>1 DEF Fault, ClaimTimesOut, MarkRaises, Crash, Goto, Working, Phases
  <2>3. CASE Working(s)
    <3>0. PICK v \in Versions : v = next[s]
      BY <2>3, RunningIs
    <3>1. \A u \in Versions : u # v => Entry(u)' = Entry(u)
      BY <2>1, <2>3, <3>0 DEF InHand, Entry, Used, Exists, HasStatus
    <3>2. Entry(v) = "running" /\ v \in faults'.lost
      BY <2>1, <2>3, <3>0, RunningIs DEF InHand
    <3>3. Entry(v)' = "lost"
      BY <2>1, <3>2 DEF Entry, Used, Exists, HasStatus
    <3>4. G!Ends(s, v, "lost")
      BY <1>a, <2>2, <2>3, <3>0, <3>1, <3>3
    <3> QED BY <2>1, <3>4 DEF G!Next, G!Lose
  <2>4. CASE ~Working(s)
    <3>1. Entries' = Entries
      BY <2>1, <2>4 DEF InHand, Entries, Entry, Used, Exists, HasStatus
    <3>2. RunnersOf' = RunnersOf
      BY <2>2, <2>4 DEF RunnersOf, Runners
    <3> QED BY <3>1, <3>2, LedgerIs DEF G!vars
  <2> QED BY <2>3, <2>4
<1>7. CASE Refresh \/ UNCHANGED vars
  <2>1. UNCHANGED <<live, schema, faults, pc, next>>
    BY <1>7 DEF Refresh, vars, bounds
  <2>2. \A v \in Versions : Runners(v)' = Runners(v)
    BY <2>1 DEF Runners, Working
  <2> QED BY <2>1, <2>2, QuietLedger
<1> QED BY <1>1, <1>2, <1>3, <1>4, <1>5, <1>6, <1>7 DEF Runs, Next, RunStep, Quiet

LEMMA RunsAreLedger == RunsSpec => IsLedger
<1>1. Init => LostInv /\ G!Init
  <2> SUFFICES ASSUME Init PROVE LostInv /\ G!Init
    OBVIOUS
  <2>1. Entries = [v \in Versions |-> "new"] /\ RunnersOf = [v \in Versions |-> {}]
    BY DEF Init, Entries, Entry, RunnersOf, Runners, Working, EmptyIndex, Used
  <2> QED BY <2>1, LedgerIs DEF Init, LostInv, G!Init
<1>2. TypeInv /\ Claimed /\ UsedInv /\ LostInv /\ [Runs]_vars => LostInv' /\ [G!Next]_(G!vars)
  BY LostInvStep, LedgerStep
<1> QED BY <1>1, <1>2, MigrationsClaimed, MigrationsUsed, PTL DEF RunsSpec, IsLedger, G!Spec

\* The tracking index is a ledger of the versions, for any number of processes
\* that run the migrations, fail and die: each version is begun in its turn, run
\* by one of them at a time, and once it is applied never again.
THEOREM MigrationsKeepLedger == Spec => IsLedger
BY RunsAreLedger, SpecRuns, PTL

\* ... and it stays one while the processes serve, write, stop and start again.
THEOREM StartupKeepsLedger == StartupSpec => IsLedger
BY RunsAreLedger, StartupRunsMigrations, PTL

-----------------------------------------------------------------------------
\* A process that serves has every version of the schema, or the version was
\* lost to a fault, failed since, or is being run: what it was told to be up on
\* (each version applied, or claimed by another) has stayed claimed since.
THEOREM StartupUpIsMigrated == StartupSpec => []UpIsMigrated
<1> DEFINE UpInv == \A s \in Starters : stage[s] = "up" => \A v \in Versions : Used(live, v)
<1> DEFINE StageOK == stage \in [Starters -> Stages]
<1> DEFINE UpNext == /\ TypeInv /\ UsedInv /\ [Runs]_vars
                     /\ StageOK /\ UpInv /\ [StartupNext]_startupVars
<1>1. StartupInit => StageOK /\ UpInv
  BY DEF StartupInit, Stages
<1>2. StageOK /\ [StartupNext]_startupVars => StageOK'
  <2> SUFFICES ASSUME StageOK, [StartupNext]_startupVars PROVE StageOK'
    OBVIOUS
  <2> USE DEF Stages, Enter
  <2>1. ASSUME NEW s \in Starters, Begin(s) \/ Lifecycle(s) \/ Shutdown(s) \/ Die(s) PROVE StageOK'
    BY <2>1 DEF Begin, RunMigrations, Initialize, Lifecycle, ThreadJoined, Initialized, Shutdown, Die
  <2>2. ASSUME NEW s \in Starters, Runner(s) \/ VersionStep(s) PROVE StageOK'
    BY <2>2 DEF Runner, VersionStep, CreateIndex, CreateCopy, Reindex, DeleteOld, AddAlias,
       StepRaises, life
  <2>3. ASSUME NEW s \in Starters, NEW d \in Docs, Write(s, d) PROVE StageOK'
    BY <2>3 DEF Write, life
  <2>4. CASE UNCHANGED startupVars
    BY <2>4 DEF startupVars
  <2> QED BY <2>1, <2>2, <2>3, <2>4 DEF StartupNext, life
<1>3. UpNext => UpInv'
  <2> SUFFICES ASSUME UpNext, NEW s \in Starters, stage'[s] = "up", NEW v \in Versions
               PROVE  Used(live, v)'
    OBVIOUS
  \* it is up on what it read or passed
  <2>1. ASSUME Initialized(s) PROVE Used(live, v)
    <3>1. pc[s] = "ready"
      BY <2>1 DEF Initialized, Enter, Stages
    <3>2. v < next[s]
      BY <3>1, MigrationAssumption DEF UsedInv, Versions, TypeInv, TypeOK
    <3> QED BY <3>2 DEF UsedInv
  <2>2. stage[s] = "up" \/ Initialized(s)
    <3> USE DEF Stages, Enter
    <3>1. ASSUME NEW r \in Starters, Begin(r) \/ Shutdown(r) \/ Die(r) \/ ThreadJoined(r)
          PROVE  stage[s] = "up"
      BY <3>1 DEF Begin, RunMigrations, Initialize, ThreadJoined, Shutdown, Die
    <3>2. ASSUME NEW r \in Starters, Initialized(r), r # s PROVE stage[s] = "up"
      BY <3>2 DEF Initialized
    <3>3. ASSUME NEW r \in Starters, Runner(r) \/ VersionStep(r) PROVE stage[s] = "up"
      BY <3>3 DEF Runner, VersionStep, CreateIndex, CreateCopy, Reindex, DeleteOld, AddAlias,
         StepRaises, life
    <3>4. ASSUME NEW r \in Starters, NEW d \in Docs, Write(r, d) PROVE stage[s] = "up"
      BY <3>4 DEF Write, life
    <3>5. CASE UNCHANGED startupVars
      BY <3>5 DEF startupVars
    <3> QED BY <3>1, <3>2, <3>3, <3>4, <3>5 DEF StartupNext, Lifecycle, life
  <2>3. Used(live, v)
    BY <2>1, <2>2
  <2> QED BY <2>3, StaysUsed
<1>4. UpInv /\ AppliedIsTrue => UpIsMigrated
  BY DEF UpIsMigrated, AppliedIsTrue, Excused
<1> QED
  BY <1>1, <1>2, <1>3, <1>4, StartupRunsMigrations, MigrationsUsed, RunsAppliedIsTrue, PTL
  DEF StartupSpec, RunsSpec

-----------------------------------------------------------------------------
(* The move of a table *)

\* where the documents of the table that moves are, and how far its move is:
\* whoever is between two of its requests is applying version 2, alone
MoveInv ==
  /\ copy \in [made : BOOLEAN, docs : SUBSET Docs, alias : BOOLEAN]
  /\ redo \in [Starters -> {"create", "copy", "delete", "alias", "end"}]
  /\ docs \subseteq Docs
  /\ Moved \notin index => docs = {}
  /\ copy.alias => Moved \notin index
  /\ written \subseteq docs \union copy.docs \union late
  /\ \A s \in Starters :
       /\ redo[s] \in {"copy", "delete", "alias"} => Applying(s, 2)
       /\ redo[s] = "delete" => Moved \in index /\ docs \subseteq copy.docs \union late
       /\ redo[s] = "end" => copy.alias
  /\ 2 \in schema => copy.alias

\* the steps that touch neither the tables nor the move
Aside == UNCHANGED <<store, version, history>>

\* A step of run_migrations begins no move, and leaves none in its middle: the
\* version is done when the move is at its end.
LEMMA AsideIsSafe ==
  ASSUME TypeInv, MoveInv, Aside,
         \A s \in Starters : Applying(s, 2) /\ ~Applying(s, 2)' => redo[s] = "end",
         2 \in schema' => 2 \in schema \/ \E s \in Starters : redo[s] = "end"
  PROVE  MoveInv'
<1>1. UNCHANGED <<index, docs, copy, redo, written, late>>
  BY DEF Aside, store, version, history
<1>2. \A s \in Starters : redo[s] \in {"copy", "delete", "alias"} => Applying(s, 2)'
  BY DEF MoveInv
<1>3. 2 \in schema' => copy.alias
  BY DEF MoveInv
<1> QED BY <1>1, <1>2, <1>3 DEF MoveInv

LEMMA StartupMove == StartupSpec => []MoveInv
<1> USE StartupAssumption
<1>1. StartupInit => MoveInv
  BY DEF StartupInit, Init, MoveInv
<1>2. TypeInv /\ Claimed /\ MoveInv /\ [StartupNext]_startupVars => MoveInv'
  <2> SUFFICES ASSUME TypeInv, Claimed, MoveInv, [StartupNext]_startupVars PROVE MoveInv'
    OBVIOUS
  <2>0. /\ pc \in [Starters -> Phases] /\ next \in [Starters -> Nat]
        /\ redo \in [Starters -> {"create", "copy", "delete", "alias", "end"}]
        /\ copy \in [made : BOOLEAN, docs : SUBSET Docs, alias : BOOLEAN]
    BY DEF TypeInv, TypeOK, MoveInv
  <2>1. ASSUME NEW s \in Starters, Begin(s) PROVE MoveInv'
    <3>1. Start(s) /\ Aside
      BY <2>1 DEF Begin, RunMigrations, Initialize, Aside
    <3>2. schema' = schema /\ \A t \in Starters : Applying(t, 2) => Applying(t, 2)'
      BY <2>0, <3>1 DEF Start, Goto, Applying
    <3> QED BY <3>1, <3>2, AsideIsSafe
  <2>2. ASSUME Aside, UNCHANGED <<pc, next, schema>> PROVE MoveInv'
    BY <2>2, AsideIsSafe DEF Applying
  <2>3. ASSUME NEW s \in Starters, Lifecycle(s) \/ Shutdown(s) PROVE MoveInv'
    BY <2>2, <2>3 DEF Lifecycle, ThreadJoined, Initialized, Shutdown, Aside, vars
  <2>4. ASSUME NEW s \in Starters, ApplySucceeds(s), StepDone(s), Aside PROVE MoveInv'
    <3>1. \A t \in Starters : t # s /\ Applying(t, 2) => Applying(t, 2)'
      BY <2>0, <2>4 DEF ApplySucceeds, Continue, Goto, Applying
    <3>2. next[s] = 2 => redo[s] = "end"
      BY <2>4 DEF StepDone
    <3>3. schema' = schema \union {next[s]}
      BY <2>4 DEF ApplySucceeds
    <3>4. Applying(s, 2) => redo[s] = "end"
      BY <3>2 DEF Applying
    <3>5. 2 \in schema' => 2 \in schema \/ \E t \in Starters : redo[t] = "end"
      BY <3>2, <3>3
    <3> QED BY <2>4, <3>1, <3>4, <3>5, AsideIsSafe
  <2>5. ASSUME NEW s \in Starters, Aside,
               \/ ReadApplied(s) \/ SkipApplied(s) \/ ClaimVersion(s) \/ ClaimAnswered(s)
               \/ ClaimRefused(s) \/ SkipClaimed(s) \/ RaiseFailed(s) \/ MarkFailed(s)
               \/ RaiseApplyError(s) \/ Finish(s) \/ ClaimTimesOut(s) \/ MarkRaises(s)
        PROVE  MoveInv'
    <3>1. schema' = schema /\ \A t \in Starters : Applying(t, 2) => Applying(t, 2)'
      BY <2>0, <2>5 DEF ReadApplied, SkipApplied, ClaimVersion, ClaimAnswered, ClaimRefused,
         SkipClaimed, RaiseFailed, MarkFailed, RaiseApplyError, Finish, ClaimTimesOut, MarkRaises,
         Continue, Goto, Applying
    <3> QED BY <2>5, <3>1, AsideIsSafe
  <2>6. ASSUME NEW s \in Starters, Runner(s) PROVE MoveInv'
    BY <2>4, <2>5, <2>6 DEF Runner, Aside
  \* the requests of the versions, and the step that ends in an error or a death
  <2>7. ASSUME NEW s \in Starters, Die(s) \/ StepRaises(s) PROVE MoveInv'
    <3>1. /\ UNCHANGED <<index, docs, copy, written, late, schema, next>>
          /\ redo' = [redo EXCEPT ![s] = "create"]
      BY <2>7 DEF Die, StepRaises, Crash, ApplyFails, Restart, store, history
    <3>2. \A t \in Starters : t # s => pc'[t] = pc[t]
      BY <2>0, <2>7 DEF Die, StepRaises, Crash, ApplyFails, Goto
    <3>3. \A t \in Starters : t # s /\ Applying(t, 2) => Applying(t, 2)'
      BY <3>1, <3>2 DEF Applying
    <3> QED BY <2>0, <3>1, <3>3 DEF MoveInv
  <2>8. ASSUME NEW s \in Starters, NEW t \in Tables, CreateIndex(s, t) PROVE MoveInv'
    <3>1. /\ UNCHANGED <<pc, next, schema, docs, copy, redo, written, late>>
          /\ index' = IF NameIsFree(t) THEN index \union {t} ELSE index
      BY <2>8 DEF CreateIndex, vars, history
    <3>2. copy.alias => Moved \notin index'
      BY <3>1 DEF MoveInv, NameIsFree, NamesCopy
    <3> QED BY <2>0, <3>1, <3>2 DEF MoveInv, Applying
  <2>9. ASSUME NEW s \in Starters, CreateCopy(s) PROVE MoveInv'
    <3>1. /\ UNCHANGED <<pc, next, schema, index, docs, written, late>> /\ Applying(s, 2)
          /\ copy' = [copy EXCEPT !.made = TRUE] /\ redo' = [redo EXCEPT ![s] = "copy"]
      BY <2>9 DEF CreateCopy, GotoRedo, vars, history
    <3>2. copy'.alias = copy.alias /\ copy'.docs = copy.docs
          /\ copy' \in [made : BOOLEAN, docs : SUBSET Docs, alias : BOOLEAN]
      BY <2>0, <3>1
    <3> QED BY <2>0, <3>1, <3>2 DEF MoveInv, Applying
  <2>10. ASSUME NEW s \in Starters, Reindex(s) PROVE MoveInv'
    <3>1. /\ UNCHANGED <<pc, next, schema, index, docs, written, late>> /\ Applying(s, 2)
          /\ copy' = [copy EXCEPT !.docs = copy.docs \union docs] /\ Moved \in index
          /\ redo' = [redo EXCEPT ![s] = "delete"]
      BY <2>10 DEF Reindex, GotoRedo, vars, history
    <3>2. copy'.docs = copy.docs \union docs /\ copy'.alias = copy.alias
          /\ copy' \in [made : BOOLEAN, docs : SUBSET Docs, alias : BOOLEAN]
      BY <2>0, <3>1 DEF MoveInv
    <3> QED BY <2>0, <3>1, <3>2 DEF MoveInv, Applying
  <2>11. ASSUME NEW s \in Starters, DeleteOld(s) PROVE MoveInv'
    <3>1. /\ UNCHANGED <<pc, next, schema, copy, written, late>> /\ Applying(s, 2)
          /\ redo[s] = "delete" /\ redo' = [redo EXCEPT ![s] = "alias"]
          /\ index' = index \ {Moved} /\ docs' = {}
      BY <2>11 DEF DeleteOld, GotoRedo, vars, history
    \* nobody else is in the middle of the move
    <3>2. \A t \in Starters : Applying(t, 2) => t = s
      BY <3>1 DEF Claimed, Working, Applying
    <3>3. \A t \in Starters : redo'[t] # "delete"
      BY <2>0, <3>1, <3>2 DEF MoveInv
    <3>4. written \subseteq copy.docs \union late
      BY <3>1 DEF MoveInv
    <3> QED BY <2>0, <3>1, <3>3, <3>4 DEF MoveInv, Applying
  <2>12. ASSUME NEW s \in Starters, AddAlias(s) PROVE MoveInv'
    <3>1. /\ UNCHANGED <<pc, next, schema, index, docs, written, late>> /\ Applying(s, 2)
          /\ copy' = [copy EXCEPT !.alias = TRUE] /\ Moved \notin index
          /\ redo' = [redo EXCEPT ![s] = "end"]
      BY <2>12 DEF AddAlias, GotoRedo, vars, history
    <3>2. copy'.alias /\ copy'.docs = copy.docs
          /\ copy' \in [made : BOOLEAN, docs : SUBSET Docs, alias : BOOLEAN]
      BY <2>0, <3>1
    <3> QED BY <2>0, <3>1, <3>2 DEF MoveInv, Applying
  <2>13. ASSUME NEW s \in Starters, NEW d \in Docs, Write(s, d) PROVE MoveInv'
    <3>1. /\ UNCHANGED <<pc, next, schema, redo>> /\ written' = written \union {d}
          /\ late' = IF CopyIsTaken THEN late \union {d} ELSE late
      BY <2>13 DEF Write, vars, version
    <3>2. CASE NamesCopy(Moved)
      <4>1. copy' = [copy EXCEPT !.docs = copy.docs \union {d}] /\ UNCHANGED <<index, docs>>
        BY <2>13, <3>2 DEF Write
      <4>2. copy'.docs = copy.docs \union {d} /\ copy'.alias = copy.alias
            /\ copy' \in [made : BOOLEAN, docs : SUBSET Docs, alias : BOOLEAN]
        BY <2>0, <4>1
      <4> QED BY <2>0, <3>1, <4>1, <4>2 DEF MoveInv, Applying
    \* a document that comes after the copy was taken is late
    <3>3. CASE ~NamesCopy(Moved)
      <4>1. index' = index \union {Moved} /\ docs' = docs \union {d} /\ copy' = copy
        BY <2>13, <3>3 DEF Write
      <4>2. ~copy.alias
        BY <3>3 DEF NamesCopy, MoveInv
      <4>3. \A t \in Starters : redo[t] = "delete" => d \in late'
        BY <3>1 DEF CopyIsTaken, MoveInv
      <4> QED BY <2>0, <3>1, <4>1, <4>2, <4>3 DEF MoveInv, Applying
    <3> QED BY <3>2, <3>3
  <2>14. ASSUME Refresh \/ \E v \in Versions : ResetFailed(v), Aside PROVE MoveInv'
    BY <2>2, <2>14 DEF Refresh, ResetFailed
  <2>15. CASE UNCHANGED startupVars
    BY <2>2, <2>15 DEF startupVars, vars, Aside, store, version, history
  <2> QED
    BY <2>1, <2>3, <2>5, <2>6, <2>7, <2>8, <2>9, <2>10, <2>11, <2>12, <2>13, <2>14, <2>15
    DEF StartupNext, VersionStep, Aside
<1> QED BY <1>1, <1>2, StartupRunsMigrations, MigrationsClaimed, PTL DEF StartupSpec

\* Moving a table to a new index keeps every document that was in it, however
\* the processes that move it fail, die and take turns; only what is written
\* between the copy and the delete may be lost, and after the move the name of
\* the table stands for all the rest.
THEOREM StartupMoveKeepsDocuments == StartupSpec => []MoveKeepsDocuments
<1>1. MoveInv => MoveKeepsDocuments
  BY DEF MoveInv, MoveKeepsDocuments, Reachable, NamesCopy
<1> QED BY <1>1, StartupMove, PTL
=============================================================================
