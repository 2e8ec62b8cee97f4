--------------------------- MODULE OperationsProofs ---------------------------
(***************************************************************************)
(* Operations for every number of children, writers, tries and faults; and *)
(* Webhooks, which implements them.                                        *)
(*                                                                         *)
(* A worker whose handle is still the sequence number of the parent holds  *)
(* what it read of it (Held), so a decision that is accepted is one about  *)
(* a parent in processing. It is right, because a status that is found in  *)
(* the search is final as soon as it is not "processing" (Past), and       *)
(* somebody makes it, because whoever looks last finds all the others      *)
(* marked (LastInv).                                                       *)
(*                                                                         *)
(* A webhook that differs from what is searched has a writer without an    *)
(* answer (HooksInv), and what a worker has delivered can be searched when *)
(* it is through (DeliveriesInv), so that pages show it down to their      *)
(* cursor (PageInv).                                                       *)
(***************************************************************************)
EXTENDS Webhooks, ElasticProofs, FiniteSetTheorems, WellFoundedInduction

\* A write of an operation, whatever its status becomes.
LEMMA WithStatusIs ==
  ASSUME TypeOK, NEW i \in Ids, Exists(live, i), NEW status \in Statuses
  PROVE  /\ WithStatus(i, status) \in [Ids -> Copies(Docs)]
         /\ WithStatus(i, status)[i].seq = live[i].seq + 1
         /\ WithStatus(i, status)[i].doc = [live[i].doc EXCEPT !.status = status]
         /\ \A k \in Ids : k # i => WithStatus(i, status)[k] = live[k]
<1>1. live[i].doc \in Docs
  BY DEF TypeOK, Copies, Exists
<1>2. [live[i].doc EXCEPT !.status = status] \in Docs
  BY <1>1 DEF Docs
<1> DEFINE new == [live[i].doc EXCEPT !.status = status]
<1>3. new \in Docs /\ live \in [Ids -> Copies(Docs)] /\ WithStatus(i, status) = Put(live, i, new)
  BY <1>2 DEF WithStatus, TypeOK
<1> HIDE DEF new
<1>4. Put(live, i, new) \in [Ids -> Copies(Docs)]
  BY <1>3, PutType
<1>5. /\ Put(live, i, new)[i].doc = new /\ Put(live, i, new)[i].seq = live[i].seq + 1
      /\ \A k \in Ids : k # i => Put(live, i, new)[k] = live[k]
  BY <1>3, PutReads
<1> QED BY <1>3, <1>4, <1>5 DEF new

\* What is read of the parent is metadata.
LEMMA ParentMetaIs == ASSUME TypeOK PROVE ParentMeta \in Metadata /\ NoMetadata \in Metadata
<1>1. NoMetadata \in Metadata
  BY DEF NoMetadata, Metadata
<1>2. Parent \in Ids /\ live[Parent] \in Copies(Docs)
  BY DEF TypeOK, Ids
<1>3. Exists(live, Parent) => live[Parent].doc.meta \in Metadata
  BY <1>2 DEF Exists, Copies, Docs
<1> QED BY <1>1, <1>3 DEF ParentMeta

\* where the worker of a child is before it is through with its child
Waits == {"wait", "waitFailed"}
AtChild == {"run"} \union Waits

\* What a writer of progress, or a decision, adds to what it has read.
LEMMA ChangedKey ==
  ASSUME NEW meta \in Metadata, NEW key \in Keys, NEW n \in Nat
  PROVE  /\ [meta EXCEPT ![key] = n] \in Metadata
         /\ \A k \in Keys : [meta EXCEPT ![key] = n][k] = IF k = key THEN n ELSE meta[k]
BY DEF Metadata

LEMMA ReportIs ==
  ASSUME TypeOK, NEW w \in Writers
  PROVE  [known[w] EXCEPT ![w] = progress[w] + 1] \in Metadata
<1>1. known[w] \in Metadata /\ progress[w] + 1 \in Nat /\ w \in Keys
  BY DEF TypeOK, Keys
<1> QED BY <1>1, ChangedKey

LEMMA OutcomeIs ==
  ASSUME TypeOK, NEW c \in Children
  PROVE  LET patch == [known[c] EXCEPT ![Outcome] = @ + 1]
         IN  /\ patch \in Metadata /\ known[c] \in Metadata
             /\ \A k \in Keys : patch[k] = IF k = Outcome THEN known[c][k] + 1 ELSE known[c][k]
<1>1. known[c] \in Metadata /\ Outcome \in Keys
  BY DEF TypeOK, Keys
<1>2. known[c][Outcome] + 1 \in Nat
  BY <1>1 DEF Metadata
<1> QED BY <1>1, <1>2, ChangedKey

\* A write of the parent with metadata.
LEMMA WriteMetaIs ==
  ASSUME TypeOK, Exists(live, Parent), NEW status \in Statuses, NEW patch \in Metadata,
         WriteMeta(status, patch)
  PROVE  /\ live' \in [Ids -> Copies(Docs)]
         /\ live'[Parent].seq = live[Parent].seq + 1
         /\ live'[Parent].doc = [status |-> status, meta |-> Merged(live[Parent].doc.meta, patch)]
         /\ live'[Parent].doc \in Docs
         /\ \A k \in Ids : k # Parent => live'[k] = live[k]
<1> DEFINE new == [status |-> status, meta |-> Merged(live[Parent].doc.meta, patch)]
<1>1. live \in [Ids -> Copies(Docs)] /\ Parent \in Ids /\ live[Parent].doc.meta \in Metadata
  BY DEF TypeOK, Copies, Exists, Docs, Ids
<1>2. Merged(live[Parent].doc.meta, patch) \in Metadata
  BY <1>1 DEF Merged, Metadata
<1>3. new \in Docs /\ live' = Put(live, Parent, new)
  BY <1>2 DEF Docs, WriteMeta
<1> HIDE DEF new
<1>4. live' \in [Ids -> Copies(Docs)]
  BY <1>1, <1>3, PutType
<1>5. /\ live'[Parent].doc = new /\ live'[Parent].seq = live[Parent].seq + 1
      /\ \A k \in Ids : k # Parent => live'[k] = live[k]
  BY <1>1, <1>3, PutReads
<1> QED BY <1>3, <1>4, <1>5 DEF new

\* The types are preserved by every request, by faults and by the server.
LEMMA OperationsTypeStep == ASSUME TypeOK, [Next]_vars PROVE TypeOK'
<1> USE OperationsAssumption DEF Phases, AtChild, Waits
<1>0. Parent \in Ids /\ Children \subseteq Ids
  BY DEF Ids
<1> USE DEF Goto, index, decision, reports, Forget
<1>1. ASSUME NEW c \in Children, NEW status \in {"completed", "failed"}, MarkChild(c, status)
      PROVE  TypeOK'
  <2>1. Exists(live, c) => WithStatus(c, status) \in [Ids -> Copies(Docs)]
    BY <1>0, <1>1, WithStatusIs DEF Statuses
  <2> QED BY <1>1, <2>1 DEF MarkChild, TypeOK
<1>2. ASSUME NEW c \in Children, MarkAnswered(c) PROVE TypeOK'
  BY <1>2 DEF MarkAnswered, TypeOK
<1>3. ASSUME NEW c \in Children, InsertOutbox(c) PROVE TypeOK'
  BY <1>3 DEF InsertOutbox, TypeOK
<1>4. ASSUME NEW c \in Children, ReadParent(c) PROVE TypeOK'
  <2>1. live[Parent].seq \in Nat
    BY <1>0 DEF TypeOK, Copies
  <2> QED BY <1>4, <2>1 DEF ReadParent, TypeOK
<1>5. ASSUME NEW c \in Children, FindChildren(c) PROVE TypeOK'
  <2>1. CASE AllFinal
    BY <1>5, <2>1 DEF FindChildren, TypeOK, Decide, Statuses
  <2>2. CASE ~AllFinal
    BY <1>5, <2>2, ParentMetaIs DEF FindChildren, TypeOK, Statuses
  <2> QED BY <2>1, <2>2
<1>6. ASSUME NEW c \in Children, ReadMetadata(c) PROVE TypeOK'
  <2>1. ParentMeta \in Metadata
    BY ParentMetaIs
  <2> QED BY <1>6, <2>1 DEF ReadMetadata, TypeOK
<1>7. ASSUME NEW c \in Children, UpdateParent(c) PROVE TypeOK'
  <2>1. /\ verdict[c] \in Statuses /\ [known[c] EXCEPT ![Outcome] = @ + 1] \in Metadata
    BY OutcomeIs DEF TypeOK
  <2>2. live' \in [Ids -> Copies(Docs)]
    <3>1. CASE MayUpdate(c)
      BY <1>7, <2>1, <3>1, WriteMetaIs DEF UpdateParent, MayUpdate, Unchanged
    <3>2. CASE ~MayUpdate(c)
      BY <1>7, <3>2 DEF UpdateParent, TypeOK
    <3> QED BY <3>1, <3>2
  <2>3. /\ UNCHANGED <<snap, outbox, reports, faults>> /\ Forget(c)
        /\ Goto(c, "done") \/ Goto(c, "read") \/ Goto(c, "beaten")
        /\ UNCHANGED tries \/ tries' = [tries EXCEPT ![c] = @ + 1]
    BY <1>7 DEF UpdateParent
  <2> QED BY <2>2, <2>3, ParentMetaIs DEF TypeOK, Statuses
<1>8. ASSUME NEW c \in Children, Crash(c) PROVE TypeOK'
  BY <1>8, ParentMetaIs DEF Crash, TypeOK, Statuses
<1>9. ASSUME NEW w \in Writers, ReadProgress(w) PROVE TypeOK'
  <2>1. ParentMeta \in Metadata
    BY ParentMetaIs
  <2> QED BY <1>9, <2>1 DEF ReadProgress, TypeOK
<1>10. ASSUME NEW w \in Writers, WriteProgress(w) PROVE TypeOK'
  <2>1. [known[w] EXCEPT ![w] = progress[w] + 1] \in Metadata
    BY ReportIs
  <2>2. Exists(live, Parent) => live[Parent].doc.status \in Statuses
    BY <1>0 DEF Exists, TypeOK, Copies, Docs
  <2>3. live' \in [Ids -> Copies(Docs)]
    <3>1. CASE Exists(live, Parent)
      BY <1>10, <2>1, <2>2, <3>1, WriteMetaIs DEF WriteProgress
    <3>2. CASE ~Exists(live, Parent)
      BY <1>10, <3>2 DEF WriteProgress, TypeOK
    <3> QED BY <3>1, <3>2
  <2> QED BY <1>10, <2>3, ParentMetaIs DEF WriteProgress, TypeOK
<1>11. CASE CancelParent
  <2>1. Exists(live, Parent)
    BY <1>11 DEF CancelParent, HasStatus
  <2>2. WithStatus(Parent, "cancelled") \in [Ids -> Copies(Docs)]
    BY <1>0, <2>1, WithStatusIs DEF Statuses
  <2> QED BY <1>11, <2>2 DEF CancelParent, TypeOK
<1>12. ASSUME NEW i \in Ids, DeleteOperation(i) PROVE TypeOK'
  <2>1. Put(live, i, Missing) \in [Ids -> Copies(Docs)]
    BY PutType DEF TypeOK
  <2> QED BY <1>12, <2>1 DEF DeleteOperation, TypeOK
<1>13. CASE Refresh
  BY <1>0, <1>13 DEF Refresh, TypeOK
<1>14. CASE UNCHANGED vars
  BY <1>14 DEF vars, TypeOK
<1> QED
  BY <1>1, <1>2, <1>3, <1>4, <1>5, <1>6, <1>7, <1>8, <1>9, <1>10, <1>11, <1>12, <1>13, <1>14
     DEF Next, WorkerStep, OthersStep

\* Every variable keeps its type, for any number of children and writers.
THEOREM OperationsType == Spec => []TypeOK
<1>1. Init => TypeOK
  BY OperationsAssumption DEF Init, TypeOK, Phases, Started, Copies, Docs, Ids, Statuses, Metadata, NoMetadata
<1> QED BY <1>1, OperationsTypeStep, PTL DEF Spec

-----------------------------------------------------------------------------
(* What a step writes, and what it leaves alone.                           *)

\* the parent and the handles are as they were
SameParent == live'[Parent] = live[Parent]

\* the worker of c did nothing
Still(c) == UNCHANGED <<pc[c], handle[c], known[c], verdict[c], tries[c]>>

\* A write gives the parent a new sequence number, and every step but that of
\* its own worker leaves what a worker holds alone.
LEMMA ParentIs ==
  ASSUME TypeOK, [Next]_vars
  PROVE  SameParent \/ live'[Parent].seq = live[Parent].seq + 1
<1> USE OperationsAssumption DEF Phases, AtChild, Waits
<1>0. Parent \in Ids /\ Children \subseteq Ids /\ live \in [Ids -> Copies(Docs)]
  BY DEF Ids, TypeOK
<1>1. ASSUME NEW i \in Ids, NEW doc, live' = Put(live, i, doc)
      PROVE  SameParent \/ live'[Parent].seq = live[Parent].seq + 1
  BY <1>0, <1>1 DEF Put, SameParent
<1>2. live' = live \/ \E i \in Ids : \E doc : live' = Put(live, i, doc)
  BY <1>0 DEF Next, WorkerStep, OthersStep, vars, MarkChild, MarkAnswered, InsertOutbox, ReadParent, FindChildren,
     ReadMetadata, UpdateParent, Crash, ReadProgress, WriteProgress, WriteMeta, CancelParent,
     DeleteOperation, Refresh, index, WithStatus
<1> QED BY <1>1, <1>2 DEF SameParent

\* what the worker of c may do
Moves(c) ==
  \/ \E status \in {"completed", "failed"} : MarkChild(c, status)
  \/ MarkAnswered(c) \/ InsertOutbox(c)
  \/ ReadParent(c) \/ FindChildren(c) \/ ReadMetadata(c) \/ UpdateParent(c)
  \/ Crash(c)

\* Only its own steps change what a worker holds.
LEMMA StillOrMoves ==
  ASSUME TypeOK, [Next]_vars, NEW c \in Children
  PROVE  Still(c) \/ Moves(c)
<1> USE OperationsAssumption DEF Phases, AtChild, Waits
<1>0. /\ pc \in [Children -> Phases]
      /\ handle \in [Children -> Nat] /\ verdict \in [Children -> Statuses]
      /\ known \in [Children \union Writers -> Metadata] /\ tries \in [Children -> Nat]
  BY DEF TypeOK
<1>1. ASSUME NEW d \in Children, d # c,
             \/ \E status \in {"completed", "failed"} : MarkChild(d, status)
             \/ MarkAnswered(d) \/ InsertOutbox(d) \/ Crash(d)
      PROVE  Still(c)
  BY <1>0, <1>1 DEF MarkChild, MarkAnswered, InsertOutbox, Crash, Goto, Still, decision, Forget
<1>2. ASSUME NEW d \in Children, d # c, ReadParent(d) \/ FindChildren(d) PROVE Still(c)
  BY <1>0, <1>2 DEF ReadParent, FindChildren, Goto, Still, Forget
<1>3. ASSUME NEW d \in Children, d # c, ReadMetadata(d) \/ UpdateParent(d) PROVE Still(c)
  BY <1>0, <1>3 DEF ReadMetadata, UpdateParent, Goto, Still, decision, Forget
<1>4. ASSUME NEW w \in Writers, ReadProgress(w) \/ WriteProgress(w) PROVE Still(c)
  BY <1>0, <1>4 DEF ReadProgress, WriteProgress, Still, decision
<1>5. ASSUME CancelParent \/ Refresh \/ UNCHANGED vars \/ \E i \in Ids : DeleteOperation(i)
      PROVE  Still(c)
  BY <1>5 DEF CancelParent, Refresh, vars, DeleteOperation, Still, decision
<1> QED BY <1>1, <1>2, <1>3, <1>4, <1>5 DEF Next, WorkerStep, OthersStep, Moves

\* a worker that has read the parent holds a sequence number it had, and, as
\* long as that is its number, what it read
Held ==
  \A c \in Children :
    /\ pc[c] \in {"siblings", "meta", "update"} =>
         /\ handle[c] <= live[Parent].seq
         /\ handle[c] = live[Parent].seq => HasStatus(Parent, "processing")
    /\ pc[c] = "update" /\ handle[c] = live[Parent].seq => known[c] = live[Parent].doc.meta

LEMMA OperationsHeld == Spec => [](TypeOK /\ Held)
<1> USE OperationsAssumption DEF Phases, AtChild, Waits
<1>1. Init => Held
  BY DEF Init, Held
<1>2. TypeOK /\ Held /\ [Next]_vars => Held'
  <2> SUFFICES ASSUME TypeOK, Held, [Next]_vars, NEW c \in Children
               PROVE  /\ pc'[c] \in {"siblings", "meta", "update"} =>
                           /\ handle'[c] <= live'[Parent].seq
                           /\ handle'[c] = live'[Parent].seq => HasStatus(Parent, "processing")'
                      /\ pc'[c] = "update" /\ handle'[c] = live'[Parent].seq =>
                           known'[c] = live'[Parent].doc.meta
    BY DEF Held
  <2>0. /\ live[Parent].seq \in Nat /\ handle[c] \in Nat
        /\ pc \in [Children -> Phases]
        /\ handle \in [Children -> Nat]
        /\ known \in [Children \union Writers -> Metadata]
    BY DEF TypeOK, Copies, Ids
  <2>1. CASE Still(c)
    <3>1. CASE SameParent
      BY <2>1, <3>1 DEF Still, SameParent, Held, HasStatus, Exists
    <3>2. CASE live'[Parent].seq = live[Parent].seq + 1
      BY <2>0, <2>1, <3>2 DEF Still, Held
    <3> QED BY <3>1, <3>2, ParentIs
  <2>2. CASE \E status \in {"completed", "failed"} : MarkChild(c, status)
    BY <2>0, <2>2 DEF MarkChild, Goto
  <2>3. CASE MarkAnswered(c) \/ InsertOutbox(c) \/ Crash(c)
    BY <2>0, <2>3 DEF MarkAnswered, InsertOutbox, Crash, Goto
  <2>4. CASE ReadParent(c)
    BY <2>0, <2>4 DEF ReadParent, Goto, HasStatus, Exists, index
  <2>5. CASE FindChildren(c)
    BY <2>0, <2>5 DEF FindChildren, Goto, Held, HasStatus, Exists, index
  <2>6. CASE ReadMetadata(c)
    <3>1. known'[c] = ParentMeta /\ UNCHANGED <<live, handle>> /\ pc[c] = "meta"
      BY <2>0, <2>6 DEF ReadMetadata, index, decision
    <3>2. handle[c] = live[Parent].seq => Exists(live, Parent)
      BY <3>1 DEF Held, HasStatus
    <3> QED BY <2>0, <3>1, <3>2 DEF Held, HasStatus, Exists, ParentMeta
  <2>7. CASE UpdateParent(c)
    BY <2>0, <2>7 DEF UpdateParent, Goto
  <2> QED BY <2>1, <2>2, <2>3, <2>4, <2>5, <2>6, <2>7, StillOrMoves DEF Moves
<1> QED BY <1>1, <1>2, OperationsType, PTL DEF Spec

\* A parent that is decided or cancelled stays so, whichever workers still
\* hold what they read of it before.
THEOREM OperationsVerdictIsFinal == Spec => VerdictIsFinal
<1> USE OperationsAssumption DEF Phases, AtChild, Waits
<1> DEFINE Stays == Exists(live, Parent) /\ live[Parent].doc.status \in Final /\ Exists(live', Parent)
                      => live'[Parent].doc.status = live[Parent].doc.status
<1>1. TypeOK /\ Held /\ [Next]_vars => [Stays]_vars
  <2> SUFFICES ASSUME TypeOK, Held, Next, Exists(live, Parent),
                      live[Parent].doc.status \in Final, Exists(live', Parent)
               PROVE  live'[Parent].doc.status = live[Parent].doc.status
    OBVIOUS
  <2>0. Parent \in Ids /\ Children \subseteq Ids /\ ~HasStatus(Parent, "processing")
        /\ live \in [Ids -> Copies(Docs)] /\ live[Parent].doc \in Docs
    BY DEF Ids, HasStatus, Final, TypeOK, Exists, Copies
  <2>1. ASSUME NEW c \in Children, Moves(c) PROVE live'[Parent] = live[Parent]
    <3>1. ASSUME NEW status, MarkChild(c, status) PROVE live'[Parent] = live[Parent]
      BY <2>0, <3>1 DEF MarkChild, WithStatus, Put
    <3>2. ~(UpdateParent(c) /\ MayUpdate(c))
      BY <2>0 DEF UpdateParent, MayUpdate, Unchanged, Held
    <3> QED
      BY <2>1, <3>1, <3>2 DEF Moves, MarkAnswered, InsertOutbox, Crash, ReadParent, FindChildren,
         ReadMetadata, UpdateParent, index
  <2>2. ASSUME NEW w \in Writers, WriteProgress(w)
        PROVE  live'[Parent].doc.status = live[Parent].doc.status
    <3>1. [known[w] EXCEPT ![w] = progress[w] + 1] \in Metadata /\ live[Parent].doc.status \in Statuses
      BY <2>0, ReportIs DEF Docs
    <3>2. CASE Exists(live, Parent)
      <4>1. WriteMeta(live[Parent].doc.status, [known[w] EXCEPT ![w] = progress[w] + 1])
        BY <2>2, <3>2 DEF WriteProgress
      <4>2. live'[Parent].doc = [status |-> live[Parent].doc.status,
              meta |-> Merged(live[Parent].doc.meta, [known[w] EXCEPT ![w] = progress[w] + 1])]
        BY <3>1, <3>2, <4>1, WriteMetaIs
      <4> QED BY <4>2
    <3>3. CASE ~Exists(live, Parent)
      BY <2>2, <3>3 DEF WriteProgress
    <3> QED BY <3>2, <3>3
  <2>3. ASSUME NEW i \in Ids, DeleteOperation(i)
        PROVE  live'[Parent].doc.status = live[Parent].doc.status
    BY <2>0, <2>3 DEF DeleteOperation, Put, Exists
  <2>4. ~CancelParent
    BY <2>0 DEF CancelParent
  <2>5. ASSUME Refresh \/ \E w \in Writers : ReadProgress(w) PROVE live' = live
    BY <2>5 DEF Refresh, ReadProgress, index
  <2>6. \/ \E c \in Children : Moves(c)
        \/ \E w \in Writers : WriteProgress(w)
        \/ \E i \in Ids : DeleteOperation(i)
        \/ Refresh \/ \E w \in Writers : ReadProgress(w)
    BY <2>4 DEF Next, WorkerStep, OthersStep, Moves
  <2> QED BY <2>1, <2>2, <2>3, <2>5, <2>6
<1> QED BY <1>1, OperationsHeld, PTL DEF Spec, VerdictIsFinal

\* nobody knows of more reports of a writer than it has made
Reported ==
  \A w \in Writers :
    /\ ParentMeta[w] <= progress[w]
    /\ \A p \in Children \union Writers : known[p][w] <= progress[w]

LEMMA OperationsReported == Spec => [](TypeOK /\ Held /\ Reported)
<1> USE OperationsAssumption DEF Phases, AtChild, Waits
<1>1. Init => Reported
  BY DEF Init, Reported, ParentMeta, NoMetadata, Started, Keys, Ids
<1>2. TypeOK /\ Reported /\ [Next]_vars => Reported'
  <2> SUFFICES ASSUME TypeOK, Reported, [Next]_vars, NEW w \in Writers
               PROVE  /\ (ParentMeta')[w] <= progress'[w]
                      /\ \A p \in Children \union Writers : known'[p][w] <= progress'[w]
    BY DEF Reported
  <2>0. /\ w \in Keys /\ Parent \in Ids /\ w # Outcome
        /\ progress[w] \in Nat /\ progress \in [Writers -> Nat]
        /\ ParentMeta \in Metadata /\ NoMetadata[w] = 0
        /\ known \in [Children \union Writers -> Metadata]
        /\ live \in [Ids -> Copies(Docs)]
    BY ParentMetaIs DEF TypeOK, Keys, Ids, NoMetadata
  <2>1. progress'[w] \in {progress[w], progress[w] + 1}
    BY <2>0 DEF Next, WorkerStep, OthersStep, vars, MarkChild, MarkAnswered, InsertOutbox, ReadParent, FindChildren,
       ReadMetadata, UpdateParent, Crash, ReadProgress, WriteProgress, CancelParent,
       DeleteOperation, Refresh, reports
  <2>2. (ParentMeta')[w] <= progress'[w]
    <3>1. CASE (ParentMeta')[w] = ParentMeta[w] \/ (ParentMeta')[w] = 0
      <4>1. ParentMeta[w] <= progress[w] /\ ParentMeta[w] \in Nat
        BY <2>0 DEF Reported, Metadata
      <4> QED BY <2>0, <2>1, <3>1, <4>1
    <3>2. ASSUME NEW c \in Children, UpdateParent(c), live' # live PROVE (ParentMeta')[w] <= progress'[w]
      <4> DEFINE patch == [known[c] EXCEPT ![Outcome] = @ + 1]
      <4>1. /\ Exists(live, Parent) /\ WriteMeta(verdict[c], patch) /\ progress' = progress
        BY <3>2 DEF UpdateParent, MayUpdate, Unchanged, reports
      <4>2. known[c] \in Metadata /\ patch \in Metadata /\ verdict[c] \in Statuses
        BY OutcomeIs DEF TypeOK
      <4>6. patch[w] = known[c][w]
        BY <2>0, OutcomeIs
      <4> HIDE DEF patch
      <4>3. live'[Parent].doc = [status |-> verdict[c], meta |-> Merged(live[Parent].doc.meta, patch)]
            /\ Exists(live', Parent)
        BY <4>1, <4>2, WriteMetaIs DEF Exists
      <4>4. (ParentMeta')[w] = Merged(ParentMeta, patch)[w]
        BY <4>1, <4>3 DEF ParentMeta
      <4>5. patch[w] = known[c][w] /\ known[c][w] <= progress[w] /\ ParentMeta[w] <= progress[w]
        BY <4>6 DEF Reported
      <4> QED BY <2>0, <4>1, <4>4, <4>5 DEF Merged
    <3>3. ASSUME NEW v \in Writers, WriteProgress(v), live' # live PROVE (ParentMeta')[w] <= progress'[w]
      <4> DEFINE patch == [known[v] EXCEPT ![v] = progress[v] + 1]
      <4>1. /\ Exists(live, Parent) /\ WriteMeta(live[Parent].doc.status, patch)
            /\ progress' = [progress EXCEPT ![v] = @ + 1]
        BY <3>3 DEF WriteProgress
      <4>2. known[v] \in Metadata /\ patch \in Metadata /\ live[Parent].doc.status \in Statuses
        BY <2>0, <4>1, ReportIs DEF Exists, Copies, Docs
      <4> HIDE DEF patch
      <4>3. live'[Parent].doc = [status |-> live[Parent].doc.status,
                                 meta |-> Merged(live[Parent].doc.meta, patch)]
            /\ Exists(live', Parent)
        BY <4>1, <4>2, WriteMetaIs DEF Exists
      <4>4. (ParentMeta')[w] = Merged(ParentMeta, patch)[w]
        BY <4>1, <4>3 DEF ParentMeta
      <4>5. /\ patch[w] = IF w = v THEN progress[w] + 1 ELSE known[v][w]
            /\ known[v][w] <= progress[w] /\ ParentMeta[w] <= progress[w]
            /\ progress'[w] = IF w = v THEN progress[w] + 1 ELSE progress[w]
        BY <2>0, <4>1, <4>2 DEF patch, Metadata, Reported
      <4> QED BY <2>0, <4>4, <4>5 DEF Merged
    <3>4. ASSUME NEW c \in Children, NEW status, MarkChild(c, status) PROVE (ParentMeta')[w] = ParentMeta[w]
      <4>1. live'[Parent] = live[Parent]
        BY <2>0, <3>4 DEF MarkChild, WithStatus, Put
      <4> QED BY <4>1 DEF ParentMeta, Exists
    <3>5. ASSUME CancelParent PROVE (ParentMeta')[w] = ParentMeta[w]
      <4>1. Exists(live, Parent) /\ live' = WithStatus(Parent, "cancelled")
        BY <3>5 DEF CancelParent, HasStatus
      <4>2. live'[Parent].doc = [live[Parent].doc EXCEPT !.status = "cancelled"] /\ live[Parent].doc \in Docs
        BY <2>0, <4>1, WithStatusIs DEF Statuses, Exists, Copies
      <4>3. live'[Parent].doc.meta = live[Parent].doc.meta /\ live'[Parent].doc \in Docs
        BY <4>2 DEF Docs, Statuses
      <4> QED BY <4>1, <4>3 DEF ParentMeta, Exists
    <3>6. ASSUME NEW i \in Ids, DeleteOperation(i)
          PROVE  (ParentMeta')[w] = ParentMeta[w] \/ (ParentMeta')[w] = 0
      BY <2>0, <3>6 DEF DeleteOperation, Put, ParentMeta, Exists
    <3>7. ASSUME live' = live PROVE (ParentMeta')[w] = ParentMeta[w]
      BY <3>7 DEF ParentMeta, Exists
    <3>8. \/ live' = live
          \/ \E c \in Children : UpdateParent(c)
          \/ \E v \in Writers : WriteProgress(v)
          \/ \E c \in Children : \E status \in {"completed", "failed"} : MarkChild(c, status)
          \/ CancelParent
          \/ \E i \in Ids : DeleteOperation(i)
      BY DEF Next, WorkerStep, OthersStep, vars, MarkAnswered, InsertOutbox, ReadParent, FindChildren, ReadMetadata, Crash,
         ReadProgress, Refresh, index
    <3> QED BY <3>1, <3>2, <3>3, <3>4, <3>5, <3>6, <3>7, <3>8
  <2>3. ASSUME NEW p \in Children \union Writers PROVE known'[p][w] <= progress'[w]
    <3>1. known'[p] = known[p] \/ known'[p] = NoMetadata \/ known'[p] = ParentMeta
      BY <2>0 DEF Next, WorkerStep, OthersStep, vars, MarkChild, MarkAnswered, InsertOutbox, ReadParent, FindChildren,
         ReadMetadata, UpdateParent, Crash, ReadProgress, WriteProgress, CancelParent,
         DeleteOperation, Refresh, Forget
    <3>2. known[p][w] \in Nat /\ ParentMeta[w] \in Nat
      BY <2>0 DEF Metadata
    <3>3. known[p][w] <= progress[w] /\ ParentMeta[w] <= progress[w]
      BY DEF Reported
    <3> QED BY <2>0, <2>1, <3>1, <3>2, <3>3
  <2> QED BY <2>2, <2>3
<1> QED BY <1>1, <1>2, OperationsHeld, PTL DEF Spec

\* A key of the metadata is only lost with the parent, or to a writer of progress
\* that had not read it; a decision that is accepted keeps all of them.
THEOREM OperationsMergeKeepsRead == Spec => MergeKeepsRead
<1> USE OperationsAssumption DEF Phases, AtChild, Waits
<1> DEFINE Back(key) == Exists(live', Parent) /\ ParentMeta'[key] < ParentMeta[key]
           Rewrites(key) == \E w \in Writers \ {key} :
                              /\ step[w] = "write" /\ step'[w] = "read"
                              /\ ParentMeta'[key] = known[w][key] /\ known[w][key] > 0
           Keeps == \A key \in Keys : Exists(live', Parent) /\ ParentMeta'[key] < ParentMeta[key] =>
                      \E w \in Writers \ {key} :
                        /\ step[w] = "write" /\ step'[w] = "read"
                        /\ ParentMeta'[key] = known[w][key] /\ known[w][key] > 0
<1>1. TypeOK /\ Held /\ Reported /\ [Next]_vars => [Keeps]_vars
  <2> SUFFICES ASSUME TypeOK, Held, Reported, Next, NEW key \in Keys, Back(key)
               PROVE  Rewrites(key)
    OBVIOUS
  <2>0. /\ Parent \in Ids /\ Children \subseteq Ids /\ live \in [Ids -> Copies(Docs)]
        /\ step \in [Writers -> {"read", "write"}]
        /\ ParentMeta \in Metadata /\ ParentMeta[key] \in Nat
    BY ParentMetaIs DEF Ids, TypeOK, Metadata
  <2>1. /\ Exists(live, Parent) /\ Exists(live', Parent) /\ live'[Parent] # live[Parent]
        /\ (ParentMeta')[key] \in Nat
    <3>1. (ParentMeta')[key] \in Nat
      BY OperationsTypeStep DEF Ids, TypeOK, ParentMeta, Exists, Copies, Docs, Metadata, NoMetadata
    <3>2. ParentMeta[key] # 0
      BY <2>0, <3>1
    <3> QED BY <2>0, <3>1, <3>2 DEF ParentMeta, NoMetadata, Exists
  <2>2. live[Parent].doc \in Docs /\ live[Parent].doc.meta \in Metadata
    BY <2>0, <2>1 DEF Docs, Copies, Exists
  <2>3. ASSUME NEW c \in Children, Moves(c) PROVE FALSE
    <3>1. ASSUME NEW status, MarkChild(c, status) PROVE live'[Parent] = live[Parent]
      BY <2>0, <3>1 DEF MarkChild, WithStatus, Put
    <3>2. UpdateParent(c) /\ live' # live
      BY <2>1, <2>3, <3>1 DEF Moves, MarkAnswered, InsertOutbox, Crash, ReadParent, FindChildren,
         ReadMetadata, index
    <3>3. pc[c] = "update" /\ MayUpdate(c) /\ WriteMeta(verdict[c], [known[c] EXCEPT ![Outcome] = @ + 1])
      BY <3>2 DEF UpdateParent
    <3>4. known[c] = live[Parent].doc.meta
      BY <3>3 DEF Held, MayUpdate, Unchanged
    <3>5. verdict[c] \in Statuses /\ [known[c] EXCEPT ![Outcome] = @ + 1] \in Metadata
      BY OutcomeIs DEF TypeOK
    <3> DEFINE patch == [known[c] EXCEPT ![Outcome] = @ + 1]
    <3>6. live'[Parent].doc = [status |-> verdict[c], meta |-> Merged(live[Parent].doc.meta, patch)]
      BY <2>1, <3>3, <3>5, WriteMetaIs
    <3>7. (ParentMeta')[key] = Merged(live[Parent].doc.meta, patch)[key]
      BY <2>1, <3>6 DEF ParentMeta
    <3>8. known[c][key] \in Nat /\ patch[key] \in {known[c][key], known[c][key] + 1}
      BY OutcomeIs DEF Metadata
    <3> HIDE DEF patch
    <3>9. Merged(live[Parent].doc.meta, patch)[key] >= live[Parent].doc.meta[key]
      BY <3>4, <3>8 DEF Merged
    <3>10. ParentMeta[key] = live[Parent].doc.meta[key]
      BY <2>1 DEF ParentMeta
    <3>11. (ParentMeta')[key] >= ParentMeta[key]
      BY <3>7, <3>9, <3>10
    <3> QED BY <2>0, <2>1, <3>11
  <2>4. ASSUME NEW w \in Writers, WriteProgress(w) PROVE Rewrites(key)
    <3> DEFINE patch == [known[w] EXCEPT ![w] = progress[w] + 1]
    <3>1. /\ patch \in Metadata /\ live[Parent].doc.status \in Statuses
          /\ progress[w] \in Nat /\ known[w] \in Metadata
      BY <2>2, ReportIs DEF TypeOK, Docs
    <3>2. live'[Parent].doc = [status |-> live[Parent].doc.status,
                               meta |-> Merged(live[Parent].doc.meta, patch)]
      BY <2>1, <2>4, <3>1, WriteMetaIs DEF WriteProgress
    <3>3. step[w] = "write" /\ step'[w] = "read"
      BY <2>0, <2>4 DEF WriteProgress
    <3>4. (ParentMeta')[key] = Merged(ParentMeta, patch)[key]
      BY <2>1, <3>2 DEF ParentMeta
    <3>5. patch[key] > 0 /\ (ParentMeta')[key] = patch[key]
      BY <2>0, <3>1, <3>4 DEF Merged, Metadata
    <3>6. key # w
      BY <2>0, <3>1, <3>5 DEF Metadata, Reported
    <3>7. patch[key] = known[w][key]
      BY <3>1, <3>6 DEF Metadata
    <3> QED BY <3>3, <3>5, <3>6, <3>7
  <2>5. ~CancelParent
    <3>1. CancelParent => live'[Parent].doc = [live[Parent].doc EXCEPT !.status = "cancelled"]
      BY <2>0 DEF CancelParent, WithStatus, Put
    <3>2. CancelParent => live'[Parent].doc.meta = live[Parent].doc.meta
      BY <2>2, <3>1 DEF Docs
    <3> QED BY <2>0, <2>1, <3>2 DEF ParentMeta
  <2>6. ASSUME NEW i \in Ids PROVE ~DeleteOperation(i)
    BY <2>0, <2>1 DEF DeleteOperation, Put, Exists
  <2>7. ASSUME Refresh \/ \E w \in Writers : ReadProgress(w) PROVE FALSE
    BY <2>1, <2>7 DEF Refresh, ReadProgress, index
  <2> QED BY <2>3, <2>4, <2>5, <2>6, <2>7 DEF Next, WorkerStep, OthersStep, Moves
<1> QED BY <1>1, OperationsReported, PTL DEF Spec, MergeKeepsRead

-----------------------------------------------------------------------------
(* The verdict                                                             *)

\* a worker at work on its child finds it in processing, if at all
Unfinished == \A c \in Children : pc[c] = "run" /\ Exists(live, c) => HasStatus(c, "processing")

\* what the search shows of a child is that it is gone, unfinished, or as it is
Past ==
  \A c \in Children :
    /\ Exists(live, c) => Exists(snap, c)
    /\ Exists(live, c) /\ snap[c].doc.status \in Final => live[c].doc = snap[c].doc

\* the children have finished as a verdict says
Fits(status) ==
  /\ status \in {"completed", "failed"}
  /\ \A k \in Children : /\ ~HasStatus(k, "processing")
                         /\ HasStatus(k, "failed") => status = "failed"

VerdictsFit == \A c \in Children : pc[c] \in {"meta", "update"} => Fits(verdict[c])

DecisionFits == Decided => Fits(live[Parent].doc.status)

VerdictInv == Unfinished /\ Past /\ VerdictsFit /\ DecisionFits

\* A child is only written while its worker is at it.
LEMMA ChildIs ==
  ASSUME TypeOK, Unfinished, [Next]_vars, NEW k \in Children
  PROVE  \/ live'[k] = live[k]
         \/ ~Exists(live', k)
         \/ /\ pc[k] = "run" /\ pc'[k] \in Waits /\ HasStatus(k, "processing")
            /\ Exists(live', k) /\ live'[k].seq = live[k].seq + 1
<1> USE OperationsAssumption DEF Phases, AtChild, Waits
<1>0. /\ Parent \in Ids /\ Children \subseteq Ids /\ k \in Ids /\ k # Parent
      /\ live \in [Ids -> Copies(Docs)]
      /\ pc \in [Children -> Phases]
  BY DEF Ids, TypeOK
<1>1. ASSUME NEW c \in Children, NEW status \in {"completed", "failed"}, MarkChild(c, status)
      PROVE  \/ live'[k] = live[k]
             \/ /\ pc[k] = "run" /\ pc'[k] \in Waits /\ HasStatus(k, "processing")
                /\ Exists(live', k) /\ live'[k].seq = live[k].seq + 1
  <2>1. CASE ~Exists(live, c)
    BY <1>1, <2>1 DEF MarkChild
  <2>2. CASE Exists(live, c)
    <3>1. /\ live' = WithStatus(c, status) /\ pc[c] = "run"
          /\ \E phase \in Waits : pc' = [pc EXCEPT ![c] = phase]
      BY <1>1, <2>2 DEF MarkChild, Goto
    <3>2. CASE c # k
      BY <1>0, <3>1, <3>2 DEF WithStatus, Put
    <3>3. CASE c = k
      <4>1. live'[k].doc = [live[k].doc EXCEPT !.status = status] /\ live'[k].doc \in Docs
        <5>1. status \in Statuses /\ live[k].doc \in Docs
          BY <1>0, <2>2, <3>3 DEF Statuses, Copies, Exists
        <5>2. live'[k].doc = [live[k].doc EXCEPT !.status = status]
          BY <1>0, <2>2, <3>1, <3>3, <5>1, WithStatusIs
        <5> QED BY <5>1, <5>2 DEF Docs
      <4>2. Exists(live', k) /\ live'[k].seq = live[k].seq + 1
        BY <1>0, <3>1, <3>3, <4>1 DEF Exists, WithStatus, Put
      <4> QED BY <1>0, <2>2, <3>1, <3>3, <4>1, <4>2 DEF Unfinished
    <3> QED BY <3>2, <3>3
  <2> QED BY <2>1, <2>2
<1>2. ASSUME NEW c \in Children, UpdateParent(c) PROVE live'[k] = live[k]
  BY <1>0, <1>2 DEF UpdateParent, WriteMeta, Put
<1>3. ASSUME NEW w \in Writers, WriteProgress(w) PROVE live'[k] = live[k]
  BY <1>0, <1>3 DEF WriteProgress, WriteMeta, Put
<1>4. ASSUME CancelParent PROVE live'[k] = live[k]
  BY <1>0, <1>4 DEF CancelParent, WithStatus, Put
<1>5. ASSUME NEW i \in Ids, DeleteOperation(i) PROVE live'[k] = live[k] \/ ~Exists(live', k)
  BY <1>0, <1>5 DEF DeleteOperation, Put, Exists
<1>6. ASSUME \/ \E c \in Children : \/ MarkAnswered(c) \/ InsertOutbox(c) \/ ReadParent(c)
                                    \/ FindChildren(c) \/ ReadMetadata(c) \/ Crash(c)
             \/ \E w \in Writers : ReadProgress(w)
             \/ Refresh \/ UNCHANGED vars
      PROVE  live'[k] = live[k]
  BY <1>6 DEF MarkAnswered, InsertOutbox, ReadParent, FindChildren, ReadMetadata, Crash,
     ReadProgress, Refresh, vars, index
<1> QED BY <1>1, <1>2, <1>3, <1>4, <1>5, <1>6 DEF Next, WorkerStep, OthersStep

LEMMA OperationsVerdict == Spec => [](TypeOK /\ VerdictInv)
<1> USE OperationsAssumption DEF Phases, AtChild, Waits
<1>1. Init => VerdictInv
  BY DEF Init, Started, VerdictInv, Unfinished, Past, VerdictsFit, DecisionFits, Decided,
     HasStatus, Exists, Ids, Docs, Statuses, Final
<1>2. TypeOK /\ VerdictInv /\ [Next]_vars => VerdictInv'
  <2> SUFFICES ASSUME TypeOK, VerdictInv, [Next]_vars PROVE VerdictInv'
    OBVIOUS
  <2>0. /\ Parent \in Ids /\ Children \subseteq Ids /\ Parent \notin Children
        /\ live \in [Ids -> Copies(Docs)] /\ snap \in [Children -> Copies(Docs)]
        /\ pc \in [Children -> Phases]
        /\ verdict \in [Children -> Statuses]
    BY DEF Ids, TypeOK
  <2>1. Unfinished'
    <3> SUFFICES ASSUME NEW c \in Children, pc'[c] = "run", Exists(live', c)
                 PROVE  HasStatus(c, "processing")'
      BY DEF Unfinished
    <3>1. pc[c] = "run"
      <4>1. ~Moves(c)
        BY <2>0 DEF Moves, MarkChild, MarkAnswered, InsertOutbox, ReadParent, FindChildren,
           ReadMetadata, UpdateParent, Crash, Goto
      <4> QED BY <4>1, StillOrMoves DEF Still
    <3>2. live'[c] = live[c]
      BY <3>1, ChildIs DEF VerdictInv
    <3> QED BY <3>1, <3>2 DEF VerdictInv, Unfinished, HasStatus, Exists
  <2>2. Past'
    <3> SUFFICES ASSUME NEW c \in Children
                 PROVE  /\ Exists(live', c) => Exists(snap', c)
                        /\ Exists(live', c) /\ snap'[c].doc.status \in Final
                             => live'[c].doc = snap'[c].doc
      BY DEF Past
    <3>1. CASE Refresh
      BY <3>1 DEF Refresh, Exists
    <3>2. CASE ~Refresh
      <4>1. snap' = snap
        BY <3>2 DEF Next, WorkerStep, OthersStep, vars, MarkChild, MarkAnswered, InsertOutbox, ReadParent, FindChildren,
           ReadMetadata, UpdateParent, Crash, ReadProgress, WriteProgress, CancelParent,
           DeleteOperation, index
      <4>2. CASE live'[c] = live[c]
        BY <4>1, <4>2 DEF VerdictInv, Past, Exists
      <4>3. CASE HasStatus(c, "processing")
        BY <4>1, <4>3 DEF VerdictInv, Past, Exists, HasStatus, Final
      <4> QED BY <4>2, <4>3, ChildIs DEF VerdictInv
    <3> QED BY <3>1, <3>2
  <2>3. ASSUME NEW k \in Children, \A c \in Children : ~HasStatus(c, "processing")
        PROVE  live'[k] = live[k] \/ ~Exists(live', k)
    BY <2>3, ChildIs DEF VerdictInv
  <2>4. VerdictsFit'
    <3> SUFFICES ASSUME NEW c \in Children, pc'[c] \in {"meta", "update"}
                 PROVE  Fits(verdict[c])'
      BY DEF VerdictsFit
    <3>1. CASE Still(c) \/ ReadMetadata(c)
      <4>1. pc[c] \in {"meta", "update"} /\ verdict'[c] = verdict[c]
        BY <3>1 DEF Still, ReadMetadata, decision
      <4>2. Fits(verdict[c])
        BY <4>1 DEF VerdictInv, VerdictsFit
      <4>3. \A k \in Children : live'[k] = live[k] \/ ~Exists(live', k)
        BY <2>3, <4>2 DEF Fits
      <4> QED BY <4>1, <4>2, <4>3 DEF Fits, HasStatus, Exists
    <3>2. CASE FindChildren(c)
      <4>1. AllFinal /\ verdict'[c] = Decide /\ live' = live
        BY <2>0, <3>2 DEF FindChildren, Goto, index
      <4>2. ASSUME NEW k \in Children, Exists(live, k)
            PROVE  /\ live[k].doc.status # "processing"
                   /\ live[k].doc.status = "failed" => Decide = "failed"
        <5>1. Exists(snap, k)
          BY <4>2 DEF VerdictInv, Past
        <5>2. k \in Siblings /\ snap[k].doc.status \in Final
          BY <4>1, <5>1 DEF AllFinal, Siblings
        <5>3. live[k].doc = snap[k].doc
          BY <4>2, <5>2 DEF VerdictInv, Past
        <5> QED BY <5>2, <5>3 DEF Decide, Final
      <4>3. Decide \in {"completed", "failed"}
        BY DEF Decide
      <4> QED BY <4>1, <4>2, <4>3 DEF Fits, HasStatus, Exists
    <3>3. CASE \/ \E status \in {"completed", "failed"} : MarkChild(c, status)
               \/ MarkAnswered(c) \/ InsertOutbox(c) \/ ReadParent(c) \/ UpdateParent(c) \/ Crash(c)
      BY <2>0, <3>3 DEF MarkChild, MarkAnswered, InsertOutbox, ReadParent, UpdateParent, Crash, Goto
    <3> QED BY <3>1, <3>2, <3>3, StillOrMoves DEF Moves
  <2>5. DecisionFits'
    <3> SUFFICES ASSUME Exists(live', Parent), live'[Parent].doc.status \in {"completed", "failed"}
                 PROVE  Fits(live[Parent].doc.status)'
      BY DEF DecisionFits, Decided
    <3> DEFINE Carries(status) == Fits(status) /\ live'[Parent].doc.status = status
    <3>1. \E status \in {"completed", "failed"} : Carries(status)
      <4>1. ASSUME Exists(live, Parent), live'[Parent].doc.status = live[Parent].doc.status
            PROVE  Carries(live[Parent].doc.status)
        BY <4>1 DEF VerdictInv, DecisionFits, Decided
      <4>2. ASSUME NEW c \in Children, Moves(c) PROVE live'[Parent] = live[Parent] \/ Carries(verdict[c])
        <5>1. ASSUME NEW status, MarkChild(c, status) PROVE live'[Parent] = live[Parent]
          BY <2>0, <5>1 DEF MarkChild, WithStatus, Put
        <5>2. ASSUME UpdateParent(c) PROVE live'[Parent] = live[Parent] \/ Carries(verdict[c])
          BY <2>0, <5>2 DEF UpdateParent, WriteMeta, Put, VerdictInv, VerdictsFit
        <5> QED
          BY <4>2, <5>1, <5>2 DEF Moves, MarkAnswered, InsertOutbox, Crash, ReadParent,
             FindChildren, ReadMetadata, index
      <4>3. ASSUME NEW w \in Writers, WriteProgress(w)
            PROVE  Exists(live, Parent) /\ live'[Parent].doc.status = live[Parent].doc.status
        <5>1. Exists(live, Parent)
          BY <2>0, <4>3 DEF WriteProgress, Exists
        <5> QED BY <2>0, <4>3, <5>1 DEF WriteProgress, WriteMeta, Put
      <4>4. ASSUME NEW i \in Ids, DeleteOperation(i) PROVE live'[Parent] = live[Parent]
        BY <2>0, <4>4 DEF DeleteOperation, Put, Exists
      <4>5. ~CancelParent
        <5>1. ASSUME CancelParent PROVE live'[Parent].doc.status = "cancelled"
          <6>1. Exists(live, Parent) /\ live' = WithStatus(Parent, "cancelled")
            BY <5>1 DEF CancelParent, HasStatus
          <6>2. live[Parent].doc \in Docs
            BY <2>0, <6>1 DEF Exists, Copies
          <6>3. live'[Parent].doc = [live[Parent].doc EXCEPT !.status = "cancelled"]
            BY <2>0, <6>1, WithStatusIs DEF Statuses
          <6> QED BY <6>2, <6>3 DEF Docs
        <5> QED BY <5>1
      <4>6. ASSUME Refresh \/ UNCHANGED vars \/ \E w \in Writers : ReadProgress(w)
            PROVE  live' = live
        BY <4>6 DEF Refresh, ReadProgress, vars, index
      <4>7. live'[Parent] = live[Parent] => Exists(live, Parent)
        BY DEF Exists
      <4>8. \/ \E c \in Children : Moves(c)
            \/ \E w \in Writers : WriteProgress(w)
            \/ \E i \in Ids : DeleteOperation(i)
            \/ Refresh \/ UNCHANGED vars \/ \E w \in Writers : ReadProgress(w)
        BY <4>5 DEF Next, WorkerStep, OthersStep, Moves
      <4>9. \/ \E c \in Children : Carries(verdict[c])
            \/ Carries(live[Parent].doc.status)
        BY <4>1, <4>2, <4>3, <4>4, <4>6, <4>7, <4>8
      <4> QED BY <4>9 DEF Fits
    <3>2. \A k \in Children : live'[k] = live[k] \/ ~Exists(live', k)
      BY <2>3, <3>1 DEF Fits
    <3> QED BY <3>1, <3>2 DEF Fits, HasStatus, Exists
  <2> QED BY <2>1, <2>2, <2>4, <2>5 DEF VerdictInv
<1> QED BY <1>1, <1>2, OperationsType, PTL DEF Spec

\* A decision is right, for any number of children that finish, are deleted or
\* lose their workers in any order, although it is made from an old copy.
THEOREM OperationsVerdictIsRight == Spec => []VerdictIsRight
<1>1. TypeOK /\ VerdictInv => VerdictIsRight
  BY DEF VerdictInv, DecisionFits, Fits, VerdictIsRight, HasStatus, Decided
<1> QED BY <1>1, OperationsVerdict, PTL

-----------------------------------------------------------------------------
(* A join                                                                   *)

\* the children as Join sees them
ChildrenAre == [c \in Children |-> StatusOf(c)]

\* The mapping by its name.
LEMMA JoinIs ==
  /\ [c \in Children |-> StatusOf(c)] = ChildrenAre
  /\ [c \in Children |-> StatusOf(c)'] = ChildrenAre'
BY DEF ChildrenAre

\* who has decided for a failure has seen a child that failed, and that did, or
\* is gone
CauseInv ==
  \A c \in Children : pc[c] \in {"meta", "update"} /\ verdict[c] = "failed" =>
    \E k \in Children : ~Exists(live, k) \/ HasStatus(k, "failed")

LEMMA CauseInvStep ==
  ASSUME TypeOK, VerdictInv, CauseInv, [Next]_vars
  PROVE  CauseInv'
<1> SUFFICES ASSUME NEW c \in Children, pc'[c] \in {"meta", "update"}, verdict'[c] = "failed"
             PROVE  \E k \in Children : (~Exists(live, k) \/ HasStatus(k, "failed"))'
  BY DEF CauseInv
<1>0. /\ pc \in [Children -> Phases]
      /\ verdict \in [Children -> Statuses]
  BY DEF TypeOK
<1>1. CASE Still(c) \/ ReadMetadata(c)
  <2>1. pc[c] \in {"meta", "update"} /\ verdict[c] = "failed"
    BY <1>1 DEF Still, ReadMetadata, decision
  <2>2. PICK k \in Children : ~Exists(live, k) \/ HasStatus(k, "failed")
    BY <2>1 DEF CauseInv
  <2>3. live'[k] = live[k] \/ ~Exists(live', k)
    <3>1. ~HasStatus(k, "processing")
      BY <2>1 DEF VerdictInv, VerdictsFit, Fits
    <3> QED BY <3>1, ChildIs DEF VerdictInv
  <2> QED BY <2>2, <2>3 DEF Exists, HasStatus
<1>2. CASE FindChildren(c)
  <2>1. AllFinal /\ Decide = "failed" /\ live' = live
    BY <1>0, <1>2 DEF FindChildren, Goto, index
  <2>2. PICK k \in Siblings : snap[k].doc.status = "failed"
    BY <2>1 DEF Decide
  <2>3. k \in Children /\ (Exists(live, k) => live[k].doc.status = "failed")
    BY <2>2 DEF Siblings, VerdictInv, Past, Final, Statuses
  <2> QED BY <2>1, <2>3 DEF Exists, HasStatus
<1>3. CASE \/ \E status \in {"completed", "failed"} : MarkChild(c, status)
           \/ MarkAnswered(c) \/ InsertOutbox(c) \/ ReadParent(c) \/ UpdateParent(c) \/ Crash(c)
  BY <1>0, <1>3 DEF MarkChild, MarkAnswered, InsertOutbox, ReadParent, UpdateParent, Crash, Goto
<1> QED BY <1>1, <1>2, <1>3, StillOrMoves DEF Moves

\* One row is written.
LEMMA OneStatus ==
  ASSUME TypeOK, NEW i \in Ids, \A k \in Ids : k # i => live'[k] = live[k]
  PROVE  /\ i = Parent => ChildrenAre' = ChildrenAre
         /\ i \in Children => /\ StatusOf(Parent)' = StatusOf(Parent)
                              /\ ChildrenAre' = [ChildrenAre EXCEPT ![i] = StatusOf(i)']
<1>1. \A k \in Ids : k # i => StatusOf(k)' = StatusOf(k)
  BY DEF StatusOf, Exists
<1>2. Children \subseteq Ids /\ Parent \in Ids /\ Parent \notin Children
  BY OperationsAssumption DEF Ids
<1> QED BY <1>1, <1>2 DEF ChildrenAre

\* Every step of the operation is one of the join, or does not touch it.
LEMMA JoinStep ==
  ASSUME TypeOK, Held, VerdictInv, CauseInv, [Next]_vars
  PROVE  [J!Next]_(J!vars)
<1> USE OperationsAssumption DEF Phases, AtChild, Waits
<1>0. /\ Parent \in Ids /\ Children \subseteq Ids /\ Parent \notin Children
      /\ live \in [Ids -> Copies(Docs)]
      /\ \A i \in Ids : Exists(live, i) => live[i].doc \in Docs
  BY DEF Ids, TypeOK, Exists, Copies
<1>1. ASSUME NEW c \in Children, NEW status \in {"completed", "failed"}, MarkChild(c, status),
             Exists(live, c)
      PROVE  J!Next
  <2>0. live' = WithStatus(c, status) /\ c \in Ids /\ status \in Statuses
    BY <1>0, <1>1 DEF MarkChild, Statuses
  <2>1. /\ live'[c].doc = [live[c].doc EXCEPT !.status = status]
        /\ \A k \in Ids : k # c => live'[k] = live[k]
    BY <1>1, <2>0, WithStatusIs
  <2>2. live'[c].doc \in Docs /\ live'[c].doc.status = status
    BY <1>0, <1>1, <2>1 DEF Docs, Statuses
  <2>3. ChildrenAre[c] = "processing" /\ StatusOf(c)' = status
    BY <1>1, <2>2 DEF MarkChild, VerdictInv, Unfinished, HasStatus, StatusOf, Exists, ChildrenAre
  <2>4. J!Finish(c, status)
    BY <1>0, <2>1, <2>3, OneStatus, JoinIs DEF J!Finish
  <2> QED BY <2>4 DEF J!Next
\* the parent is written, with a status
<1>a. ASSUME NEW status \in Statuses, NEW patch \in Metadata, Exists(live, Parent),
             WriteMeta(status, patch)
      PROVE  ChildrenAre' = ChildrenAre /\ StatusOf(Parent)' = status
  <2>1. /\ live'[Parent].doc = [status |-> status, meta |-> Merged(live[Parent].doc.meta, patch)]
        /\ live'[Parent].doc \in Docs /\ \A k \in Ids : k # Parent => live'[k] = live[k]
    BY <1>a, WriteMetaIs
  <2> QED BY <1>0, <2>1, OneStatus DEF StatusOf, Exists
<1>2. ASSUME NEW c \in Children, UpdateParent(c), MayUpdate(c) PROVE J!Next
  <2>1. StatusOf(Parent) = "processing" /\ Exists(live, Parent)
    BY <1>2 DEF UpdateParent, MayUpdate, Unchanged, Held, HasStatus, StatusOf
  <2>2. /\ [known[c] EXCEPT ![Outcome] = @ + 1] \in Metadata /\ verdict[c] \in Statuses
    BY OutcomeIs DEF TypeOK
  <2>3. ChildrenAre' = ChildrenAre /\ StatusOf(Parent)' = verdict[c]
    BY <1>2, <1>a, <2>1, <2>2 DEF UpdateParent
  <2>4. Fits(verdict[c])
    BY <1>2 DEF UpdateParent, VerdictInv, VerdictsFit
  <2>5. /\ \A k \in Children : ChildrenAre[k] # "processing"
        /\ \A k \in Children : ChildrenAre[k] = "failed" => verdict[c] = "failed"
    BY <2>4 DEF Fits, ChildrenAre, StatusOf, HasStatus
  <2>6. ASSUME verdict[c] = "failed" PROVE \E k \in Children : ChildrenAre[k] \in {"failed", "gone"}
    BY <1>2, <2>6 DEF UpdateParent, CauseInv, ChildrenAre, StatusOf, HasStatus
  <2>7. verdict[c] \in {"completed", "failed"}
    BY <2>4 DEF Fits
  <2>8. J!Decide
    BY <2>1, <2>3, <2>5, <2>6, <2>7, JoinIs DEF J!Decide, J!Some
  <2> QED BY <2>8 DEF J!Next
<1>3. ASSUME NEW w \in Writers, WriteProgress(w), Exists(live, Parent) PROVE UNCHANGED J!vars
  <2>1. WriteMeta(StatusOf(Parent), [known[w] EXCEPT ![w] = progress[w] + 1])
    BY <1>3 DEF WriteProgress, StatusOf
  <2>2. StatusOf(Parent) \in Statuses /\ [known[w] EXCEPT ![w] = progress[w] + 1] \in Metadata
    BY <1>0, <1>3, ReportIs DEF StatusOf, Docs
  <2> QED BY <1>3, <1>a, <2>1, <2>2, JoinIs DEF J!vars
<1>4. ASSUME CancelParent PROVE J!Next
  <2>1. StatusOf(Parent) = "processing" /\ Exists(live, Parent)
    BY <1>4 DEF CancelParent, HasStatus, StatusOf
  <2>2. /\ live'[Parent].doc = [live[Parent].doc EXCEPT !.status = "cancelled"]
        /\ \A k \in Ids : k # Parent => live'[k] = live[k]
    BY <1>0, <1>4, <2>1, WithStatusIs DEF CancelParent, Statuses
  <2>3. live'[Parent].doc \in Docs /\ live'[Parent].doc.status = "cancelled"
    BY <1>0, <2>1, <2>2 DEF Docs, Statuses
  <2>4. StatusOf(Parent)' = "cancelled"
    BY <2>3 DEF StatusOf, Exists
  <2>5. J!Cancel
    BY <1>0, <2>1, <2>2, <2>4, OneStatus, JoinIs DEF J!Cancel
  <2> QED BY <2>5 DEF J!Next
<1>5. ASSUME NEW i \in Ids, DeleteOperation(i) PROVE J!Next
  <2>1. /\ Exists(live, i) /\ live'[i].doc = Missing
        /\ \A k \in Ids : k # i => live'[k] = live[k]
    BY <1>0, <1>5, PutReads DEF DeleteOperation
  <2>2. StatusOf(i) # "gone" /\ StatusOf(i)' = "gone"
    BY <1>0, <2>1 DEF StatusOf, Exists, Docs, Statuses
  <2>3. CASE i = Parent
    BY <2>1, <2>2, <2>3, OneStatus, JoinIs DEF J!RemoveParent, J!Next
  <2>4. CASE i \in Children
    <3>1. ChildrenAre[i] # "gone"
      BY <2>2, <2>4 DEF ChildrenAre
    <3>2. J!RemoveChild(i)
      BY <2>1, <2>2, <2>4, <3>1, OneStatus, JoinIs DEF J!RemoveChild
    <3> QED BY <2>4, <3>2 DEF J!Next
  <2> QED BY <2>3, <2>4 DEF Ids
<1>6. ASSUME live' = live PROVE UNCHANGED J!vars
  BY <1>6, JoinIs DEF J!vars, ChildrenAre, StatusOf, Exists
<1>7. ASSUME NEW c \in Children, WorkerStep(c) \/ InsertOutbox(c) PROVE [J!Next]_(J!vars)
  <2>1. ASSUME NEW status \in {"completed", "failed"}, MarkChild(c, status)
        PROVE  [J!Next]_(J!vars)
    BY <1>1, <1>6, <2>1 DEF MarkChild
  <2>2. ASSUME UpdateParent(c) PROVE [J!Next]_(J!vars)
    BY <1>2, <1>6, <2>2 DEF UpdateParent
  <2>3. ASSUME \/ MarkAnswered(c) \/ InsertOutbox(c) \/ ReadParent(c) \/ FindChildren(c)
               \/ ReadMetadata(c) \/ Crash(c)
        PROVE  live' = live
    BY <2>3 DEF MarkAnswered, InsertOutbox, ReadParent, FindChildren, ReadMetadata, Crash, index
  <2> QED BY <1>6, <1>7, <2>1, <2>2, <2>3 DEF WorkerStep
<1>8. ASSUME NEW w \in Writers, ReadProgress(w) \/ WriteProgress(w) PROVE [J!Next]_(J!vars)
  BY <1>3, <1>6, <1>8 DEF ReadProgress, WriteProgress, index
<1>9. CASE Refresh \/ UNCHANGED vars
  BY <1>6, <1>9 DEF Refresh, vars
<1> QED BY <1>4, <1>5, <1>7, <1>8, <1>9 DEF Next, OthersStep

\* An operation ends as one join: the four requests of a worker are one decision,
\* made when the parent is updated, whatever was written, cancelled, deleted or
\* decided between them; and a parent only fails if a child did.
THEOREM OperationsAreJoin == Spec => IsJoin
<1> USE OperationsAssumption DEF Phases, AtChild, Waits
<1>1. Init => CauseInv /\ J!Init
  <2> SUFFICES ASSUME Init PROVE CauseInv /\ J!Init
    OBVIOUS
  <2>1. \A i \in Ids : StatusOf(i) = "processing"
    BY DEF Init, Started, StatusOf, Exists, Docs, Statuses, NoMetadata, Metadata
  <2>2. Children \subseteq Ids /\ Parent \in Ids
    BY DEF Ids
  <2>3. ChildrenAre = [c \in Children |-> "processing"]
    BY <2>1, <2>2 DEF ChildrenAre
  <2> QED BY <2>1, <2>2, <2>3, JoinIs DEF Init, CauseInv, J!Init
<1>2. TypeOK /\ Held /\ VerdictInv /\ CauseInv /\ [Next]_vars => CauseInv' /\ [J!Next]_(J!vars)
  BY CauseInvStep, JoinStep
<1> QED BY <1>1, <1>2, OperationsHeld, OperationsVerdict, PTL DEF Spec, IsJoin, J!Spec

-----------------------------------------------------------------------------
(* The last child                                                          *)

\* what the search shows of a child is an old copy, or the same one
SnapIsOld ==
  \A c \in Children : /\ snap[c].seq <= live[c].seq
                      /\ snap[c].seq = live[c].seq => snap[c] = live[c]

\* a child whose worker is past it has finished ...
Marked ==
  \A c \in Children : pc[c] # "run" /\ Exists(live, c) /\ faults = 0 =>
    live[c].doc.status \in Final

\* ... and can be found so, before its worker looks at its siblings
Shown ==
  \A c \in Children :
    Exists(live, c) /\ Exists(snap, c) /\ snap[c].doc.status \notin Final /\ faults = 0 =>
      pc[c] \in AtChild

\* the mark is the one write of a child that exists
WrittenOnce ==
  \A c \in Children : Exists(live, c) =>
    /\ live[c].seq <= Started.seq + 1
    /\ pc[c] = "run" => live[c].seq = Started.seq

\* if none gave up, one of them has decided
SomebodyDecides ==
  /\ \A c \in Children : pc[c] = "done" /\ Exists(live, c)
  /\ faults = 0
  => ~HasStatus(Parent, "processing")

LastInv == SnapIsOld /\ WrittenOnce /\ Marked /\ Shown /\ SomebodyDecides

\* Each try that was lost is a write of the parent after it was read for that
\* try, so whoever gives up has seen as many.
TriesInv ==
  \A c \in Children :
    /\ live[Parent].seq >= Started.seq + tries[c]
    /\ pc[c] \in {"siblings", "meta", "update"} => handle[c] >= Started.seq + tries[c]
    /\ pc[c] = "beaten" => tries[c] >= MaxTries

\* Every step is a write of one operation, or the refresh.
LEMMA OneWrite ==
  ASSUME TypeOK, [Next]_vars
  PROVE  \/ Refresh
         \/ /\ UNCHANGED snap
            /\ UNCHANGED live \/ \E i \in Ids : \E doc : live' = Put(live, i, doc)
<1>0. Parent \in Ids /\ Children \subseteq Ids
  BY DEF Ids
<1> QED
  BY <1>0 DEF Next, WorkerStep, OthersStep, vars, MarkChild, MarkAnswered, InsertOutbox,
     ReadParent, FindChildren, ReadMetadata, UpdateParent, Crash, ReadProgress, WriteProgress,
     WriteMeta, CancelParent, DeleteOperation, index, WithStatus

\* A worker that dies is counted.
LEMMA NoFaultBefore ==
  ASSUME TypeOK, [Next]_vars, faults' = 0
  PROVE  faults = 0 /\ \A c \in Children : ~Crash(c)
<1>1. faults \in Nat
  BY DEF TypeOK
<1>2. \A c \in Children : ~Crash(c)
  BY <1>1 DEF Crash
<1> QED
  BY <1>2 DEF Next, WorkerStep, OthersStep, vars, MarkChild, MarkAnswered, InsertOutbox,
     ReadParent, FindChildren, ReadMetadata, UpdateParent, ReadProgress, WriteProgress,
     CancelParent, DeleteOperation, Refresh

\* A parent in processing was so before, and no decision of it was accepted.
LEMMA ParentWas ==
  ASSUME TypeOK, VerdictsFit, [Next]_vars, HasStatus(Parent, "processing")'
  PROVE  /\ HasStatus(Parent, "processing")
         /\ \A c \in Children : ~(UpdateParent(c) /\ MayUpdate(c))
<1> USE OperationsAssumption DEF Phases, AtChild, Waits
<1>0. Parent \in Ids /\ Children \subseteq Ids /\ Parent \notin Children
      /\ live \in [Ids -> Copies(Docs)] /\ Exists(live', Parent)
      /\ live'[Parent].doc.status = "processing"
  BY DEF Ids, TypeOK, HasStatus
<1>1. ASSUME NEW c \in Children, UpdateParent(c), MayUpdate(c) PROVE FALSE
  <2>1. pc[c] = "update" /\ live'[Parent].doc.status = verdict[c]
    BY <1>0, <1>1 DEF UpdateParent, WriteMeta, Put
  <2> QED BY <1>0, <2>1 DEF VerdictsFit, Fits
<1>2. ASSUME live'[Parent] = live[Parent] PROVE HasStatus(Parent, "processing")
  BY <1>0, <1>2 DEF HasStatus, Exists
<1>3. ASSUME NEW c \in Children, Moves(c) PROVE live'[Parent] = live[Parent]
  <2>1. ASSUME NEW status, MarkChild(c, status) PROVE live'[Parent] = live[Parent]
    BY <1>0, <2>1 DEF MarkChild, WithStatus, Put
  <2> QED
    BY <1>1, <1>3, <2>1 DEF Moves, MarkAnswered, InsertOutbox, Crash, ReadParent, FindChildren,
       ReadMetadata, UpdateParent, index
<1>4. ASSUME NEW w \in Writers, WriteProgress(w) PROVE HasStatus(Parent, "processing")
  <2>1. Exists(live, Parent)
    BY <1>0, <1>4 DEF WriteProgress, Exists
  <2> QED BY <1>0, <1>4, <2>1 DEF WriteProgress, WriteMeta, Put, HasStatus
<1>5. ASSUME CancelParent PROVE HasStatus(Parent, "processing")
  BY <1>5 DEF CancelParent
<1>6. ASSUME NEW i \in Ids, DeleteOperation(i) PROVE live'[Parent] = live[Parent]
  BY <1>0, <1>6 DEF DeleteOperation, Put, Exists
<1>7. ASSUME Refresh \/ UNCHANGED vars \/ \E w \in Writers : ReadProgress(w)
      PROVE  live' = live
  BY <1>7 DEF Refresh, ReadProgress, vars, index
<1>8. HasStatus(Parent, "processing")
  BY <1>2, <1>3, <1>4, <1>5, <1>6, <1>7 DEF Next, WorkerStep, OthersStep, Moves
<1> QED BY <1>1, <1>8

\* A worker that marks its child leaves it finished.
LEMMA MarkIsFinal ==
  ASSUME TypeOK, NEW c \in Children, NEW status \in {"completed", "failed"},
         MarkChild(c, status), Exists(live', c)
  PROVE  live'[c].doc.status \in Final /\ pc'[c] \in Waits
<1>0. c \in Ids /\ live \in [Ids -> Copies(Docs)] /\ status \in Statuses
      /\ pc \in [Children -> Phases]
  BY DEF Ids, TypeOK, Statuses
<1>1. Exists(live, c)
  BY DEF MarkChild, Exists
<1>2. live'[c].doc = [live[c].doc EXCEPT !.status = status] /\ live[c].doc \in Docs
  BY <1>0, <1>1, WithStatusIs DEF MarkChild, Exists, Copies
<1>3. live'[c].doc.status = status
  BY <1>2 DEF Docs
<1> QED BY <1>0, <1>1, <1>3 DEF MarkChild, Goto, Final, Statuses, Phases, Waits

LEMMA LastInvStep == TypeOK /\ VerdictInv /\ LastInv /\ [Next]_vars => LastInv'
<1> SUFFICES ASSUME TypeOK, VerdictInv, LastInv, [Next]_vars PROVE LastInv'
  OBVIOUS
<1> USE OperationsAssumption DEF Phases, AtChild, Waits
<1>0. /\ Parent \in Ids /\ Children \subseteq Ids /\ Parent \notin Children
      /\ live \in [Ids -> Copies(Docs)] /\ snap \in [Children -> Copies(Docs)]
      /\ pc \in [Children -> Phases]
  BY DEF Ids, TypeOK
<1>1. SnapIsOld'
  <2> SUFFICES ASSUME NEW c \in Children
               PROVE  /\ snap'[c].seq <= live'[c].seq
                      /\ snap'[c].seq = live'[c].seq => snap'[c] = live'[c]
    BY DEF SnapIsOld
  <2>1. /\ snap[c].seq \in Nat /\ live[c].seq \in Nat /\ snap[c].seq <= live[c].seq
        /\ snap[c].seq = live[c].seq => snap[c] = live[c]
    BY <1>0 DEF Copies, LastInv, SnapIsOld
  <2>2. CASE Refresh
    BY <2>1, <2>2 DEF Refresh
  <2>3. ASSUME UNCHANGED snap, NEW i \in Ids, NEW doc, live' = Put(live, i, doc)
        PROVE  /\ snap'[c].seq <= live'[c].seq
               /\ snap'[c].seq = live'[c].seq => snap'[c] = live'[c]
    <3>1. CASE i = c
      BY <1>0, <2>1, <2>3, <3>1 DEF Put
    <3>2. CASE i # c
      BY <1>0, <2>1, <2>3, <3>2 DEF Put
    <3> QED BY <3>1, <3>2
  <2> QED BY <2>1, <2>2, <2>3, OneWrite
\* a child that exists is as it was, or is just marked
<1>a. ASSUME NEW c \in Children, Exists(live', c)
      PROVE  /\ Exists(live, c)
             /\ live'[c] = live[c] \/ (pc[c] = "run" /\ pc'[c] \in Waits)
  <2>1. \/ live'[c] = live[c]
        \/ pc[c] = "run" /\ pc'[c] \in Waits /\ HasStatus(c, "processing")
    BY <1>a, ChildIs DEF VerdictInv
  <2> QED BY <1>a, <2>1 DEF HasStatus, Exists
<1>2. ASSUME NEW c \in Children, pc'[c] # "run", Exists(live', c), faults' = 0
      PROVE  live'[c].doc.status \in Final
  <2>1. CASE \E status \in {"completed", "failed"} : MarkChild(c, status)
    BY <1>2, <2>1, MarkIsFinal
  <2>2. CASE ~\E status \in {"completed", "failed"} : MarkChild(c, status)
    <3>1. pc[c] # "run"
      BY <1>2, <2>2, StillOrMoves, NoFaultBefore
      DEF Still, Moves, MarkAnswered, InsertOutbox, ReadParent, FindChildren, ReadMetadata,
          UpdateParent
    <3> QED BY <1>2, <1>a, <3>1, NoFaultBefore DEF LastInv, Marked
  <2> QED BY <2>1, <2>2
<1>3. ASSUME NEW c \in Children, Exists(live', c), Exists(snap', c), faults' = 0,
             snap'[c].doc.status \notin Final
      PROVE  pc'[c] \in AtChild
  <2>1. CASE Refresh
    <3>1. snap'[c] = live[c] /\ live' = live /\ pc' = pc
      BY <2>1 DEF Refresh
    <3> QED BY <1>3, <3>1, NoFaultBefore DEF LastInv, Marked
  <2>2. CASE ~Refresh
    <3>1. snap'[c] = snap[c] /\ Exists(snap, c) /\ faults = 0
      BY <1>3, <2>2, OneWrite, NoFaultBefore DEF Exists
    <3>2. pc[c] \in AtChild
      BY <1>3, <1>a, <3>1 DEF LastInv, Shown
    <3>3. CASE Still(c)
      BY <3>2, <3>3 DEF Still
    <3>4. CASE \E status \in {"completed", "failed"} : MarkChild(c, status)
      BY <1>3, <3>4, MarkIsFinal
    <3>5. ~MarkAnswered(c)
      <4> SUFFICES ASSUME MarkAnswered(c) PROVE FALSE
        OBVIOUS
      <4>1. /\ live[c].seq \in Nat /\ snap[c].seq \in Nat /\ snap[c].seq <= live[c].seq
            /\ snap[c].seq >= Started.seq + 1 /\ live[c].seq <= Started.seq + 1
        BY <1>0, <1>3, <1>a
           DEF Copies, LastInv, SnapIsOld, WrittenOnce, MarkAnswered, IsRefreshed, Searchable, Started
      <4>2. snap[c] = live[c]
        BY <4>1 DEF LastInv, SnapIsOld, Started
      <4>3. live[c].doc.status \in Final
        BY <1>3, <1>a, <3>1 DEF MarkAnswered, LastInv, Marked
      <4> QED BY <1>3, <3>1, <4>2, <4>3
    <3>6. ~(InsertOutbox(c) \/ ReadParent(c) \/ FindChildren(c) \/ ReadMetadata(c) \/ UpdateParent(c))
      BY <3>2 DEF InsertOutbox, ReadParent, FindChildren, ReadMetadata, UpdateParent
    <3> QED BY <1>3, <3>3, <3>4, <3>5, <3>6, StillOrMoves, NoFaultBefore DEF Moves
  <2> QED BY <2>1, <2>2
<1>4. WrittenOnce'
  <2> SUFFICES ASSUME NEW c \in Children, Exists(live', c)
               PROVE  /\ live'[c].seq <= Started.seq + 1
                      /\ pc'[c] = "run" => live'[c].seq = Started.seq
    BY DEF WrittenOnce, Started
  <2>1. /\ Exists(live, c) /\ live[c].seq <= Started.seq + 1
        /\ pc[c] = "run" => live[c].seq = Started.seq
    BY <1>a DEF LastInv, WrittenOnce
  <2>2. CASE live'[c] = live[c]
    <3>1. pc'[c] = "run" => pc[c] = "run"
      BY <1>0, StillOrMoves
      DEF Still, Moves, MarkChild, MarkAnswered, InsertOutbox, ReadParent, FindChildren,
          ReadMetadata, UpdateParent, Crash, Goto
    <3> QED BY <2>1, <2>2, <3>1
  <2>3. CASE pc[c] = "run" /\ pc'[c] \in Waits /\ live'[c].seq = live[c].seq + 1
    BY <2>1, <2>3 DEF Started
  <2> QED BY <2>2, <2>3, ChildIs DEF LastInv, VerdictInv
<1>5. ASSUME \A c \in Children : pc'[c] = "done" /\ Exists(live', c), faults' = 0,
             HasStatus(Parent, "processing")'
      PROVE  FALSE
  <2>1. HasStatus(Parent, "processing") /\ faults = 0 /\ \A k \in Children : Exists(live, k)
    BY <1>5, <1>a, ParentWas, NoFaultBefore DEF VerdictInv
  <2>2. PICK c \in Children : pc[c] # "done"
    BY <2>1 DEF LastInv, SomebodyDecides
  <2>3. Moves(c) /\ pc'[c] = "done"
    BY <1>5, <2>2, StillOrMoves DEF Still
  <2>4. ~\E status \in {"completed", "failed"} : MarkChild(c, status)
    BY <1>5, <2>3, MarkIsFinal
  <2>5. ~FindChildren(c)
    <3> SUFFICES ASSUME FindChildren(c) PROVE FALSE
      OBVIOUS
    <3>1. ~AllFinal
      BY <1>0, <2>3 DEF FindChildren, Goto
    <3>2. PICK k \in Children : Exists(snap, k) /\ snap[k].doc.status \notin Final
      BY <3>1 DEF AllFinal, Siblings
    <3>3. pc[k] \in AtChild
      BY <2>1, <3>2 DEF LastInv, Shown
    <3>4. pc'[k] = pc[k]
      BY <1>0, <3>3 DEF FindChildren, Goto
    <3> QED BY <1>5, <3>3, <3>4
  <2>6. ~UpdateParent(c)
    <3>1. ~(UpdateParent(c) /\ MayUpdate(c))
      BY <1>5, ParentWas DEF VerdictInv
    <3> QED BY <1>0, <2>3, <3>1 DEF UpdateParent, Goto
  <2>7. ~(MarkAnswered(c) \/ InsertOutbox(c) \/ ReadParent(c) \/ ReadMetadata(c))
    BY <1>0, <2>1, <2>3 DEF MarkAnswered, InsertOutbox, ReadParent, ReadMetadata, Goto
  <2> QED BY <1>5, <2>3, <2>4, <2>5, <2>6, <2>7, NoFaultBefore DEF Moves
<1> QED BY <1>1, <1>2, <1>3, <1>4, <1>5 DEF LastInv, Marked, Shown, SomebodyDecides

LEMMA TriesInvStep ==
  ASSUME TypeOK, Held, TriesInv, [Next]_vars
  PROVE  TriesInv'
<1> USE OperationsAssumption
<1>0. /\ live[Parent].seq \in Nat /\ live'[Parent].seq \in Nat
      /\ live'[Parent].seq >= live[Parent].seq
      /\ pc \in [Children -> Phases] /\ handle \in [Children -> Nat] /\ tries \in [Children -> Nat]
  BY ParentIs DEF TypeOK, Ids, Copies, SameParent
<1> SUFFICES ASSUME NEW c \in Children
             PROVE  /\ live'[Parent].seq >= Started.seq + tries'[c]
                    /\ pc'[c] \in {"siblings", "meta", "update"} => handle'[c] >= Started.seq + tries'[c]
                    /\ pc'[c] = "beaten" => tries'[c] >= MaxTries
  BY DEF TriesInv, Started
<1>1. /\ live[Parent].seq >= Started.seq + tries[c]
      /\ pc[c] \in {"siblings", "meta", "update"} => handle[c] >= Started.seq + tries[c]
      /\ pc[c] = "beaten" => tries[c] >= MaxTries
      /\ Started.seq = 1
  BY DEF TriesInv, Started
<1>2. CASE Still(c)
  BY <1>0, <1>1, <1>2 DEF Still
<1>3. CASE UpdateParent(c) /\ ~MayUpdate(c)
  <2>1. handle[c] <= live[Parent].seq /\ handle[c] # live[Parent].seq
    BY <1>3 DEF UpdateParent, MayUpdate, Unchanged, Held, HasStatus
  <2>2. /\ tries'[c] = tries[c] + 1 /\ live' = live
        /\ pc'[c] = IF Again(c) THEN "read" ELSE "beaten"
    BY <1>0, <1>3 DEF UpdateParent, Goto
  <2>3. live[Parent].seq >= Started.seq + tries'[c]
    BY <1>0, <1>1, <1>3, <2>1, <2>2 DEF UpdateParent
  <2>4. ~Again(c) => tries'[c] >= MaxTries
    BY <1>0, <2>2 DEF Again
  <2> QED BY <2>2, <2>3, <2>4
<1>4. CASE UpdateParent(c) /\ MayUpdate(c)
  BY <1>0, <1>1, <1>4 DEF UpdateParent, Goto
<1>5. CASE ReadParent(c)
  BY <1>0, <1>1, <1>5 DEF ReadParent, Goto
<1>6. CASE FindChildren(c) \/ ReadMetadata(c)
  BY <1>0, <1>1, <1>6 DEF FindChildren, ReadMetadata, Goto, decision
<1>7. CASE \/ \E status \in {"completed", "failed"} : MarkChild(c, status)
           \/ MarkAnswered(c) \/ InsertOutbox(c) \/ Crash(c)
  <2>1. tries' = tries /\ pc'[c] \in Waits \union {"outbox", "read", "done"}
    BY <1>0, <1>7 DEF MarkChild, MarkAnswered, InsertOutbox, Crash, Goto, decision, Waits
  <2> QED BY <1>0, <1>1, <2>1 DEF Waits
<1> QED BY <1>2, <1>3, <1>4, <1>5, <1>6, <1>7, StillOrMoves DEF Moves

\* When every worker is through, the parent is decided: the child that is the
\* last to be found finished leaves none that is not.  It is left undecided only
\* by one that lost all its tries to other writes of the parent.
THEOREM OperationsLastOneDecides == Spec => []LastOneDecides
<1>1. Init => LastInv
  BY OperationsAssumption
  DEF Init, Started, LastInv, SnapIsOld, WrittenOnce, AtChild, Marked, Shown, SomebodyDecides, Exists, Ids
<1>2. Init => TriesInv
  BY OperationsAssumption DEF Init, TriesInv, Started, Ids
<1>3. TypeOK /\ Held /\ TriesInv /\ [Next]_vars => TriesInv'
  BY TriesInvStep
<1>4. TypeOK /\ LastInv /\ TriesInv => LastOneDecides
  <2> SUFFICES ASSUME TypeOK, LastInv, TriesInv,
                      \A c \in Children : pc[c] \in {"done", "beaten"} /\ Exists(live, c),
                      faults = 0, HasStatus(Parent, "processing")
               PROVE  Rewritten /\ \E c \in Children : pc[c] = "beaten"
    BY DEF LastOneDecides
  <2>1. PICK c \in Children : pc[c] = "beaten"
    BY DEF LastInv, SomebodyDecides
  <2>2. /\ live[Parent].seq >= Started.seq + tries[c] /\ tries[c] >= MaxTries /\ Started.seq = 1
        /\ live[Parent].seq \in Nat /\ tries[c] \in Nat /\ MaxTries \in Nat
    BY <2>1, OperationsAssumption DEF TriesInv, TypeOK, Ids, Copies, Started
  <2> QED BY <2>1, <2>2 DEF Rewritten
<1> QED BY <1>1, <1>2, <1>3, <1>4, LastInvStep, OperationsHeld, OperationsVerdict, PTL DEF Spec

-----------------------------------------------------------------------------
(* The webhooks beside the operations                                      *)

\* What goes on at the webhooks and their deliveries leaves the operations to
\* their own steps ...
LEMMA WebhooksStep == [WebhooksNext]_everything => [Next]_vars
<1> SUFFICES ASSUME [WebhooksNext]_everything PROVE [Next]_vars
  OBVIOUS
<1>1. CASE UNCHANGED everything
  BY <1>1 DEF everything, vars
<1>2. ASSUME NEW c \in Children, Worker(c) PROVE Next
  BY <1>2 DEF Worker, Next
<1>3. ASSUME NEW c \in Children, Announce(c) PROVE Next
  BY <1>3 DEF Announce, Next
<1>4. ASSUME NEW c \in Children,
             FindWebhooks(c) \/ \E h \in Hooks : InsertDelivery(c, h)
      PROVE  UNCHANGED vars
  BY <1>4 DEF FindWebhooks, InsertDelivery
<1>5. ASSUME OthersStep PROVE Next
  BY <1>5 DEF Next
<1>6. ASSUME NEW a \in Admins,
             \/ \E h \in Hooks : CreateWebhook(a, h) \/ GetWebhook(a, h, "update")
                                 \/ GetWebhook(a, h, "delete")
             \/ UpdateWebhook(a, "on") \/ UpdateWebhook(a, "off") \/ DeleteWebhook(a)
             \/ EditAnswered(a)
      PROVE  UNCHANGED vars
  BY <1>6 DEF CreateWebhook, GetWebhook, UpdateWebhook, DeleteWebhook, EditAnswered
<1>7. ASSUME ListPage \/ RefreshHooks \/ \E h \in Hooks : ListDeliveries(h) PROVE UNCHANGED vars
  BY <1>7 DEF ListPage, RefreshHooks, ListDeliveries
<1>8. RefreshOperations => Next \/ UNCHANGED vars
  BY DEF RefreshOperations, Next
<1> QED BY <1>1, <1>2, <1>3, <1>4, <1>5, <1>6, <1>7, <1>8 DEF WebhooksNext

\* ... and every theorem about these holds beside the webhooks.
THEOREM WebhooksRefineOperations == WebhooksSpec => Spec
<1>1. WebhooksInit => Init
  BY DEF WebhooksInit
<1> QED BY <1>1, WebhooksStep, PTL DEF WebhooksSpec, Spec

\* ... and it does so with the webhooks of its bank.
THEOREM WebhooksKeepJoin == WebhooksSpec => IsJoin
BY OperationsAreJoin, WebhooksRefineOperations, PTL

Settings == [Hooks -> Copies({"on", "off"})]
Stages == {Idle} \union [at : {"update", "delete", "wait"}, hook : Hooks, seq : Nat]

Administers == hooks \in [live : Settings, snap : Settings] /\ admin \in [Admins -> Stages]

\* a change of h that the caller has no answer to yet, the last one there is
Unanswered(h) ==
  \E a \in Admins : admin[a].at = "wait" /\ admin[a].hook = h /\ admin[a].seq = hooks.live[h].seq

\* a webhook can be searched as it is, or its last change waits for an answer
HooksInv ==
  \A h \in Hooks :
    /\ hooks.snap[h].seq <= hooks.live[h].seq
    /\ hooks.snap[h].seq = hooks.live[h].seq => hooks.snap[h] = hooks.live[h]
    /\ hooks.snap[h] = hooks.live[h] \/ Unanswered(h)

\* A write of a webhook waits for its answer, whoever waits already.
LEMMA WriteHookInv ==
  ASSUME Administers, HooksInv, NEW a \in Admins, NEW h \in Hooks,
         NEW doc \in {"on", "off", Missing}, WriteHook(a, h, doc), admin[a].at # "wait"
  PROVE  Administers' /\ HooksInv'
<1> USE DEF Administers
<1>1. /\ hooks' = [hooks EXCEPT !.live = Put(hooks.live, h, doc)]
      /\ admin' = [admin EXCEPT ![a] = [at |-> "wait", hook |-> h, seq |-> hooks.live[h].seq + 1]]
  BY DEF WriteHook, Goes
<1>2. hooks.live \in Settings /\ hooks.snap \in Settings
  OBVIOUS
<1>3. Put(hooks.live, h, doc) \in Settings
  BY <1>2, PutType DEF Settings
<1>4. hooks'.live = Put(hooks.live, h, doc) /\ hooks'.snap = hooks.snap
  BY <1>1
<1>5. hooks.live[h].seq \in Nat
  BY <1>2 DEF Settings, Copies
<1>6. [at |-> "wait", hook |-> h, seq |-> hooks.live[h].seq + 1] \in Stages
  BY <1>5 DEF Stages
<1>7. Administers'
  BY <1>1, <1>3, <1>6
<1>8. ASSUME NEW k \in Hooks
      PROVE  /\ hooks'.snap[k].seq <= hooks'.live[k].seq
             /\ hooks'.snap[k].seq = hooks'.live[k].seq => hooks'.snap[k] = hooks'.live[k]
             /\ hooks'.snap[k] = hooks'.live[k] \/ Unanswered(k)'
  <2>1. hooks.snap[k].seq \in Nat /\ hooks.live[k].seq \in Nat
    BY <1>2 DEF Settings, Copies
  <2>2. CASE k = h
    <3>1. hooks'.live[k].seq = hooks.live[k].seq + 1
      BY <1>2, <1>4, <2>2 DEF Put, Settings
    <3>2. admin'[a].at = "wait" /\ admin'[a].hook = k /\ admin'[a].seq = hooks'.live[k].seq
      BY <1>1, <2>2, <3>1
    <3> QED BY <1>4, <2>1, <3>1, <3>2 DEF HooksInv, Unanswered
  <2>3. CASE k # h
    <3>1. hooks'.live[k] = hooks.live[k]
      BY <1>2, <1>4, <2>3 DEF Put, Settings
    <3>2. Unanswered(k) => Unanswered(k)'
      <4> SUFFICES ASSUME NEW b \in Admins, admin[b].at = "wait", admin[b].hook = k,
                          admin[b].seq = hooks.live[k].seq
                   PROVE  Unanswered(k)'
        BY DEF Unanswered
      <4>1. admin'[b] = admin[b]
        BY <1>1
      <4> QED BY <3>1, <4>1 DEF Unanswered
    <3> QED BY <1>4, <3>1, <3>2 DEF HooksInv
  <2> QED BY <2>2, <2>3
<1> QED BY <1>7, <1>8 DEF HooksInv

LEMMA HooksInvStep ==
  Administers /\ HooksInv /\ [WebhooksNext]_everything => (Administers /\ HooksInv)'
<1> SUFFICES ASSUME Administers, HooksInv, [WebhooksNext]_everything
             PROVE  Administers' /\ HooksInv'
  OBVIOUS
<1> USE DEF Administers
<1>0. hooks.live \in Settings /\ hooks.snap \in Settings
  OBVIOUS
<1>a. ASSUME UNCHANGED <<hooks, admin>> PROVE Administers' /\ HooksInv'
  BY <1>a DEF HooksInv, Unanswered
\* an administrator who does not wait moves on without a write
<1>b. ASSUME NEW a \in Admins, NEW state \in Stages, Goes(a, state), admin[a].at # "wait",
             UNCHANGED hooks
      PROVE  Administers' /\ HooksInv'
  <2>1. admin' = [admin EXCEPT ![a] = state]
    BY <1>b DEF Goes
  <2>2. \A b \in Admins : admin[b].at = "wait" => admin'[b] = admin[b]
    BY <1>b, <2>1
  <2>3. \A h \in Hooks : Unanswered(h) => Unanswered(h)'
    BY <1>b, <2>2 DEF Unanswered
  <2> QED BY <1>b, <2>1, <2>3 DEF HooksInv
<1>c. Idle \in Stages /\ Idle.at = "idle"
  BY DEF Stages, Idle
<1>d. \A a \in Admins : admin[a].at \in {"update", "delete", "wait"} => admin[a].hook \in Hooks
  BY <1>c DEF Stages
<1>1. ASSUME NEW a \in Admins, NEW h \in Hooks, CreateWebhook(a, h)
      PROVE  Administers' /\ HooksInv'
  BY <1>1, <1>c, WriteHookInv DEF CreateWebhook
<1>2. ASSUME NEW a \in Admins, NEW h \in Hooks, NEW call \in {"update", "delete"},
             GetWebhook(a, h, call)
      PROVE  Administers' /\ HooksInv'
  <2>1. [at |-> call, hook |-> h, seq |-> hooks.live[h].seq] \in Stages
    BY <1>0 DEF Stages, Settings, Copies
  <2>2. UNCHANGED hooks /\ admin[a] = Idle
    BY <1>2 DEF GetWebhook
  <2>3. Goes(a, [at |-> call, hook |-> h, seq |-> hooks.live[h].seq]) \/ UNCHANGED admin
    BY <1>2 DEF GetWebhook
  <2> QED BY <1>a, <1>b, <1>c, <2>1, <2>2, <2>3
<1>3. ASSUME NEW a \in Admins, NEW enabled \in {"on", "off"}, UpdateWebhook(a, enabled)
      PROVE  Administers' /\ HooksInv'
  BY <1>3, <1>b, <1>c, <1>d, WriteHookInv DEF UpdateWebhook
<1>4. ASSUME NEW a \in Admins, DeleteWebhook(a) PROVE Administers' /\ HooksInv'
  BY <1>4, <1>b, <1>c, <1>d, WriteHookInv DEF DeleteWebhook
<1>5. ASSUME NEW a \in Admins, EditAnswered(a) PROVE Administers' /\ HooksInv'
  <2>1. /\ admin[a].at = "wait" /\ admin' = [admin EXCEPT ![a] = Idle] /\ UNCHANGED hooks
        /\ hooks.snap[admin[a].hook].seq >= admin[a].seq
    BY <1>5 DEF EditAnswered, Goes, IsAnswered, Searchable
  <2>2. ASSUME NEW h \in Hooks, Unanswered(h) PROVE hooks.snap[h] = hooks.live[h] \/ Unanswered(h)'
    <3>1. PICK b \in Admins : /\ admin[b].at = "wait" /\ admin[b].hook = h
                              /\ admin[b].seq = hooks.live[h].seq
      BY <2>2 DEF Unanswered
    <3>2. CASE b = a
      <4>1. hooks.snap[h].seq \in Nat /\ hooks.live[h].seq \in Nat
        BY <1>0 DEF Settings, Copies
      <4>2. hooks.snap[h].seq >= hooks.live[h].seq /\ hooks.snap[h].seq <= hooks.live[h].seq
        BY <2>1, <3>1, <3>2 DEF HooksInv
      <4> QED BY <4>1, <4>2 DEF HooksInv
    <3>3. CASE b # a
      BY <2>1, <3>1, <3>3 DEF Unanswered
    <3> QED BY <3>2, <3>3
  <2> QED BY <1>c, <2>1, <2>2 DEF HooksInv
<1>6. CASE RefreshHooks
  <2>1. hooks'.snap = hooks.live /\ hooks'.live = hooks.live /\ UNCHANGED admin
        /\ hooks' \in [live : Settings, snap : Settings]
    BY <1>0, <1>6 DEF RefreshHooks, administration
  <2>2. \A h \in Hooks : hooks.live[h].seq \in Nat
    BY <1>0 DEF Settings, Copies
  <2> QED BY <2>1, <2>2 DEF HooksInv
<1>7. ASSUME NEW c \in Children,
             Worker(c) \/ FindWebhooks(c) \/ Announce(c) \/ \E h \in Hooks : InsertDelivery(c, h)
      PROVE  UNCHANGED <<hooks, admin>>
  BY <1>7 DEF Worker, FindWebhooks, Announce, InsertDelivery, administration
<1>8. ASSUME \/ UNCHANGED webhooks \/ UNCHANGED everything
             \/ \E h \in Hooks : ListDeliveries(h)
             \/ ListPage \/ RefreshOperations
      PROVE  UNCHANGED <<hooks, admin>>
  BY <1>8 DEF webhooks, everything, ListDeliveries, ListPage, RefreshOperations, administration
<1> QED
  BY <1>a, <1>1, <1>2, <1>3, <1>4, <1>5, <1>6, <1>7, <1>8 DEF WebhooksNext

Finds == {NotFound} \union [found : {TRUE}, left : SUBSET Hooks, time : Times]

LEMMA DispatchTypeStep ==
  dispatch \in [Children -> Finds] /\ [WebhooksNext]_everything =>
    dispatch' \in [Children -> Finds]
<1> SUFFICES ASSUME dispatch \in [Children -> Finds], [WebhooksNext]_everything
             PROVE  dispatch' \in [Children -> Finds]
  OBVIOUS
<1>a. NotFound \in Finds /\ NotFound.found = FALSE
  BY DEF Finds, NotFound
<1>1. ASSUME NEW c \in Children, Worker(c) PROVE dispatch' \in [Children -> Finds]
  BY <1>1, <1>a DEF Worker
<1>2. ASSUME NEW c \in Children, FindWebhooks(c) PROVE dispatch' \in [Children -> Finds]
  <2>1. PICK time \in Times :
          dispatch' = [dispatch EXCEPT ![c] = [found |-> TRUE, left |-> Dispatched, time |-> time]]
    BY <1>2 DEF FindWebhooks
  <2>2. [found |-> TRUE, left |-> Dispatched, time |-> time] \in Finds
    BY DEF Finds, Dispatched
  <2> QED BY <2>1, <2>2
<1>3. ASSUME NEW c \in Children, NEW h \in Hooks, InsertDelivery(c, h)
      PROVE  dispatch' \in [Children -> Finds]
  <2>1. dispatch[c].found /\ dispatch' = [dispatch EXCEPT ![c].left = @ \ {h}]
    BY <1>3 DEF InsertDelivery
  <2>2. dispatch[c] \in [found : {TRUE}, left : SUBSET Hooks, time : Times]
    BY <1>a, <2>1 DEF Finds
  <2>3. [dispatch[c] EXCEPT !.left = @ \ {h}] \in Finds
    BY <2>2 DEF Finds
  <2> QED BY <2>1, <2>3
<1>4. ASSUME NEW c \in Children, Announce(c) PROVE dispatch' \in [Children -> Finds]
  BY <1>4, <1>a DEF Announce
<1>5. ASSUME NEW a \in Admins,
             \/ \E h \in Hooks : CreateWebhook(a, h) \/ GetWebhook(a, h, "update")
                                 \/ GetWebhook(a, h, "delete")
             \/ UpdateWebhook(a, "on") \/ UpdateWebhook(a, "off") \/ DeleteWebhook(a)
             \/ EditAnswered(a)
      PROVE  UNCHANGED dispatch
  BY <1>5 DEF CreateWebhook, GetWebhook, UpdateWebhook, DeleteWebhook, EditAnswered
<1>6. ASSUME \/ UNCHANGED webhooks \/ UNCHANGED everything
             \/ \E h \in Hooks : ListDeliveries(h)
             \/ ListPage \/ RefreshOperations \/ RefreshHooks
      PROVE  UNCHANGED dispatch
  BY <1>6 DEF webhooks, everything, ListDeliveries, ListPage, RefreshOperations, RefreshHooks
<1> QED BY <1>1, <1>2, <1>3, <1>4, <1>5, <1>6 DEF WebhooksNext

\* A worker that looks for webhooks finds what the administrators were answered,
\* unless another change of the webhook is under way.
THEOREM WebhooksDispatchHearsAnswers == WebhooksSpec => DispatchHearsAnswers
<1> USE OperationsAssumption, WebhooksAssumption
<1> DEFINE Inv == Administers /\ HooksInv /\ dispatch \in [Children -> Finds]
<1>1. WebhooksInit => Inv
  <2> SUFFICES ASSUME WebhooksInit PROVE Inv
    OBVIOUS
  <2>1. PICK there \in SUBSET Hooks :
          LET present == [h \in Hooks |-> IF h \in there THEN [seq |-> 1, doc |-> "on"]
                                                         ELSE [seq |-> 0, doc |-> Missing]]
          IN  hooks = [live |-> present, snap |-> present]
    BY DEF WebhooksInit
  <2>2. [h \in Hooks |-> IF h \in there THEN [seq |-> 1, doc |-> "on"]
                                        ELSE [seq |-> 0, doc |-> Missing]] \in Settings
    BY DEF Settings, Copies
  <2>3. hooks \in [live : Settings, snap : Settings] /\ hooks.live = hooks.snap
    BY <2>1, <2>2
  <2>4. hooks.live \in Settings
    BY <2>3
  <2>5. HooksInv
    BY <2>3, <2>4 DEF HooksInv, Settings, Copies
  <2>6. admin \in [Admins -> Stages] /\ dispatch \in [Children -> Finds]
    BY DEF WebhooksInit, Stages, Finds
  <2> QED BY <2>3, <2>5, <2>6 DEF Administers
<1>2. Inv /\ [WebhooksNext]_everything => Inv'
  BY HooksInvStep, DispatchTypeStep
<1> DEFINE Hears ==
  \A c \in Children : dispatch'[c].found /\ ~dispatch[c].found =>
    \A h \in Hooks :
      (\A a \in Admins : admin[a].at = "wait" => admin[a].hook # h) =>
        (h \in dispatch'[c].left <=> BankOf[h] # "other" /\ hooks.live[h].doc = "on")
<1>3. Inv /\ [WebhooksNext]_everything => [Hears]_everything
  <2> SUFFICES ASSUME Inv, WebhooksNext, NEW c \in Children, dispatch'[c].found, ~dispatch[c].found,
                      NEW h \in Hooks, \A a \in Admins : admin[a].at = "wait" => admin[a].hook # h
               PROVE  h \in dispatch'[c].left <=> BankOf[h] # "other" /\ hooks.live[h].doc = "on"
    OBVIOUS
  <2>1. FindWebhooks(c)
    <3>1. ASSUME NEW d \in Children, Worker(d) PROVE FALSE
      BY <3>1 DEF Worker, NotFound
    <3>2. ASSUME NEW d \in Children, FindWebhooks(d) PROVE d = c
      BY <3>2 DEF FindWebhooks
    <3>3. ASSUME NEW d \in Children, NEW k \in Hooks, InsertDelivery(d, k) PROVE FALSE
      <4>1. dispatch[d].found /\ dispatch' = [dispatch EXCEPT ![d].left = @ \ {k}]
        BY <3>3 DEF InsertDelivery
      <4>2. c # d
        BY <4>1
      <4> QED BY <4>1, <4>2
    <3>4. ASSUME NEW d \in Children, Announce(d) PROVE FALSE
      BY <3>4 DEF Announce, NotFound
    <3>5. ASSUME UNCHANGED dispatch PROVE FALSE
      BY <3>5
    <3>6. ASSUME NEW a \in Admins,
                 \/ \E k \in Hooks : CreateWebhook(a, k) \/ GetWebhook(a, k, "update")
                                     \/ GetWebhook(a, k, "delete")
                 \/ UpdateWebhook(a, "on") \/ UpdateWebhook(a, "off") \/ DeleteWebhook(a)
                 \/ EditAnswered(a)
          PROVE  UNCHANGED dispatch
      BY <3>6 DEF CreateWebhook, GetWebhook, UpdateWebhook, DeleteWebhook, EditAnswered
    <3>7. ASSUME \/ UNCHANGED webhooks
                 \/ \E k \in Hooks : ListDeliveries(k)
                 \/ ListPage \/ RefreshOperations \/ RefreshHooks
          PROVE  UNCHANGED dispatch
      BY <3>7 DEF webhooks, ListDeliveries, ListPage, RefreshOperations, RefreshHooks
    <3> QED BY <3>1, <3>2, <3>3, <3>4, <3>5, <3>6, <3>7 DEF WebhooksNext
  <2>2. dispatch'[c].left = Dispatched
    BY <2>1 DEF FindWebhooks
  <2>3. hooks.snap[h] = hooks.live[h]
    BY DEF HooksInv, Unanswered
  <2>4. BankOf[h] \in {"ours", "other", "all"}
    OBVIOUS
  <2> QED BY <2>2, <2>3, <2>4 DEF Dispatched
<1> HIDE DEF Inv
<1> QED BY <1>1, <1>2, <1>3, PTL DEF WebhooksSpec, DispatchHearsAnswers

-----------------------------------------------------------------------------
(* The pages of a list of deliveries                                       *)

Deliveries == [child : Children, hook : Hooks, time : Times]

DeliveriesType == deliveries \in [live : SUBSET Deliveries, snap : SUBSET Deliveries]

\* what the worker of a child has delivered can be searched once it is through
DeliveriesInv ==
  /\ IsFiniteSet(deliveries.live) /\ deliveries.snap \subseteq deliveries.live
  /\ \A c \in outbox : /\ pc[c] \notin AtChild \union {"outbox"}
                       /\ DeliveriesOf(c) \subseteq deliveries.snap

Pages ==
  {NoPage} \union
  [on : {TRUE}, more : BOOLEAN, hook : Hooks, cursor : Nat,
   shown : SUBSET Deliveries, due : SUBSET Deliveries]

\* d is on a page, or as old as a delivery that is
ShownOrTied(d) == \E e \in page.shown : e.time = d.time

\* what is due can be searched, and has been shown down to the cursor
PageInv ==
  page.on =>
    /\ page.due \subseteq deliveries.snap /\ \A d \in page.due : d.hook = page.hook
    /\ page.cursor > 0 => \A d \in page.due : d.time >= page.cursor => ShownOrTied(d)
    /\ ~page.more => \A d \in page.due : ShownOrTied(d)

ListInv ==
  /\ TypeOK /\ dispatch \in [Children -> Finds] /\ DeliveriesType /\ DeliveriesInv
  /\ page \in Pages /\ PageInv

\* A set of numbers has a least one.
LEMMA LeastNumber ==
  ASSUME NEW S \in SUBSET Nat, S # {}
  PROVE  \E n \in S : \A m \in S : n <= m
<1> DEFINE R == {ss \in Nat \X Nat : ss[1] < ss[2]}
<1>1. IsWellFoundedOn(R, Nat)
  BY NatLessThanWellFounded DEF OpToRel
<1>2. PICK n \in S : \A m \in S : ~(<<m, n>> \in R)
  BY <1>1, WFMin
<1>3. \A m \in S : ~(m < n)
  BY <1>2
<1>4. S \subseteq Nat
  OBVIOUS
<1> QED BY <1>3, <1>4

\* The cursor that a page leaves is the time of its last delivery.
LEMMA OldestIs ==
  ASSUME NEW P \in SUBSET Deliveries, P # {}
  PROVE  /\ Oldest(P) \in Nat \ {0}
         /\ \A d \in P : Oldest(P) <= d.time
         /\ \E d \in P : Oldest(P) = d.time
<1>1. \A d \in P : d.time \in Times
  BY DEF Deliveries
<1>2. Times \subseteq Nat \ {0}
  BY WebhooksAssumption
<1> DEFINE T == {d.time : d \in P}
<1>3. T \in SUBSET Nat /\ T # {}
  BY <1>1, <1>2
<1>4. PICK t \in T : \A u \in T : t <= u
  BY <1>3, LeastNumber
<1>5. t \in Times /\ (\A d \in P : t <= d.time) /\ \E d \in P : t = d.time
  BY <1>1, <1>4
<1>6. Oldest(P) \in Times /\ (\A d \in P : Oldest(P) <= d.time) /\ \E d \in P : Oldest(P) = d.time
  BY <1>5 DEF Oldest
<1> QED BY <1>2, <1>6

\* A page is the newest of what there is below the cursor: what is left of it
\* is as old as the last of the page, or older, and nothing is left when there
\* is no row beyond the page.
LEMMA PageIs ==
  ASSUME NEW D \in SUBSET Deliveries, IsFiniteSet(D), NEW H \in Newest(Fetched, D),
         NEW P \in Newest(Limit, H)
  PROVE  /\ P \subseteq D
         /\ Cardinality(H) \in Nat
         /\ Cardinality(H) <= Limit => P = D
         /\ Cardinality(H) > Limit =>
              P # {} /\ \A d \in D : d.time > Oldest(P) => d \in P
<1>1. Limit \in Nat \ {0}
  BY WebhooksAssumption
<1>2. /\ H \subseteq D /\ Cardinality(H) <= Limit + 1 /\ (H = D \/ Cardinality(H) = Limit + 1)
      /\ \A d \in H, e \in D \ H : d.time >= e.time
  BY DEF Newest, Fetched
<1>3. /\ P \subseteq H /\ Cardinality(P) <= Limit /\ (P = H \/ Cardinality(P) = Limit)
      /\ \A d \in P, e \in H \ P : d.time >= e.time
  BY DEF Newest
<1>4. IsFiniteSet(H) /\ IsFiniteSet(P)
  BY <1>2, <1>3, FS_Subset
<1>5. Cardinality(H) \in Nat /\ Cardinality(P) \in Nat
  BY <1>4, FS_CardinalityType
<1>6. ASSUME Cardinality(H) <= Limit PROVE P = D
  <2>1. H = D
    BY <1>1, <1>2, <1>5, <1>6
  <2>2. CASE P # H
    <3>1. Cardinality(P) = Limit /\ Cardinality(P) <= Cardinality(H)
      BY <1>3, <1>4, <2>2, FS_Subset
    <3>2. Cardinality(P) = Cardinality(H)
      BY <1>1, <1>5, <1>6, <3>1
    <3> QED BY <1>3, <1>4, <2>2, <3>2, FS_Subset
  <2> QED BY <2>1, <2>2
<1>7. ASSUME Cardinality(H) > Limit
      PROVE  P # {} /\ \A d \in D : d.time > Oldest(P) => d \in P
  <2>1. P # {}
    <3> SUFFICES ASSUME P = {} PROVE FALSE
      OBVIOUS
    <3>1. Cardinality(P) = 0
      BY FS_EmptySet
    <3> QED BY <1>1, <1>3, <1>5, <1>7, <3>1
  <2>2. ASSUME NEW d \in D, d.time > Oldest(P), d \notin P PROVE FALSE
    <3>1. PICK e \in P : Oldest(P) = e.time
      BY <1>2, <1>3, <2>1, OldestIs
    <3>2. e.time >= d.time
      BY <1>2, <1>3, <2>2
    <3>3. d.time \in Nat /\ e.time \in Nat
      <4>1. d.time \in Times /\ e.time \in Times
        BY <1>2, <1>3 DEF Deliveries
      <4> QED BY <4>1, WebhooksAssumption
    <3> QED BY <2>2, <3>1, <3>2, <3>3
  <2> QED BY <2>1, <2>2
<1> QED BY <1>2, <1>3, <1>5, <1>6, <1>7

\* A page goes on where the last one ended.
LEMMA ListPageInv ==
  ASSUME ListInv, ListPage
  PROVE  page' \in Pages /\ PageInv'
<1> USE DEF ListInv, DeliveriesType, DeliveriesInv
<1>1. page.on /\ page.more /\ UNCHANGED deliveries
  BY DEF ListPage
<1>2. page \in [on : {TRUE}, more : BOOLEAN, hook : Hooks, cursor : Nat,
                shown : SUBSET Deliveries, due : SUBSET Deliveries]
  <2>1. NoPage.on = FALSE
    BY DEF NoPage
  <2>2. page # NoPage
    BY <1>1, <2>1, Zenon
  <2> QED BY <2>2 DEF Pages
<1> DEFINE D == {d \in deliveries.snap : d.hook = page.hook /\ (page.cursor > 0 => d.time < page.cursor)}
<1>3. D \in SUBSET Deliveries /\ IsFiniteSet(D)
  <2>1. D \in SUBSET deliveries.live /\ deliveries.snap \in SUBSET Deliveries
    OBVIOUS
  <2> QED BY <2>1, FS_Subset
<1>4. PICK H \in Newest(Fetched, D) : \E P \in Newest(Limit, H) :
        page' = [page EXCEPT !.shown = @ \union P, !.more = Cardinality(H) > Limit,
                             !.cursor = IF Cardinality(H) > Limit THEN Oldest(P) ELSE 0]
  BY DEF ListPage
<1>5. PICK P \in Newest(Limit, H) :
        page' = [page EXCEPT !.shown = @ \union P, !.more = Cardinality(H) > Limit,
                             !.cursor = IF Cardinality(H) > Limit THEN Oldest(P) ELSE 0]
  BY <1>4
<1>6. /\ P \subseteq D /\ Cardinality(H) \in Nat
      /\ Cardinality(H) <= Limit => P = D
      /\ Cardinality(H) > Limit => P # {} /\ \A d \in D : d.time > Oldest(P) => d \in P
  BY <1>3, PageIs
<1>7. \A d \in page.due : d \in D \/ ShownOrTied(d)
  <2> SUFFICES ASSUME NEW d \in page.due, d \notin D PROVE ShownOrTied(d)
    OBVIOUS
  <2>1. d \in deliveries.snap /\ d.hook = page.hook
    BY <1>1 DEF PageInv
  <2>2. page.cursor > 0 /\ ~(d.time < page.cursor)
    BY <2>1
  <2>3. d.time \in Nat /\ page.cursor \in Nat
    <3>1. d.time \in Times
      BY <1>2 DEF Deliveries
    <3> QED BY <1>2, <3>1, WebhooksAssumption
  <2>4. d.time >= page.cursor
    BY <2>2, <2>3
  <2> QED BY <1>1, <2>2, <2>4 DEF PageInv
<1> HIDE DEF D
<1>8. page.shown \subseteq page'.shown /\ P \subseteq page'.shown /\ page'.due = page.due
      /\ page'.hook = page.hook
  BY <1>2, <1>5
<1>9. \A d \in page.due : ShownOrTied(d) => ShownOrTied(d)'
  BY <1>8 DEF ShownOrTied
<1>10. Limit \in Nat /\ (Cardinality(H) <= Limit \/ Cardinality(H) > Limit)
  BY <1>6, WebhooksAssumption
<1>11. \A d \in page.due : d \in Deliveries
  BY <1>2
<1>12. CASE Cardinality(H) > Limit
  <2>1. page' = [page EXCEPT !.shown = @ \union P, !.more = TRUE, !.cursor = Oldest(P)]
    BY <1>5, <1>12
  <2>2. Oldest(P) \in Nat \ {0} /\ \E d \in P : Oldest(P) = d.time
    BY <1>3, <1>6, <1>12, OldestIs
  <2>3. page' \in Pages
    BY <1>2, <1>3, <1>6, <2>1, <2>2 DEF Pages
  <2>4. page'.more /\ page'.cursor = Oldest(P)
    BY <1>2, <2>1
  <2>5. ASSUME NEW d \in page.due, d.time >= Oldest(P) PROVE ShownOrTied(d)'
    <3>1. CASE ShownOrTied(d)
      BY <1>9, <3>1
    <3>2. CASE d \in D /\ d.time > Oldest(P)
      BY <1>6, <1>8, <1>12, <3>2 DEF ShownOrTied
    <3>3. CASE d.time = Oldest(P)
      BY <1>8, <2>2, <3>3 DEF ShownOrTied
    <3>4. d.time \in Nat
      <4>1. d.time \in Times
        BY <1>11 DEF Deliveries
      <4> QED BY <4>1, WebhooksAssumption
    <3> QED BY <1>7, <2>2, <2>5, <3>1, <3>2, <3>3, <3>4
  <2> QED BY <1>1, <1>8, <2>3, <2>4, <2>5 DEF PageInv
<1>13. CASE Cardinality(H) <= Limit
  <2>1. ~(Cardinality(H) > Limit)
    BY <1>6, <1>10, <1>13
  <2>a. (Cardinality(H) > Limit) = FALSE
    BY <2>1
  <2>2. page' = [page EXCEPT !.shown = @ \union P, !.more = FALSE, !.cursor = 0]
    BY <1>5, <2>a, Zenon
  <2>3. page' \in Pages
    BY <1>2, <1>3, <1>6, <2>2 DEF Pages
  <2>4. \A d \in page.due : ShownOrTied(d)'
    BY <1>6, <1>7, <1>8, <1>9, <1>13 DEF ShownOrTied
  <2>5. page'.cursor = 0
    BY <1>2, <2>2
  <2> QED BY <1>1, <1>8, <2>3, <2>4, <2>5 DEF PageInv
<1> QED BY <1>10, <1>12, <1>13

\* A list that begins has nothing due that cannot be searched yet.
LEMMA ListBegins ==
  ASSUME ListInv, NEW h \in Hooks, ListDeliveries(h)
  PROVE  page' \in Pages /\ PageInv'
<1> DEFINE due == {d \in deliveries.live : d.hook = h /\ d.child \in outbox}
<1>1. page' = [on |-> TRUE, more |-> TRUE, hook |-> h, cursor |-> 0, shown |-> {}, due |-> due]
      /\ UNCHANGED deliveries
  BY DEF ListDeliveries
<1>2. due \subseteq Deliveries
  BY DEF ListInv, DeliveriesType
<1>3. due \subseteq deliveries.snap /\ \A d \in due : d.hook = h
  BY DEF ListInv, DeliveriesInv, DeliveriesOf
<1> HIDE DEF due
<1>4. page' \in Pages
  BY <1>1, <1>2 DEF Pages
<1>5. /\ page'.due = due /\ page'.hook = h /\ page'.cursor = 0
  BY <1>1
<1>6. page'.more = TRUE
  BY <1>1
<1> QED BY <1>1, <1>3, <1>4, <1>5, <1>6 DEF PageInv

\* The other steps leave the pages to a search that only grows.
LEMMA PageKept ==
  ASSUME PageInv, UNCHANGED page, deliveries.snap \subseteq deliveries'.snap
  PROVE  PageInv'
BY DEF PageInv, ShownOrTied

\* Once a child is announced its worker delivers no more for it.
LEMMA OutboxMoves ==
  ASSUME TypeOK, [Next]_vars, DeliveriesInv, NEW c \in outbox'
  PROVE  /\ pc'[c] \notin AtChild \union {"outbox"}
         /\ c \in outbox \/ InsertOutbox(c)
<1> USE DEF Phases, AtChild, Waits
<1>0. /\ outbox \subseteq Children
      /\ pc \in [Children -> Phases]
  BY DEF TypeOK
<1>1. (\E d \in Children : outbox' = outbox \union {d} /\ InsertOutbox(d)) \/ UNCHANGED outbox
  BY DEF Next, WorkerStep, OthersStep, vars, MarkChild, MarkAnswered, InsertOutbox, ReadParent,
     FindChildren, ReadMetadata, UpdateParent, Crash, ReadProgress, WriteProgress, CancelParent,
     DeleteOperation, Refresh
<1>2. c \in outbox \/ InsertOutbox(c)
  BY <1>1
<1>3. c \in Children
  BY <1>0, <1>1
<1>4. CASE InsertOutbox(c)
  BY <1>0, <1>2, <1>3, <1>4 DEF InsertOutbox, Goto
<1>5. CASE c \in outbox
  <2>1. pc[c] \notin AtChild \union {"outbox"}
    BY <1>5 DEF DeliveriesInv
  <2> QED
    BY <1>0, <1>2, <1>3, <2>1, StillOrMoves
    DEF Still, Moves, MarkChild, MarkAnswered, InsertOutbox, ReadParent, FindChildren,
        ReadMetadata, UpdateParent, Crash, Goto
<1> QED BY <1>2, <1>4, <1>5

LEMMA ListInvStep == ListInv /\ [WebhooksNext]_everything => ListInv'
<1> SUFFICES ASSUME ListInv, [WebhooksNext]_everything PROVE ListInv'
  OBVIOUS
<1>0. TypeOK' /\ dispatch' \in [Children -> Finds] /\ [Next]_vars
  BY WebhooksStep, OperationsTypeStep, DispatchTypeStep DEF ListInv
<1>a. deliveries \in [live : SUBSET Deliveries, snap : SUBSET Deliveries]
      /\ IsFiniteSet(deliveries.live) /\ deliveries.snap \subseteq deliveries.live
  BY DEF ListInv, DeliveriesType, DeliveriesInv
<1>b. outbox \subseteq Children
  BY DEF ListInv, TypeOK
\* a step that leaves the deliveries alone, or makes them searchable
<1>1. ASSUME UNCHANGED page, UNCHANGED deliveries,
             \A c \in outbox' \ outbox : DeliveriesOf(c) \subseteq deliveries.snap
      PROVE  ListInv'
  <2>1. DeliveriesInv'
    <3>1. \A c \in outbox' : /\ pc'[c] \notin AtChild \union {"outbox"}
                             /\ DeliveriesOf(c)' \subseteq deliveries'.snap
      <4> SUFFICES ASSUME NEW c \in outbox'
                   PROVE  /\ pc'[c] \notin AtChild \union {"outbox"}
                          /\ DeliveriesOf(c)' \subseteq deliveries'.snap
        OBVIOUS
      <4>1. pc'[c] \notin AtChild \union {"outbox"}
        BY <1>0, OutboxMoves DEF ListInv
      <4>2. DeliveriesOf(c) \subseteq deliveries.snap
        BY <1>1 DEF ListInv, DeliveriesInv
      <4> QED BY <1>1, <4>1, <4>2 DEF DeliveriesOf
    <3> QED BY <1>a, <1>1, <3>1 DEF DeliveriesInv
  <2>2. PageInv'
    BY <1>1, PageKept DEF ListInv
  <2> QED BY <1>0, <1>a, <1>1, <2>1, <2>2 DEF ListInv, DeliveriesType
<1>2. CASE RefreshOperations
  <2>1. /\ deliveries' = [deliveries EXCEPT !.snap = deliveries.live]
        /\ UNCHANGED page /\ UNCHANGED <<outbox, pc>>
    BY <1>2 DEF RefreshOperations, Refresh, listing, vars
  <2>2. /\ deliveries'.snap = deliveries.live /\ deliveries'.live = deliveries.live
        /\ deliveries' \in [live : SUBSET Deliveries, snap : SUBSET Deliveries]
    BY <1>a, <2>1
  <2>3. DeliveriesInv'
    BY <1>a, <2>1, <2>2 DEF ListInv, DeliveriesInv, DeliveriesOf
  <2>4. PageInv'
    BY <1>a, <2>1, <2>2, PageKept DEF ListInv
  <2> QED BY <1>0, <2>1, <2>2, <2>3, <2>4 DEF ListInv, DeliveriesType
<1>3. ASSUME NEW c \in Children, NEW h \in Hooks, InsertDelivery(c, h) PROVE ListInv'
  <2> DEFINE d == [child |-> c, hook |-> h, time |-> dispatch[c].time]
  <2>1. /\ pc[c] = "outbox" /\ dispatch[c].found /\ UNCHANGED page /\ UNCHANGED <<outbox, pc>>
        /\ deliveries' = [deliveries EXCEPT !.live = @ \union {d}]
    BY <1>3 DEF InsertDelivery, vars, listing
  <2>2. dispatch[c].time \in Times
    <3>1. NotFound.found = FALSE
      BY DEF NotFound
    <3>2. dispatch[c] # NotFound
      BY <2>1, <3>1, Zenon
    <3> QED BY <3>2 DEF ListInv, Finds
  <2>3. d \in Deliveries
    BY <2>2 DEF Deliveries
  <2>4. /\ deliveries'.live = deliveries.live \union {d} /\ deliveries'.snap = deliveries.snap
        /\ deliveries' \in [live : SUBSET Deliveries, snap : SUBSET Deliveries]
    BY <1>a, <2>1, <2>3
  <2>5. d.child = c
    OBVIOUS
  <2> HIDE DEF d
  <2>6. IsFiniteSet(deliveries'.live)
    BY <1>a, <2>4, FS_AddElement
  <2>7. c \notin outbox
    BY <2>1 DEF ListInv, DeliveriesInv
  <2>8. DeliveriesInv'
    BY <1>a, <2>1, <2>4, <2>5, <2>6, <2>7 DEF ListInv, DeliveriesInv, DeliveriesOf
  <2>9. PageInv'
    BY <2>1, <2>4, PageKept DEF ListInv
  <2> QED BY <1>0, <2>1, <2>4, <2>8, <2>9 DEF ListInv, DeliveriesType
<1>4. ASSUME page' \in Pages, PageInv', UNCHANGED <<vars, deliveries>> PROVE ListInv'
  <2>1. UNCHANGED <<outbox, pc>>
    BY <1>4 DEF vars
  <2>2. DeliveriesInv'
    BY <1>4, <2>1 DEF ListInv, DeliveriesInv, DeliveriesOf
  <2> QED BY <1>0, <1>4, <2>2 DEF ListInv, DeliveriesType
<1>5. ASSUME NEW h \in Hooks, ListDeliveries(h) PROVE ListInv'
  BY <1>4, <1>5, ListBegins DEF ListDeliveries
<1>6. CASE ListPage
  BY <1>4, <1>6, ListPageInv DEF ListPage
<1>7. ASSUME NEW c \in Children, Announce(c) PROVE ListInv'
  <2>1. outbox' = outbox \union {c} /\ DeliveriesOf(c) \subseteq deliveries.snap
        /\ UNCHANGED page /\ UNCHANGED deliveries
    BY <1>7 DEF Announce, InsertOutbox, listing
  <2> QED BY <1>1, <2>1
<1>8. ASSUME NEW c \in Children, Worker(c) \/ FindWebhooks(c) PROVE ListInv'
  <2>1. UNCHANGED outbox
    BY <1>8 DEF Worker, WorkerStep, FindWebhooks, vars, MarkChild, MarkAnswered, ReadParent,
       FindChildren, ReadMetadata, UpdateParent, Crash
  <2>2. UNCHANGED page /\ UNCHANGED deliveries
    BY <1>8 DEF Worker, FindWebhooks, listing
  <2> QED BY <1>1, <2>1, <2>2
<1>9. CASE OthersStep /\ UNCHANGED webhooks
  <2>1. UNCHANGED outbox
    BY <1>9 DEF OthersStep, ReadProgress, WriteProgress, CancelParent, DeleteOperation
  <2>2. UNCHANGED page /\ UNCHANGED deliveries
    BY <1>9 DEF webhooks, listing
  <2> QED BY <1>1, <2>1, <2>2
<1>10. ASSUME NEW a \in Admins,
             \/ \E h \in Hooks : CreateWebhook(a, h) \/ GetWebhook(a, h, "update")
                                 \/ GetWebhook(a, h, "delete")
             \/ UpdateWebhook(a, "on") \/ UpdateWebhook(a, "off") \/ DeleteWebhook(a)
             \/ EditAnswered(a)
      PROVE  ListInv'
  <2>1. UNCHANGED outbox /\ UNCHANGED page /\ UNCHANGED deliveries
    BY <1>10 DEF CreateWebhook, GetWebhook, UpdateWebhook, DeleteWebhook, EditAnswered, vars, listing
  <2> QED BY <1>1, <2>1
<1>11. CASE RefreshHooks \/ UNCHANGED everything
  <2>1. UNCHANGED outbox /\ UNCHANGED page /\ UNCHANGED deliveries
    BY <1>11 DEF RefreshHooks, everything, webhooks, vars, listing
  <2> QED BY <1>1, <2>1
<1> QED
  BY <1>2, <1>3, <1>5, <1>6, <1>7, <1>8, <1>9, <1>10, <1>11 DEF WebhooksNext

\* The pages of a list show every delivery that was answered before it began,
\* but for those as old to the tick as one that they show.
THEOREM WebhooksListsMissOnlyTies == WebhooksSpec => []ListsMissOnlyTies
<1> USE OperationsAssumption, WebhooksAssumption
<1>1. WebhooksInit => ListInv
  <2> SUFFICES ASSUME WebhooksInit PROVE ListInv
    OBVIOUS
  <2>1. TypeOK
    BY DEF WebhooksInit, Init, TypeOK, Phases, Started, Copies, Docs, Ids, Statuses, Metadata, NoMetadata
  <2>2. /\ deliveries = [live |-> {}, snap |-> {}] /\ outbox = {} /\ page = NoPage
        /\ dispatch \in [Children -> Finds]
    BY DEF WebhooksInit, Init, Finds
  <2>3. DeliveriesInv /\ DeliveriesType
    BY <2>2, FS_EmptySet DEF DeliveriesInv, DeliveriesType
  <2>4. page \in Pages /\ PageInv
    BY <2>2 DEF Pages, PageInv, NoPage
  <2> QED BY <2>1, <2>2, <2>3, <2>4 DEF ListInv
<1>2. ListInv => ListsMissOnlyTies
  BY DEF ListInv, PageInv, ListsMissOnlyTies, ShownOrTied
<1> QED BY <1>1, <1>2, ListInvStep, PTL DEF WebhooksSpec
=============================================================================
