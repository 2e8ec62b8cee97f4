------------------------------ MODULE Operations ------------------------------
(***************************************************************************)
(* The end of an operation, as elasticsearch_engine_ops offers it to the   *)
(* workers: a child is marked completed, its webhook goes to the outbox,   *)
(* and then its worker decides the parent from the siblings, with a read,  *)
(* a search and a conditional update, and begins again when the update is  *)
(* refused, a bounded number of times.  Meanwhile others write the         *)
(* progress of the parent, or cancel or delete it.  A worker is cut at     *)
(* every request.                                                          *)
(***************************************************************************)
EXTENDS Elastic

CONSTANTS
  Children,
  Parent,
  Writers,      \* the writers of progress; each layers a key of its own
  Outcome,      \* the key that a decision layers over the progress
  MaxTries,     \* external: how often the loop of the engine decides before it gives up
  MaxProgress,  \* bound: how often each writer reports
  Meddling,     \* bound: may the parent be cancelled or deleted?
  MaxFaults     \* bound: workers that die

Ids == Children \union {Parent}
Statuses == {"processing", "completed", "failed", "cancelled"}

\* result_metadata: how far the value of each key has come, 0 if there is none
Keys == Writers \union {Outcome}
Metadata == [Keys -> Nat]
NoMetadata == [key \in Keys |-> 0]

Docs == [status : Statuses, meta : Metadata]

ASSUME OperationsAssumption ==
  /\ Parent \notin Children /\ Children # {}
  /\ Outcome \notin Writers /\ Children \intersect Writers = {}
  /\ Missing \notin Docs
  /\ MaxTries \in Nat \ {0}
  /\ MaxFaults \in Nat /\ MaxProgress \in [Writers -> Nat] /\ Meddling \in BOOLEAN

VARIABLES
  live,       \* async_operations as GET and writes see it; meta is result_metadata
  snap,       \* ... as _search sees it; only children are searched
  outbox,     \* the children whose webhook_delivery task is inserted
  pc,         \* where the worker of each child is
  handle,     \* the sequence number of the parent it has read
  verdict,    \* what it has decided
  tries,      \* how many of its updates were refused
  known,      \* the metadata of the parent that a worker or a writer has read
  step,       \* where each writer is
  progress,   \* how often it has reported
  faults

vars == <<live, snap, outbox, pc, handle, verdict, tries, known, step, progress, faults>>
index == <<live, snap>>
decision == <<handle, verdict, tries>>
reports == <<step, progress>>

Started == [seq |-> 1, doc |-> [status |-> "processing", meta |-> NoMetadata]]

Init ==
  /\ live = [i \in Ids |-> Started]
  /\ snap = [c \in Children |-> live[c]]
  /\ outbox = {}
  /\ pc = [c \in Children |-> "run"]
  /\ handle = [c \in Children |-> 0]
  /\ verdict = [c \in Children |-> "processing"]
  /\ tries = [c \in Children |-> 0]
  /\ known = [p \in Children \union Writers |-> NoMetadata]
  /\ step = [w \in Writers |-> "read"]
  /\ progress = [w \in Writers |-> 0]
  /\ faults = 0

Goto(c, phase) == pc' = [pc EXCEPT ![c] = phase]

\* what a worker has in hand ends with its call
Forget(c) ==
  /\ handle' = [handle EXCEPT ![c] = 0]
  /\ verdict' = [verdict EXCEPT ![c] = "processing"]
  /\ known' = [known EXCEPT ![c] = NoMetadata]

HasStatus(i, status) == Exists(live, i) /\ live[i].doc.status = status

WithStatus(i, status) == Put(live, i, [live[i].doc EXCEPT !.status = status])

Final == Statuses \ {"processing"}

-----------------------------------------------------------------------------
(* The child *)

\* mark_operation_completed (or the status write of the error path, which is
\* outside); no such row is the signal to skip the rest
MarkChild(c, status) ==
  /\ pc[c] = "run"
  /\ IF Exists(live, c)
       THEN /\ live' = WithStatus(c, status)
            /\ Goto(c, IF status = "completed" THEN "wait" ELSE "waitFailed")
       ELSE Goto(c, "done") /\ UNCHANGED live
  /\ UNCHANGED <<snap, outbox, decision, known, reports, faults>>

\* mutant: refresh=False
AtOnce(c) == TRUE

\* refresh=wait_for: the mark is the next write of the row after its insert
IsRefreshed(c) == Searchable(snap, c, Started.seq + 1)

\* only mark_operation_completed is followed by the webhooks; a child that is
\* deleted by now makes no difference
MarkAnswered(c) ==
  /\ IsRefreshed(c)
  /\ \/ pc[c] = "wait" /\ Goto(c, "outbox")
     \/ pc[c] = "waitFailed" /\ Goto(c, "read")
  /\ UNCHANGED <<index, outbox, decision, known, reports, faults>>

\* insert_webhook_delivery_task
InsertOutbox(c) ==
  /\ pc[c] = "outbox"
  /\ outbox' = outbox \union {c}
  /\ Goto(c, "read")
  /\ UNCHANGED <<index, decision, known, reports, faults>>

-----------------------------------------------------------------------------
(* The parent *)

\* get_operation_fields(with_concurrency=True); a parent that is gone or
\* decided ends the worker's part
ReadParent(c) ==
  /\ pc[c] = "read"
  /\ IF HasStatus(Parent, "processing")
       THEN /\ handle' = [handle EXCEPT ![c] = live[Parent].seq]
            /\ Goto(c, "siblings")
       ELSE Goto(c, "done") /\ UNCHANGED handle
  /\ UNCHANGED <<index, outbox, verdict, tries, known, reports, faults>>

\* the children that find_child_operations returns
Siblings == {c \in Children : Exists(snap, c)}

\* mutant: one that has finished is enough
AnyFinal == \E c \in Siblings : snap[c].doc.status \in Final

AllFinal == \A c \in Siblings : snap[c].doc.status \in Final

\* external: the decision of the engine
Decide == IF \E c \in Siblings : snap[c].doc.status = "failed" THEN "failed" ELSE "completed"

FindChildren(c) ==
  /\ pc[c] = "siblings"
  /\ IF AllFinal
       THEN verdict' = [verdict EXCEPT ![c] = Decide] /\ Goto(c, "meta") /\ UNCHANGED <<handle, known>>
       ELSE Forget(c) /\ Goto(c, "done")
  /\ UNCHANGED <<index, outbox, tries, reports, faults>>

ParentMeta == IF Exists(live, Parent) THEN live[Parent].doc.meta ELSE NoMetadata

\* mutant: the new object takes the place of the old one
Replaced(meta, patch) == patch

\* external: an update with an object in its doc changes the keys that the
\* object has, and leaves the others as they are
Merged(meta, patch) == [key \in Keys |-> IF patch[key] > 0 THEN patch[key] ELSE meta[key]]

WriteMeta(status, patch) ==
  live' = Put(live, Parent, [status |-> status, meta |-> Merged(live[Parent].doc.meta, patch)])

\* update_operation_conditional: it reads the metadata it merges into ...
ReadMetadata(c) ==
  /\ pc[c] = "meta"
  /\ known' = [known EXCEPT ![c] = ParentMeta]
  /\ Goto(c, "update")
  /\ UNCHANGED <<index, outbox, decision, reports, faults>>

\* mutant: without if_seq_no
IsThere(c) == Exists(live, Parent)

MayUpdate(c) == Unchanged(live, [id |-> Parent, seq |-> handle[c]])

\* external: the loop around the calls is "bounded"
Again(c) == tries[c] + 1 < MaxTries

\* ... and updates, if nobody wrote the parent since it was read.  A refusal
\* (409, or 404) sends the worker back to read it again, or it gives up.
UpdateParent(c) ==
  /\ pc[c] = "update"
  /\ IF MayUpdate(c)
       THEN /\ WriteMeta(verdict[c], [known[c] EXCEPT ![Outcome] = @ + 1])
            /\ Goto(c, "done")
            /\ UNCHANGED tries
       ELSE /\ tries' = [tries EXCEPT ![c] = @ + 1]
            /\ Goto(c, IF Again(c) THEN "read" ELSE "beaten")
            /\ UNCHANGED live
  /\ Forget(c)
  /\ UNCHANGED <<snap, outbox, reports, faults>>

\* the worker dies; its task is not pending, so nobody claims it again
Crash(c) ==
  /\ pc[c] \notin {"done", "beaten"} /\ faults < MaxFaults
  /\ faults' = faults + 1
  /\ Forget(c) /\ Goto(c, "done")
  /\ UNCHANGED <<index, outbox, tries, reports>>

-----------------------------------------------------------------------------
(* The others *)

\* set_operation_result_metadata(merge=True): a read ...
ReadProgress(w) ==
  /\ step[w] = "read" /\ progress[w] < MaxProgress[w]
  /\ Exists(live, Parent)                  \* else it returns False
  /\ known' = [known EXCEPT ![w] = ParentMeta]
  /\ step' = [step EXCEPT ![w] = "write"]
  /\ UNCHANGED <<index, outbox, pc, decision, progress, faults>>

\* ... and an unconditional write of all that was read, with the new value
WriteProgress(w) ==
  /\ step[w] = "write"
  /\ IF Exists(live, Parent)
       THEN WriteMeta(live[Parent].doc.status, [known[w] EXCEPT ![w] = progress[w] + 1])
       ELSE UNCHANGED live
  /\ progress' = [progress EXCEPT ![w] = @ + 1]
  /\ step' = [step EXCEPT ![w] = "read"]
  /\ known' = [known EXCEPT ![w] = NoMetadata]
  /\ UNCHANGED <<snap, outbox, pc, decision, faults>>

\* external: the user cancels the parent
CancelParent ==
  /\ Meddling /\ HasStatus(Parent, "processing")
  /\ live' = WithStatus(Parent, "cancelled")
  /\ UNCHANGED <<snap, outbox, pc, decision, known, reports, faults>>

\* delete_operation, of the parent or of a child
DeleteOperation(i) ==
  /\ Meddling /\ Exists(live, i)
  /\ live' = Put(live, i, Missing)
  /\ UNCHANGED <<snap, outbox, pc, decision, known, reports, faults>>

\* external: Elasticsearch refreshes the index
Refresh ==
  /\ snap' = [c \in Children |-> live[c]]
  /\ snap' # snap
  /\ UNCHANGED <<live, outbox, pc, decision, known, reports, faults>>

-----------------------------------------------------------------------------
WorkerStep(c) ==
  \/ MarkChild(c, "completed") \/ MarkChild(c, "failed") \/ MarkAnswered(c)
  \/ ReadParent(c) \/ FindChildren(c) \/ ReadMetadata(c) \/ UpdateParent(c)
  \/ Crash(c)

OthersStep ==
  \/ \E w \in Writers : ReadProgress(w) \/ WriteProgress(w)
  \/ CancelParent
  \/ \E i \in Ids : DeleteOperation(i)

Next ==
  \/ \E c \in Children : WorkerStep(c) \/ InsertOutbox(c)
  \/ OthersStep
  \/ Refresh

Spec == Init /\ [][Next]_vars

-----------------------------------------------------------------------------
Phases == {"run", "wait", "waitFailed", "outbox", "read", "siblings", "meta", "update", "done", "beaten"}

\* The type invariant.
TypeOK ==
  /\ live \in [Ids -> Copies(Docs)]
  /\ snap \in [Children -> Copies(Docs)]
  /\ outbox \subseteq Children
  /\ pc \in [Children -> Phases]
  /\ handle \in [Children -> Nat]
  /\ verdict \in [Children -> Statuses]
  /\ tries \in [Children -> Nat]
  /\ known \in [Children \union Writers -> Metadata]
  /\ step \in [Writers -> {"read", "write"}]
  /\ progress \in [Writers -> Nat]
  /\ faults \in Nat

Decided == Exists(live, Parent) /\ live[Parent].doc.status \in {"completed", "failed"}

\* A parent is decided only when every child that still exists has finished,
\* and it has failed when one of them has: the decision may be made from an
\* old copy of the siblings, and is still right.
VerdictIsRight ==
  Decided =>
    /\ \A c \in Children : ~HasStatus(c, "processing")
    /\ (\E c \in Children : HasStatus(c, "failed")) => HasStatus(Parent, "failed")

\* What is decided or cancelled stays so: "the FOR UPDATE replacement" keeps a
\* worker from deciding a parent that was cancelled, or decided, under it.
VerdictIsFinal ==
  [][Exists(live, Parent) /\ live[Parent].doc.status \in Final /\ Exists(live', Parent)
       => live'[Parent].doc.status = live[Parent].doc.status]_vars

\* others have written the parent as often as a worker may try
Rewritten == live[Parent].seq >= Started.seq + MaxTries

\* When every worker is through, the parent is decided: the last child to
\* finish sees all of them, and its refused updates are made again.  A parent is
\* only left undecided by a worker that lost each of its tries to another write
\* of the parent, none of which decided it.  (Or by one that died, or whose child
\* was deleted before it could decide.)
LastOneDecides ==
  /\ \A c \in Children : pc[c] \in {"done", "beaten"} /\ Exists(live, c)
  /\ faults = 0 /\ HasStatus(Parent, "processing")
  => Rewritten /\ \E c \in Children : pc[c] = "beaten"

\* "the jsonb || behaviour": no key of the metadata is lost, and its value only
\* goes back if a writer of progress writes what it had read of another's key.
\* A decision never takes progress back: it is refused if that was written since.
MergeKeepsRead ==
  [][\A key \in Keys : Exists(live', Parent) /\ ParentMeta'[key] < ParentMeta[key] =>
       \E w \in Writers \ {key} :
         /\ step[w] = "write" /\ step'[w] = "read"
         /\ ParentMeta'[key] = known[w][key] /\ known[w][key] > 0]_vars

\* "the at-least-once guarantee": a child that is completed has its webhook in
\* the outbox, or a worker that will put it there.
CompletedIsAnnounced ==
  \A c \in Children : HasStatus(c, "completed") =>
    c \in outbox \/ pc[c] \in {"wait", "outbox"}
-----------------------------------------------------------------------------
(* The abstract operation, as GET sees the rows. *)

StatusOf(i) == IF Exists(live, i) THEN live[i].doc.status ELSE "gone"

J == INSTANCE Join WITH child <- [c \in Children |-> StatusOf(c)], parent <- StatusOf(Parent)

\* The read, the search, the second read and the update of a worker are one
\* decision, at the update.
IsJoin == J!Spec
=============================================================================
