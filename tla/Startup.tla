-------------------------------- MODULE Startup --------------------------------
(***************************************************************************)
(* API processes that start, serve and stop, over the indexes that their   *)
(* migrations create.  A process runs the migrations in a thread of its    *)
(* own (run_migrations), then again as a part of initialize, and is up     *)
(* when that has returned.  Version 1 is the baseline, which creates every *)
(* index that does not exist; version 2 is a breaking change, which moves  *)
(* one index with reindex_to.  The processes that are up write meanwhile.  *)
(***************************************************************************)
EXTENDS Migrations

CONSTANTS
  Tables,
  Moved,       \* the table that version 2 moves to a new index
  Docs         \* bound: the documents written to it, each once

ASSUME StartupAssumption == Moved \in Tables /\ Last = 2

VARIABLES
  stage,     \* where each process is in its life
  index,     \* the tables under whose name there is an index
  docs,      \* what is in the one of Moved
  copy,      \* the new index of version 2: [made, docs, alias]
  todo,      \* the tables that a starter has yet to look at, in version 1
  redo,      \* where it is in reindex_to, in version 2
  written,   \* history: the documents whose write has returned
  late       \* history: ... and came between the copy and the delete

life == <<stage>>
store == <<index, docs, copy>>
version == <<todo, redo>>
history == <<written, late>>
startupVars == <<vars, stage, index, docs, copy, todo, redo, written, late>>

Stages == {"down", "thread", "migrated", "init", "half", "up"}

StartupInit ==
  /\ Init
  /\ stage = [s \in Starters |-> "down"]
  /\ index = {}
  /\ docs = {}
  /\ copy = [made |-> FALSE, docs |-> {}, alias |-> FALSE]
  /\ todo = [s \in Starters |-> Tables]
  /\ redo = [s \in Starters |-> "create"]
  /\ written = {} /\ late = {}

Enter(s, next_stage) == stage' = [stage EXCEPT ![s] = next_stage]

-----------------------------------------------------------------------------
(* A process *)

\* the engine migrates first, in a thread with a client of its own
RunMigrations(s) ==
  /\ stage[s] = "down"
  /\ Start(s)
  /\ Enter(s, "thread")
  /\ UNCHANGED <<store, version, history>>

\* thread.join: what the thread raised is raised again
ThreadJoined(s) ==
  /\ stage[s] = "thread" /\ pc[s] \in {"ready", "raised"}
  /\ Enter(s, IF pc[s] = "ready" THEN "migrated" ELSE "down")
  /\ UNCHANGED <<vars, store, version, history>>

\* ... then initializes the backend; standalone users begin here.  A backend
\* that failed to initialize may be initialized again.
Initialize(s) ==
  /\ stage[s] \in {"down", "migrated", "half"}
  /\ Start(s)
  /\ Enter(s, "init")
  /\ UNCHANGED <<store, version, history>>

\* mutant: initialize does not wait for the migrations
GoUpAnyway(s) ==
  /\ stage[s] = "init" /\ pc[s] # "off"
  /\ Enter(s, "up")
  /\ UNCHANGED <<vars, store, version, history>>

Initialized(s) ==
  /\ stage[s] = "init" /\ pc[s] \in {"ready", "raised"}
  /\ Enter(s, IF pc[s] = "ready" THEN "up" ELSE "half")
  /\ UNCHANGED <<vars, store, version, history>>

Shutdown(s) ==
  /\ stage[s] \in {"up", "half"}
  /\ Enter(s, "down")
  /\ UNCHANGED <<vars, store, version, history>>

\* the next step that s applies begins at its beginning
Restart(s) ==
  /\ todo' = [todo EXCEPT ![s] = Tables]
  /\ redo' = [redo EXCEPT ![s] = "create"]

Die(s) ==
  /\ Crash(s)
  /\ Enter(s, "down")
  /\ Restart(s)
  /\ UNCHANGED <<store, history>>

\* acquire: a process that is up has a client.  A document goes to the index
\* that the name of its table stands for.
NamesCopy(t) == t = Moved /\ t \notin index /\ copy.alias

\* a reindex that has read the old index has yet to delete it
CopyIsTaken == Moved \in index /\ \E s \in Starters : redo[s] = "delete"

Write(s, d) ==
  /\ stage[s] = "up" /\ d \notin written
  /\ written' = written \union {d}
  /\ late' = IF CopyIsTaken THEN late \union {d} ELSE late
  /\ IF NamesCopy(Moved)
       THEN copy' = [copy EXCEPT !.docs = @ \union {d}] /\ UNCHANGED <<index, docs>>
       ELSE \* external: Elasticsearch makes an index that does not exist,
            \* which create_index then leaves as it is
            index' = index \union {Moved} /\ docs' = docs \union {d} /\ UNCHANGED copy
  /\ UNCHANGED <<vars, life, version>>

-----------------------------------------------------------------------------
(* _0001_baseline *)

Applying(s, v) == pc[s] = "apply" /\ next[s] = v

NameIsFree(t) == t \notin index /\ ~NamesCopy(t)

\* create_index: what exists, or comes to exist (400), is left alone
CreateIndex(s, t) ==
  /\ Applying(s, 1) /\ t \in todo[s]
  /\ todo' = [todo EXCEPT ![s] = @ \ {t}]
  /\ index' = IF NameIsFree(t) THEN index \union {t} ELSE index
  /\ UNCHANGED <<vars, life, docs, copy, redo, history>>

-----------------------------------------------------------------------------
(* reindex_to, as version 2 *)

GotoRedo(s, phase) == redo' = [redo EXCEPT ![s] = phase]

CreateCopy(s) ==
  /\ Applying(s, 2) /\ redo[s] = "create"
  /\ copy' = [copy EXCEPT !.made = TRUE]
  /\ GotoRedo(s, "copy")
  /\ UNCHANGED <<vars, life, index, docs, todo, history>>

\* _reindex reads a name that stands for an index
Reindex(s) ==
  /\ Applying(s, 2) /\ redo[s] = "copy" /\ Moved \in index
  /\ copy' = [copy EXCEPT !.docs = @ \union docs]
  /\ GotoRedo(s, "delete")
  /\ UNCHANGED <<vars, life, index, docs, todo, history>>

\* mutant: the old index is deleted before it is copied
DeleteFirst(s) ==
  /\ Applying(s, 2) /\ redo[s] \in {"copy", "delete"} /\ Moved \in index
  /\ index' = index \ {Moved}
  /\ docs' = {}
  /\ GotoRedo(s, "alias")
  /\ UNCHANGED <<vars, life, copy, todo, history>>

DeleteOld(s) ==
  /\ Applying(s, 2) /\ redo[s] = "delete" /\ Moved \in index
  /\ index' = index \ {Moved}
  /\ docs' = {}
  /\ GotoRedo(s, "alias")
  /\ UNCHANGED <<vars, life, copy, todo, history>>

\* an alias cannot have the name of an index
AddAlias(s) ==
  /\ Applying(s, 2) /\ redo[s] = "alias" /\ Moved \notin index
  /\ copy' = [copy EXCEPT !.alias = TRUE]
  /\ GotoRedo(s, "end")
  /\ UNCHANGED <<vars, life, index, docs, todo, history>>

\* the requests that the state of the indexes refuses
Refused(s) ==
  /\ Applying(s, 2)
  /\ \/ redo[s] \in {"copy", "delete"} /\ Moved \notin index
     \/ redo[s] = "alias" /\ Moved \in index

-----------------------------------------------------------------------------
\* The step of a version ends when all of its requests have.
StepDone(s) ==
  IF next[s] = 1 THEN todo[s] = {} ELSE redo[s] = "end"

\* a step raises because a request is refused, or for a reason of its own
StepRaises(s) ==
  /\ Applying(s, next[s])
  /\ IF Refused(s)
       THEN Goto(s, "mark") /\ UNCHANGED <<live, snap, schema, applied, next, barred, bounds>>
       ELSE ApplyFails(s)
  /\ Restart(s)
  /\ UNCHANGED <<life, store, history>>

\* the steps of run_migrations that are not those of a version
Runner(s) ==
  /\ \/ ReadApplied(s) \/ SkipApplied(s)
     \/ ClaimVersion(s) \/ ClaimAnswered(s) \/ ClaimRefused(s)
     \/ SkipClaimed(s) \/ RaiseFailed(s)
     \/ ApplySucceeds(s) /\ StepDone(s)
     \/ MarkFailed(s) \/ RaiseApplyError(s) \/ Finish(s)
  /\ UNCHANGED <<life, store, version, history>>

VersionStep(s) ==
  \/ \E t \in Tables : CreateIndex(s, t)
  \/ CreateCopy(s) \/ Reindex(s) \/ DeleteOld(s) \/ AddAlias(s)
  \/ StepRaises(s)

Lifecycle(s) == ThreadJoined(s) \/ Initialized(s)

Begin(s) == RunMigrations(s) \/ Initialize(s)

StartupNext ==
  \/ \E s \in Starters :
       \/ Begin(s) \/ Lifecycle(s) \/ Shutdown(s)
       \/ Runner(s) \/ VersionStep(s)
       \/ Die(s)
       \/ (ClaimTimesOut(s) \/ MarkRaises(s)) /\ UNCHANGED <<life, store, version, history>>
       \/ \E d \in Docs : Write(s, d)
  \/ (Refresh \/ \E v \in Versions : ResetFailed(v)) /\ UNCHANGED <<life, store, version, history>>

StartupSpec ==
  /\ StartupInit /\ [][StartupNext]_startupVars
  /\ \A s \in Starters : WF_startupVars(Runner(s) \/ VersionStep(s) \/ Lifecycle(s))
  /\ WF_startupVars(Refresh /\ UNCHANGED <<life, store, version, history>>)

-----------------------------------------------------------------------------
\* why a version that a process did not apply may still be missing when it is up
Excused(v) ==
  \/ v \in faults.lost
  \/ Used(live, v) /\ ~HasStatus(live, v, "applied")      \* it failed since
  \/ \E s \in Starters : Working(s) /\ next[s] = v          \* it is being run
  \/ \E s \in Starters : pc[s] = "marked" /\ next[s] = v

\* A process that serves has every version of the schema, unless another one
\* is still applying it, or it failed, or was lost to a fault.
UpIsMigrated ==
  \A s \in Starters : stage[s] = "up" => \A v \in Versions : v \in schema \/ Excused(v)

\* what the name of a table stands for
Reachable == IF NamesCopy(Moved) THEN copy.docs ELSE docs

\* A move destroys no document, but for those that are written between its
\* copy and its delete; and when it has succeeded, the name of the table stands
\* for all the others, whatever failed or died before.
MoveKeepsDocuments ==
  /\ written \subseteq Reachable \union copy.docs \union late
  /\ 2 \in schema => written \subseteq Reachable \union late
=============================================================================
