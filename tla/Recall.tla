-------------------------------- MODULE Recall --------------------------------
(***************************************************************************)
(* retrieve_all_fact_types_parallel, for one fact type: the semantic and   *)
(* BM25 arms in one request or statement, or in what replaces it if that   *)
(* fails, which depends on the backend;                                    *)
(* then the temporal arm, if the query names a period; then the graph arm. *)
(* Any request may fail, and units are deleted at any moment.  What an arm *)
(* returns is not changed by the next one; its variables end with it.      *)
(***************************************************************************)
EXTENDS TemporalRetrieval, GraphRetrieval

CONSTANT MaxFaults   \* a bound

VARIABLES
  stage,
  semantic, bm25,   \* the results of the first two arms
  failed            \* which requests have failed

recall == <<stage, semantic, bm25, failed>>
vars == <<memories, temporal, graph, recall>>

Init ==
  /\ MemoriesInit /\ TemporalInit /\ GraphInit
  /\ stage = "batch" /\ semantic = {} /\ bm25 = {}
  /\ failed = {}

May(request) == Cardinality(failed) < MaxFaults /\ failed' = failed \union {request}

\* what the kNN search and the text search find, above their floors
Nearest == {u \in MostSimilar(alive \intersect Filtered, allowed) : u \in Similar}
BestWorded == MostSimilar(alive \intersect Filtered \intersect Worded, allowed)

\* the temporal arm is entered if the query names a period
Proceed ==
  \/ stage' = "temporal" /\ pc' = "search" /\ UNCHANGED <<arm, dates, spreading>>
  \/ stage' = "graph" /\ arm' = (IF Native THEN "search" ELSE "idle") /\ UNCHANGED temporal

OtherGraph == <<seeds, walk, semScore, causalScore, semRows, causalRows, fan, common, counted,
                entRows, activation>>

\* the fast path: every arm in one msearch
SearchBatch ==
  /\ Native /\ stage = "batch"
  /\ semantic' = Nearest /\ bm25' = BestWorded
  /\ Proceed
  /\ UNCHANGED <<memories, OtherGraph, failed>>

\* mutant: the error is not caught
BatchRaises ==
  /\ Native /\ stage = "batch" /\ May("batch")
  /\ stage' = "raised"
  /\ UNCHANGED <<memories, temporal, graph, semantic, bm25>>

\* whatever fails in it leads to the searches one by one
BatchFails ==
  /\ Native /\ stage = "batch" /\ May("batch")
  /\ stage' = "nearest"
  /\ UNCHANGED <<memories, temporal, graph, semantic, bm25>>

SearchNearest ==
  /\ stage = "nearest"
  /\ semantic' = Nearest
  /\ stage' = "worded"
  /\ UNCHANGED <<memories, temporal, graph, bm25, failed>>

SearchWorded ==
  /\ stage = "worded"
  /\ bm25' = BestWorded
  /\ Proceed
  /\ UNCHANGED <<memories, OtherGraph, semantic, failed>>

\* the other backends: every arm in one statement
QueryArms ==
  /\ ~Native /\ stage = "batch"
  /\ semantic' = Nearest /\ bm25' = BestWorded
  /\ Proceed
  /\ UNCHANGED <<memories, OtherGraph, failed>>

\* Oracle Text is not available: the semantic arms without the others
TextFails ==
  /\ backend = "oracle" /\ stage = "batch" /\ May("text")
  /\ stage' = "without text"
  /\ UNCHANGED <<memories, temporal, graph, semantic, bm25>>

QuerySemantic ==
  /\ stage = "without text"
  /\ semantic' = Nearest
  /\ Proceed
  /\ UNCHANGED <<memories, OtherGraph, bm25, failed>>

Spread ==
  /\ stage = "temporal" /\ TemporalNext
  /\ UNCHANGED <<memories, graph, recall>>

\* the temporal arm returns, and with it go its variables
SpreadEnds ==
  /\ stage = "temporal" /\ pc = "done"
  /\ stage' = "graph" /\ arm' = IF Native THEN "search" ELSE "idle"
  /\ pc' = "idle"
  /\ pool' = {} /\ entries' = <<>> /\ frontier' = <<>> /\ visited' = {} /\ results' = <<>>
  /\ score' = <<>> /\ budget' = allowed /\ iteration' = 0 /\ hits' = <<>> /\ rows' = {}
  /\ UNCHANGED <<memories, dates, OtherGraph, semantic, bm25, failed>>

Expand ==
  /\ stage \in {"graph", "answered"} /\ GraphNext
  /\ UNCHANGED <<memories, temporal, recall>>

\* an expansion raises: the arm is empty
ExpandFails ==
  /\ stage \in {"graph", "answered"} /\ May("expansion")
  /\ WalkFails \/ FanFails
  /\ UNCHANGED <<memories, temporal, stage, semantic, bm25>>

Answer ==
  /\ stage = "graph" /\ (Native => arm = "done")   \* else the retriever is external
  /\ stage' = "answered"
  /\ UNCHANGED <<memories, temporal, graph, semantic, bm25, failed>>

\* every other request that raises, and with it the recall
Raises(request) == stage' = "raised" /\ May(request)

OtherFails ==
  /\ \/ stage \in {"nearest", "worded"} /\ Raises("one by one")
     \/ stage = "temporal" /\ pc \in {"search", "spread", "hydrate"} /\ (pc = "spread" => MoreToDo)
          /\ Raises("temporal")
     \/ stage = "graph" /\ (Native => arm = "search") /\ Raises("seeds")
     \/ stage = "batch" /\ ~Native /\ Raises("statement")
     \/ stage = "without text" /\ Raises("semantic")
  /\ UNCHANGED <<memories, temporal, graph, semantic, bm25>>

Delete ==
  /\ stage \notin {"answered", "raised"}
  /\ \E u \in Deletable : DeleteUnit(u)
  /\ UNCHANGED <<temporal, graph, recall>>

Next ==
  \/ SearchBatch \/ BatchFails \/ SearchNearest \/ SearchWorded
  \/ QueryArms \/ TextFails \/ QuerySemantic
  \/ Spread \/ SpreadEnds
  \/ Expand \/ ExpandFails \/ Answer
  \/ OtherFails
  \/ Delete

Spec == Init /\ [][Next]_vars

-----------------------------------------------------------------------------
\* The type invariant.
TypeOK ==
  /\ MemoriesType /\ TemporalType /\ GraphType
  /\ stage \in {"batch", "nearest", "worded", "without text", "temporal", "graph", "answered",
               "raised"}
  /\ semantic \subseteq Units /\ bm25 \subseteq Units
  /\ failed \subseteq {"batch", "one by one", "statement", "text", "semantic", "temporal",
                       "expansion", "seeds"}

\* The batch of searches, the text index of Oracle and the expansions of the graph
\* arm may fail without the recall failing: it only raises if a request did that
\* nothing replaces, or what replaces it.  The search for the seeds of the graph
\* arm is one of those, although "a graph-arm failure degrades to an empty arm":
\* it is outside of the arm's try.
RaisesOnlyIfItMust ==
  stage = "raised" =>
    \/ failed \intersect {"temporal", "seeds", "statement"} # {}
    \/ {"batch", "one by one"} \subseteq failed \/ {"text", "semantic"} \subseteq failed

=============================================================================
