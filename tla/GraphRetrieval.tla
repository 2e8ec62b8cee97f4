---------------------------- MODULE GraphRetrieval ----------------------------
(***************************************************************************)
(* The graph arm of recall, for one fact type: a few similar units are the *)
(* seeds of two expansions that run at the same time, one along links and  *)
(* one over shared entities.  Each is several searches, and units are      *)
(* deleted in between.  If an expansion fails, the arm is empty, and the   *)
(* other expansion goes on by itself.                                      *)
(*                                                                         *)
(* Rows are functions from units to scores: the code sorts them by score,  *)
(* and those of equal score come in any order.                             *)
(***************************************************************************)
EXTENDS Memories

CONSTANTS
  SeedLimit,   \* k of the search for seeds
  PerEntity    \* per_entity_limit

ASSUME GraphRetrievalAssumption ==
  SeedLimit \in Nat \ {0} /\ PerEntity \in Nat \ {0}

VARIABLES
  arm,                        \* where retrieve is
  seeds,                      \* seed_ids
  walk,                       \* where expand_semantic_causal is
  semScore, causalScore,
  semRows, causalRows,
  fan,                        \* where expand_entities is
  common,                     \* entity_ids
  counted,                    \* entity_count_by_unit, as counts
  entRows,
  activation                  \* the results, with their activation

graph == <<arm, seeds, walk, semScore, causalScore, semRows, causalRows, fan, common, counted,
           entRows, activation>>

None == <<>>

GraphInit ==
  /\ arm = "idle" /\ seeds = {}
  /\ walk = "idle" /\ semScore = None /\ causalScore = None
  /\ semRows = None /\ causalRows = None
  /\ fan = "idle" /\ common = {} /\ counted = None /\ entRows = None
  /\ activation = None

\* sorted by score, and cut: what is left of the rows
Best(score, n) ==
  {Restrict(score, kept) : kept \in
    {S \in SUBSET DOMAIN score :
       /\ Cardinality(S) = IF n < Cardinality(DOMAIN score) THEN n ELSE Cardinality(DOMAIN score)
       /\ \A u \in S, v \in DOMAIN score \ S : score[u] >= score[v]}}

SearchSeeds ==
  /\ arm = "search"
  /\ seeds' = MostSimilar(alive \intersect Filtered, SeedLimit)
  /\ IF seeds' = {} THEN arm' = "done" /\ UNCHANGED <<walk, fan>>
                    ELSE arm' = "expand" /\ walk' = "semantic" /\ fan' = "entities"
  /\ UNCHANGED <<semScore, causalScore, semRows, causalRows, common, counted, entRows, activation>>

-----------------------------------------------------------------------------
(* expand_semantic_causal *)

\* semantic links, in either direction
SemanticLinks(u) ==
  {l \in ToSet(links) : /\ l.type = "semantic"
                        /\ \/ l.from \in seeds /\ l.to = u
                           \/ l.to \in seeds /\ l.from = u}

\* causal links, forward
CausalLinks(u) ==
  {l \in ToSet(links) : l.type \in CausalTypes /\ l.from \in seeds /\ l.to = u}

Strongest(found) == Max({l.weight : l \in found})

ScanSemantic ==
  /\ walk = "semantic"
  /\ semScore' = [u \in {u \in Units \ seeds : SemanticLinks(u) # {}} |-> Strongest(SemanticLinks(u))]
  /\ walk' = "causal"
  /\ UNCHANGED <<arm, seeds, causalScore, semRows, causalRows, fan, common, counted, entRows,
                 activation>>

ScanCausal ==
  /\ walk = "causal"
  /\ causalScore' = [u \in {u \in Units : CausalLinks(u) # {}} |-> Strongest(CausalLinks(u))]
  /\ walk' = "rowsSemantic"
  /\ UNCHANGED <<arm, seeds, semScore, semRows, causalRows, fan, common, counted, entRows,
                 activation>>

Hydrated(score) == Restrict(score, DOMAIN score \intersect alive \intersect OfType)

HydrateSemantic ==
  /\ walk = "rowsSemantic"
  /\ semRows' \in Best(Hydrated(semScore), allowed)
  /\ walk' = "rowsCausal"
  /\ UNCHANGED <<arm, seeds, semScore, causalScore, causalRows, fan, common, counted, entRows,
                 activation>>

HydrateCausal ==
  /\ walk = "rowsCausal"
  /\ causalRows' \in Best(Hydrated(causalScore), allowed)
  /\ walk' = "done"
  /\ UNCHANGED <<arm, seeds, semScore, causalScore, semRows, fan, common, counted, entRows,
                 activation>>

-----------------------------------------------------------------------------
(* expand_entities *)

SearchEntities ==
  /\ fan = "entities"
  /\ common' = {m.entity : m \in {m \in mentions : m.unit \in seeds}}
  /\ fan' = IF common' = {} THEN "done" ELSE "fanout"
  /\ UNCHANGED <<arm, seeds, walk, semScore, causalScore, semRows, causalRows, counted, entRows,
                 activation>>

\* the first units of an entity that are no seeds
FanOut(e) == MostSimilar({m.unit : m \in {m \in mentions : m.entity = e}} \ seeds, PerEntity)

SearchFanOut ==
  /\ fan = "fanout"
  /\ counted' = [u \in UNION {FanOut(e) : e \in common} |-> Cardinality({e \in common : u \in FanOut(e)})]
  /\ fan' = IF DOMAIN counted' = {} THEN "done" ELSE "rows"
  /\ UNCHANGED <<arm, seeds, walk, semScore, causalScore, semRows, causalRows, common, entRows,
                 activation>>

HydrateEntities ==
  /\ fan = "rows"
  /\ entRows' \in Best(Hydrated(counted), allowed)
  /\ fan' = "done"
  /\ UNCHANGED <<arm, seeds, walk, semScore, causalScore, semRows, causalRows, common, counted,
                 activation>>

\* a request of an expansion raises: the gather does, and the arm is empty
WalkFails ==
  /\ walk \notin {"idle", "done", "failed"}
  /\ walk' = "failed"
  /\ arm' = IF arm = "expand" THEN "done" ELSE arm
  /\ UNCHANGED <<seeds, semScore, causalScore, semRows, causalRows, fan, common, counted, entRows,
                 activation>>

FanFails ==
  /\ fan \notin {"idle", "done", "failed"}
  /\ fan' = "failed"
  /\ arm' = IF arm = "expand" THEN "done" ELSE arm
  /\ UNCHANGED <<seeds, walk, semScore, causalScore, semRows, causalRows, common, counted, entRows,
                 activation>>

-----------------------------------------------------------------------------
(* The scores *)

MaxOverlap == IF DOMAIN entRows = {} THEN 1 ELSE Max({entRows[u] : u \in DOMAIN entRows})

\* every activation that a unit is considered with
Activations(u) ==
  {rows[u] : rows \in {rows \in {semRows, causalRows} : u \in DOMAIN rows}}
    \union {(entRows[v] * 1000) \div MaxOverlap : v \in DOMAIN entRows \intersect {u}}

Considered == (DOMAIN semRows \union DOMAIN causalRows \union DOMAIN entRows) \ seeds

BestActivation == [u \in Considered |-> Max(Activations(u))]

\* mutant: the budget first, and then the filters
CutThenFiltered == {Restrict(kept, DOMAIN kept \intersect Tagged) : kept \in Best(BestActivation, allowed)}

\* the filters on tags, and then the budget; rows do not tell their creation
FilteredThenCut == Best(Restrict(BestActivation, Considered \intersect Tagged), allowed)

Merge ==
  /\ arm = "expand" /\ walk = "done" /\ fan = "done"
  /\ activation' \in FilteredThenCut
  /\ arm' = "done"
  /\ UNCHANGED <<seeds, walk, semScore, causalScore, semRows, causalRows, fan, common, counted,
                 entRows>>

GraphNext ==
  \/ SearchSeeds
  \/ ScanSemantic \/ ScanCausal \/ HydrateSemantic \/ HydrateCausal
  \/ SearchEntities \/ SearchFanOut \/ HydrateEntities
  \/ Merge

-----------------------------------------------------------------------------
GraphType ==
  /\ arm \in {"idle", "search", "expand", "done"}
  /\ walk \in {"idle", "semantic", "causal", "rowsSemantic", "rowsCausal", "done", "failed"}
  /\ fan \in {"idle", "entities", "fanout", "rows", "done", "failed"}
  /\ seeds \subseteq OfType
  /\ \A score \in {semScore, causalScore, semRows, causalRows, counted, entRows, activation} :
       DOMAIN score \subseteq Units /\ \A u \in DOMAIN score : score[u] \in Nat

Strength(u) == Max({0} \union {l.weight : l \in SemanticLinks(u) \union CausalLinks(u)})

\* rows that took a place of the budget and are not among the results
Wasted(rows) == Cardinality(DOMAIN rows) = allowed /\ ~(DOMAIN rows \subseteq Tagged \ seeds)

\* No unit is left out for a weaker one: if it is linked to a seed and still
\* there, it is returned, or the budget went to units that are activated at
\* least as much - unless the seeds themselves, or rows that the filters took
\* away afterwards, filled an expansion, which is cut before they are dropped.
StrongestFound ==
  arm = "done" /\ walk = "done" /\ fan # "failed" =>
    \A u \in (alive \intersect OfType \intersect Tagged) \ (seeds \union DOMAIN activation) :
      \/ Strength(u) = 0
      \/ Cardinality(DOMAIN activation) = allowed /\ \A v \in DOMAIN activation : activation[v] >= Strength(u)
      \/ Wasted(semRows) \/ Wasted(causalRows)
=============================================================================
