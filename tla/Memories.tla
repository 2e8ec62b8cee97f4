------------------------------- MODULE Memories -------------------------------
(***************************************************************************)
(* What the arms of recall read, for one bank and one fact type: memory    *)
(* units, the links between them and the entities they mention.  Units are *)
(* deleted while the arms read; their links and entity rows stay behind.   *)
(*                                                                         *)
(* A unit has a rank by similarity to the query (its position in Ranked,   *)
(* which is also the reverse order of the ids); weights and scores are in  *)
(* thousandths.                                                            *)
(***************************************************************************)
EXTENDS Integers, SequencesExt

CONSTANTS
  Ranked,          \* the units of the bank, the most similar to the query first
  OfType,          \* the units of the fact type
  Tagged,          \* the units that the filters on tags let through
  Created,         \* the units that were created in the range of the call
  Similar,         \* the units above the similarity threshold
  Worded,          \* the units that share words with the query
  LinkChoices,     \* the tables of links: sequences, the heaviest link first
  MentionChoices,  \* the tables of entity rows
  Budgets,         \* what the budget of the call may be
  Deletable        \* the units that may be deleted meanwhile, a bound

Units == {Ranked[i] : i \in 1..Len(Ranked)}
Filtered == OfType \intersect Tagged \intersect Created
Matching == Filtered \intersect Similar

Backends == {"elasticsearch", "postgresql", "oracle"}

SpreadTypes == {"temporal", "causes", "enables"}
CausalTypes == {"causes", "enables"}
Links == [from : Units, to : Units, weight : 0..1000, type : SpreadTypes \union {"semantic"}]

ASSUME MemoriesAssumption ==
  /\ Len(Ranked) \in Nat
  /\ OfType \union Tagged \union Created \union Similar \union Worded \union Deletable \subseteq Units
  /\ Budgets \subseteq Nat
  /\ LinkChoices \subseteq Seq(Links)
  /\ \A table \in MentionChoices : IsFiniteSet(table) /\ \A row \in table : row.unit \in Units

VARIABLES
  links,      \* memory_links
  mentions,   \* unit_entities
  alive,      \* the units that searches still find
  allowed,    \* thinking_budget, the budget of each arm
  backend     \* the backend_type of the connection

memories == <<links, mentions, alive, allowed, backend>>

Native == backend = "elasticsearch"

MemoriesInit == links \in LinkChoices /\ mentions \in MentionChoices /\ alive = Units
                /\ allowed \in Budgets /\ backend \in Backends

MemoriesType ==
  links \in LinkChoices /\ mentions \in MentionChoices /\ alive \subseteq Units
  /\ allowed \in Budgets /\ backend \in Backends

Rank(u) == CHOOSE i \in 1..Len(Ranked) : Ranked[i] = u

\* as many, or all there are
Capped(n, most) == IF n < most THEN n ELSE most

FirstOnes(seq, n) == SubSeq(seq, 1, Capped(n, Len(seq)))

\* the first n ones of a set, in an order
FirstInOrder(S, n, Before(_, _)) ==
  {f \in [1..Capped(n, Cardinality(S)) -> S] :
     /\ \A i, j \in DOMAIN f : i < j => Before(f[i], f[j])
     /\ \A i \in DOMAIN f, x \in S \ ToSet(f) : Before(f[i], x)}

\* the most similar ones of a set of units
MostSimilar(S, n) == {u \in S : Cardinality({v \in S : Rank(v) < Rank(u)}) < n}

\* purge_document_units, or anybody else
DeleteUnit(u) ==
  /\ u \in alive
  /\ alive' = alive \ {u}
  /\ UNCHANGED <<links, mentions, allowed, backend>>
=============================================================================
