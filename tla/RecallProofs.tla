----------------------------- MODULE RecallProofs -----------------------------
(***************************************************************************)
(* What is proved of Recall, for any units, links, dates, budgets and any  *)
(* number of failures:                                                     *)
(*  - when a recall raises (RaiseInv);                                     *)
(*  - of the temporal arm, how many entries each slice gets (ChosenInv),   *)
(*    what is found, along which links and within which budget (FoundInv), *)
(*    and what the spreading cannot miss (ReachInv);                       *)
(*  - of the graph arm, that nothing is left out for a weaker unit         *)
(*    (GraphInv, which keeps what each search told the next one);          *)
(*  - the types of all of it;                                              *)
(* of the two reads of Lookups, which have the recall beside them, that    *)
(* neither misses what was there throughout (NearInv, ObsInv); and of the  *)
(* filters of a recall, that their translation means what they do, by      *)
(* induction on how deep a group is nested (GroupMeans).                   *)
(* An arm runs among the others and among deletions: TemporalSteps and     *)
(* GraphSteps say in which ways a step of the recall can touch an arm.     *)
(***************************************************************************)
EXTENDS Reads, FiniteSetTheorems, SequenceTheorems, WellFoundedInduction, TLAPS

\* what replaces a request is only reached if the request failed
OneByOne ==
  /\ stage \in {"nearest", "worded"} => "batch" \in failed
  /\ stage = "without text" => "text" \in failed

RaiseInv == OneByOne /\ RaisesOnlyIfItMust

LEMMA RecallRaiseInv == Spec => []RaiseInv
<1>1. Init => RaiseInv
  BY DEF Init, RaiseInv, OneByOne, RaisesOnlyIfItMust
<1>2. RaiseInv /\ [Next]_vars => RaiseInv'
  <2> SUFFICES ASSUME RaiseInv, [Next]_vars PROVE RaiseInv'
    OBVIOUS
  <2> USE DEF RaiseInv, OneByOne, RaisesOnlyIfItMust
  <2>1. CASE SearchBatch
    BY <2>1 DEF SearchBatch, Proceed
  <2>2. CASE BatchFails
    BY <2>2 DEF BatchFails, May
  <2>3. CASE SearchNearest
    BY <2>3 DEF SearchNearest
  <2>4. CASE SearchWorded
    BY <2>4 DEF SearchWorded, Proceed
  <2>5. CASE UNCHANGED recall
    BY <2>5 DEF recall
  <2>6. CASE SpreadEnds
    BY <2>6 DEF SpreadEnds
  <2>7. CASE ExpandFails
    BY <2>7 DEF ExpandFails, May
  <2>8. CASE Answer
    BY <2>8 DEF Answer
  <2>9. CASE OtherFails
    <3>1. PICK cause \in {"one by one", "temporal", "seeds", "statement", "semantic"} :
            /\ stage' = "raised" /\ failed' = failed \union {cause}
            /\ cause = "one by one" => stage \in {"nearest", "worded"}
            /\ cause = "semantic" => stage = "without text"
      BY <2>9 DEF OtherFails, Raises, May
    <3> QED BY <3>1
  <2>10. Spread \/ Expand \/ Delete \/ UNCHANGED vars => UNCHANGED recall
    BY DEF Spread, Expand, Delete, vars
  <2>11. CASE QueryArms
    BY <2>11 DEF QueryArms, Proceed
  <2>12. CASE TextFails
    BY <2>12 DEF TextFails, May
  <2>13. CASE QuerySemantic
    BY <2>13 DEF QuerySemantic, Proceed
  <2> QED
    BY <2>1, <2>2, <2>3, <2>4, <2>5, <2>6, <2>7, <2>8, <2>9, <2>10, <2>11, <2>12, <2>13 DEF Next
<1> QED BY <1>1, <1>2, PTL DEF Spec

\* The failure of a request that another one replaces never fails the recall,
\* whatever else fails and whatever is deleted meanwhile.
THEOREM RecallRaisesOnlyIfItMust == Spec => []RaisesOnlyIfItMust
<1>1. RaiseInv => RaisesOnlyIfItMust
  BY DEF RaiseInv
<1> QED BY <1>1, RecallRaiseInv, PTL

-----------------------------------------------------------------------------
(* Finite sets, minima and sequences *)

\* A set of numbers has a least one.
LEMMA LeastNumber ==
  ASSUME NEW S \in SUBSET Nat, S # {}
  PROVE  Min(S) \in S /\ \A m \in S : Min(S) <= m
<1> DEFINE Less == {p \in Nat \X Nat : p[1] < p[2]}
<1>1. IsWellFoundedOn(Less, Nat)
  BY NatLessThanWellFounded DEF OpToRel
<1>2. PICK n \in S : \A m \in S : ~(<<m, n>> \in Less)
  BY <1>1, WFMin
<1>3. \A m \in S : ~(m < n)
  BY <1>2
<1>4. \A m \in S : n <= m
  BY <1>3
<1> QED BY <1>4 DEF Min

\* A finite set of numbers has a greatest one: a smallest set that has none would
\* leave a smaller one when a number is taken out of it.
LEMMA GreatestNumber ==
  ASSUME NEW S \in SUBSET Nat, S # {}, IsFiniteSet(S)
  PROVE  Max(S) \in S /\ \A m \in S : m <= Max(S)
<1> DEFINE HasNone(T) == T # {} /\ IsFiniteSet(T) /\ \A x \in T : \E y \in T : y > x
<1> DEFINE sizes == {n \in Nat : \E T \in SUBSET Nat : HasNone(T) /\ Cardinality(T) = n}
<1>1. ASSUME sizes # {} PROVE FALSE
  <2>1. Min(sizes) \in sizes /\ \A m \in sizes : Min(sizes) <= m
    <3>1. sizes \in SUBSET Nat
      OBVIOUS
    <3> HIDE DEF sizes
    <3> QED BY <1>1, <3>1, LeastNumber
  <2>2. PICK T \in SUBSET Nat : HasNone(T) /\ Cardinality(T) = Min(sizes)
    BY <2>1
  <2>3. PICK x \in T : TRUE
    BY <2>2
  <2>4. IsFiniteSet(T \ {x}) /\ Cardinality(T \ {x}) = Cardinality(T) - 1
    BY <2>2, FS_RemoveElement
  <2>5. ~HasNone(T \ {x})
    <3>1. Cardinality(T \ {x}) \in Nat /\ Cardinality(T) \in Nat
      BY <2>2, <2>4, FS_CardinalityType
    <3>2. ~(Min(sizes) <= Cardinality(T \ {x}))
      BY <2>2, <2>4, <3>1
    <3>3. T \ {x} \in SUBSET Nat
      OBVIOUS
    <3> QED BY <2>1, <3>1, <3>2, <3>3
  <2>6. PICK y \in T : y > x
    BY <2>2
  <2>7. y \in T \ {x}
    BY <2>6
  <2>8. PICK z \in T \ {x} : \A w \in T \ {x} : ~(w > z)
    BY <2>4, <2>5, <2>7
  <2>9. PICK w \in T : w > z
    BY <2>2, <2>8
  <2>10. w = x
    BY <2>8, <2>9
  <2>11. y > z /\ y \in T \ {x}
    BY <2>6, <2>7, <2>8, <2>9, <2>10
  <2> QED BY <2>8, <2>11
<1>2. ~HasNone(S)
  <2>1. Cardinality(S) \in Nat
    BY FS_CardinalityType
  <2> QED BY <1>1, <2>1
<1>3. PICK x \in S : \A y \in S : ~(y > x)
  BY <1>2
<1>4. \A y \in S : x >= y
  BY <1>3
<1> QED BY <1>4 DEF Max

\* The positions of the units by similarity tell them apart.
LEMMA RankIs ==
  /\ \A u \in Units : Rank(u) \in 1..Len(Ranked) /\ Ranked[Rank(u)] = u
  /\ \A u, v \in Units : Rank(u) = Rank(v) => u = v
  /\ IsFiniteSet(Units)
<1>0. Len(Ranked) \in Nat
  BY MemoriesAssumption
<1>1. \A u \in Units : Rank(u) \in 1..Len(Ranked) /\ Ranked[Rank(u)] = u
  BY DEF Units, Rank
<1>2. \A u, v \in Units : Rank(u) = Rank(v) => u = v
  BY <1>1
<1>3. IsFiniteSet(1..Len(Ranked))
  BY <1>0, FS_Interval
<1> DEFINE rank == [u \in Units |-> Rank(u)]
<1>4. rank \in Injection(Units, 1..Len(Ranked))
  BY <1>1, <1>2 DEF Injection, IsInjective
<1>5. IsFiniteSet(Units)
  BY ONLY <1>3, <1>4, FS_Injection
<1> QED BY <1>1, <1>2, <1>5

\* The beginning of a sequence.
LEMMA FirstSeq ==
  ASSUME NEW S, NEW seq \in Seq(S), NEW c \in Nat, c <= Len(seq)
  PROVE  /\ SubSeq(seq, 1, c) \in Seq(S) /\ Len(SubSeq(seq, 1, c)) = c
         /\ \A i \in 1..c : SubSeq(seq, 1, c)[i] = seq[i]
<1>1. \A i \in 1..c : seq[i] \in S
  <2>1. ASSUME NEW i \in 1..c PROVE i \in 1..Len(seq)
    BY LenProperties
  <2> QED BY ONLY <2>1, seq \in Seq(S), ElementOfSeq
<1>2. /\ SubSeq(seq, 1, c) \in Seq(S) /\ Len(SubSeq(seq, 1, c)) = IF 1 <= c THEN c - 1 + 1 ELSE 0
      /\ \A i \in 1..c - 1 + 1 : SubSeq(seq, 1, c)[i] = seq[1 + i - 1]
  <2>1. 1 \in Int /\ c \in Int
    OBVIOUS
  <2> QED BY ONLY <1>1, <2>1, SubSeqProperties
<1> QED BY <1>2

\* The rest of a sequence.
LEMMA RestSeq ==
  ASSUME NEW S, NEW seq \in Seq(S), NEW n \in Nat
  PROVE  /\ SubSeq(seq, n + 1, Len(seq)) \in Seq(S)
         /\ Len(SubSeq(seq, n + 1, Len(seq))) = IF n + 1 <= Len(seq) THEN Len(seq) - n ELSE 0
         /\ \A i \in 1..Len(seq) - n : SubSeq(seq, n + 1, Len(seq))[i] = seq[n + i]
<1>0. Len(seq) \in Nat
  BY LenProperties
<1>1. \A i \in n + 1..Len(seq) : seq[i] \in S
  <2>1. ASSUME NEW i \in n + 1..Len(seq) PROVE i \in 1..Len(seq)
    BY <1>0
  <2> QED BY ONLY <2>1, seq \in Seq(S), ElementOfSeq
<1>2. /\ SubSeq(seq, n + 1, Len(seq)) \in Seq(S)
      /\ Len(SubSeq(seq, n + 1, Len(seq))) = IF n + 1 <= Len(seq) THEN Len(seq) - (n + 1) + 1 ELSE 0
      /\ \A i \in 1..Len(seq) - (n + 1) + 1 : SubSeq(seq, n + 1, Len(seq))[i] = seq[(n + 1) + i - 1]
  <2>1. n + 1 \in Int /\ Len(seq) \in Int
    BY <1>0
  <2> QED BY ONLY <1>1, <2>1, SubSeqProperties
<1>3. \A i \in 1..Len(seq) - n : (n + 1) + i - 1 = n + i /\ i \in 1..Len(seq) - (n + 1) + 1
  BY <1>0
<1>4. Len(seq) - (n + 1) + 1 = Len(seq) - n
  BY <1>0
<1> QED BY ONLY <1>2, <1>3, <1>4

\* What the first ones of a sequence are, and the rest.
LEMMA FirstOnesIs ==
  ASSUME NEW S, NEW seq \in Seq(S), NEW n \in Nat
  PROVE  /\ FirstOnes(seq, n) \in Seq(S)
         /\ SubSeq(seq, n + 1, Len(seq)) \in Seq(S)
         /\ ToSet(FirstOnes(seq, n)) \subseteq ToSet(seq)
         /\ ToSet(SubSeq(seq, n + 1, Len(seq))) \subseteq ToSet(seq)
         /\ ToSet(seq) = ToSet(FirstOnes(seq, n)) \union ToSet(SubSeq(seq, n + 1, Len(seq)))
         /\ Len(FirstOnes(seq, n)) = Capped(n, Len(seq))
<1>1. Len(seq) \in Nat
  BY LenProperties
<1>2. PICK c \in Nat : c = Capped(n, Len(seq)) /\ c <= Len(seq) /\ (c = n \/ c = Len(seq))
  BY <1>1 DEF Capped
<1>3. FirstOnes(seq, n) = SubSeq(seq, 1, c)
  BY <1>2 DEF FirstOnes
<1>4. /\ SubSeq(seq, 1, c) \in Seq(S) /\ Len(SubSeq(seq, 1, c)) = c
      /\ \A i \in 1..c : SubSeq(seq, 1, c)[i] = seq[i]
  BY <1>2, FirstSeq
<1>5. /\ SubSeq(seq, n + 1, Len(seq)) \in Seq(S)
      /\ Len(SubSeq(seq, n + 1, Len(seq))) = IF n + 1 <= Len(seq) THEN Len(seq) - n ELSE 0
      /\ \A i \in 1..Len(seq) - n : SubSeq(seq, n + 1, Len(seq))[i] = seq[n + i]
  BY RestSeq
<1>6. PICK first \in Seq(S) : first = SubSeq(seq, 1, c)
  BY <1>4
<1>7. PICK rest \in Seq(S) : rest = SubSeq(seq, n + 1, Len(seq))
  BY <1>5
<1>8. Len(first) = c /\ \A i \in 1..c : first[i] = seq[i]
  BY ONLY <1>4, <1>6
<1>9. /\ Len(rest) = IF n + 1 <= Len(seq) THEN Len(seq) - n ELSE 0
      /\ \A i \in 1..Len(seq) - n : rest[i] = seq[n + i]
  BY ONLY <1>5, <1>7
<1>a. DOMAIN seq = 1..Len(seq) /\ DOMAIN first = 1..c /\ DOMAIN rest = 1..Len(rest) /\ Len(rest) \in Nat
  BY ONLY <1>6, <1>7, <1>8, seq \in Seq(S), LenProperties
<1>10. /\ ToSet(rest) \subseteq ToSet(seq) /\ ToSet(first) \subseteq ToSet(seq)
       /\ ToSet(seq) = ToSet(first) \union ToSet(rest)
  <2>1. PICK len \in Nat : len = Len(seq)
    BY <1>1
  <2>2. PICK more \in Nat : more = Len(rest)
    BY <1>a
  <2>3. /\ DOMAIN seq = 1..len /\ DOMAIN first = 1..c /\ DOMAIN rest = 1..more
        /\ c <= len /\ (c = n \/ c = len)
        /\ more = (IF n + 1 <= len THEN len - n ELSE 0)
        /\ \A i \in 1..c : first[i] = seq[i]
        /\ \A i \in 1..len - n : rest[i] = seq[n + i]
    BY ONLY <1>2, <1>8, <1>9, <1>a, <2>1, <2>2
  <2>4. \A i \in 1..c : i \in 1..len
    BY ONLY len \in Nat, c \in Nat, <2>3
  <2>5. \A i \in 1..more : n + i \in 1..len /\ i \in 1..len - n
    BY ONLY len \in Nat, n \in Nat, <2>3
  <2>6. ASSUME NEW i \in 1..len, i \notin 1..c
        PROVE  i - n \in 1..more /\ n + (i - n) = i /\ i - n \in 1..len - n
    BY ONLY len \in Nat, n \in Nat, c \in Nat, <2>3, <2>6
  <2>7. ToSet(first) \subseteq ToSet(seq)
    BY <2>3, <2>4 DEF ToSet
  <2>8. ToSet(rest) \subseteq ToSet(seq)
    <3>1. ASSUME NEW i \in 1..more PROVE rest[i] \in ToSet(seq)
      <4>1. n + i \in 1..len /\ rest[i] = seq[n + i]
        BY <2>3, <2>5
      <4> QED BY <2>3, <2>5, <4>1 DEF ToSet
    <3> QED BY <2>3, <3>1 DEF ToSet
  <2>9. ASSUME NEW i \in 1..len PROVE seq[i] \in ToSet(first) \union ToSet(rest)
    <3>1. CASE i \in 1..c
      BY <2>3, <3>1 DEF ToSet
    <3>2. CASE i \notin 1..c
      <4>1. PICK j \in 1..more : n + j = i /\ j \in 1..len - n
        BY <2>6, <3>2
      <4>2. rest[j] = seq[i]
        BY <2>3, <4>1
      <4> QED BY <2>3, <4>1, <4>2 DEF ToSet
    <3> QED BY <3>1, <3>2
  <2>10. ToSet(seq) \subseteq ToSet(first) \union ToSet(rest)
    BY <2>3, <2>9 DEF ToSet
  <2> QED BY ONLY <2>7, <2>8, <2>10
<1> QED BY ONLY <1>2, <1>3, <1>4, <1>5, <1>6, <1>7, <1>10

-----------------------------------------------------------------------------
(* The temporal arm among the others *)

\* the arm runs in its own stage, unless something raised
StageInv == stage \notin {"temporal", "raised"} => pc = "idle"

\* the ways in which a step of the recall can touch the temporal arm
Entered == pc = "idle" /\ pc' = "search" /\ UNCHANGED <<dates, spreading>>
Left ==
  /\ pc = "done" /\ pc' = "idle"
  /\ pool' = {} /\ entries' = <<>> /\ frontier' = <<>> /\ visited' = {} /\ results' = <<>>
  /\ score' = <<>> /\ budget' = allowed /\ iteration' = 0 /\ hits' = <<>> /\ rows' = {}
  /\ dates' = dates

\* Every step touches the temporal arm in one of these ways, or not at all.
LEMMA TemporalSteps ==
  ASSUME StageInv, [Next]_vars
  PROVE  /\ StageInv'
         /\ UNCHANGED <<links, mentions, allowed, backend>>
         /\ alive' \subseteq alive
         /\ UNCHANGED temporal \/ Entered \/ Left \/ (TemporalNext /\ UNCHANGED memories)
<1> USE DEF StageInv, memories, recall, vars, temporal
<1> SUFFICES ASSUME Next \/ UNCHANGED vars
             PROVE  /\ StageInv'
                    /\ UNCHANGED <<links, mentions, allowed, backend>>
                    /\ alive' \subseteq alive
                    /\ UNCHANGED temporal \/ Entered \/ Left \/ (TemporalNext /\ UNCHANGED memories)
  OBVIOUS
<1>1. CASE UNCHANGED vars
  BY <1>1
<1>2. CASE SearchBatch
  BY <1>2 DEF SearchBatch, Proceed, Entered
<1>3. CASE QueryArms
  BY <1>3 DEF QueryArms, Proceed, Entered
<1>4. CASE SearchWorded
  BY <1>4 DEF SearchWorded, Proceed, Entered
<1>5. CASE QuerySemantic
  BY <1>5 DEF QuerySemantic, Proceed, Entered
<1>6. CASE BatchFails \/ TextFails \/ SearchNearest \/ Answer
  BY <1>6 DEF BatchFails, TextFails, SearchNearest, Answer
<1>7. CASE Spread
  BY <1>7 DEF Spread
<1>8. CASE SpreadEnds
  BY <1>8 DEF SpreadEnds, Left
<1>9. CASE Expand \/ ExpandFails
  BY <1>9 DEF Expand, ExpandFails
<1>10. CASE OtherFails
  BY <1>10 DEF OtherFails, Raises
<1>11. CASE Delete
  BY <1>11 DEF Delete, DeleteUnit
<1> QED
  BY <1>1, <1>2, <1>3, <1>4, <1>5, <1>6, <1>7, <1>8, <1>9, <1>10, <1>11 DEF Next

LEMMA RecallStageInv == Spec => []StageInv
<1>1. Init => StageInv
  BY DEF Init, TemporalInit, StageInv
<1>2. StageInv /\ [Next]_vars => StageInv'
  BY TemporalSteps
<1> QED BY <1>1, <1>2, PTL DEF Spec

-----------------------------------------------------------------------------
(* What the temporal arm finds *)

Positions == DOMAIN links

SpreadType ==
  /\ links \in Seq(Links) /\ allowed \in Nat
  /\ alive \subseteq Units /\ pool \subseteq Units
  /\ entries \in Seq(Units) /\ frontier \in Seq(Units) /\ results \in Seq(Units)
  /\ hits \in Seq(Positions)

\* before the entry points nothing is found
Fresh ==
  pc \in {"idle", "search", "select"} =>
    /\ entries = <<>> /\ frontier = <<>> /\ visited = {} /\ results = <<>> /\ score = <<>>
    /\ budget = allowed /\ hits = <<>>

Counts ==
  /\ visited = ToSet(results)
  /\ \A i, j \in DOMAIN results : results[i] = results[j] => i = j
  /\ budget = allowed - Len(results)
  /\ Len(results) # Len(entries) => budget >= 0
  /\ pc = "take" /\ hits # <<>> /\ ~Native => budget > 0
  /\ pc = "hydrate" => Native

\* what is expanded was found, with a score that leads on, and the links of a
\* round are links of what is expanded
Expanded ==
  /\ \A u \in DOMAIN score : score[u] > Gate
  /\ DOMAIN score \subseteq ToSet(results)
  /\ ToSet(frontier) \subseteq DOMAIN score
  /\ \A i \in ToSet(hits) : i \in LinksOut(Source(i)) /\ Source(i) \in DOMAIN score

FoundInv == SpreadType /\ Fresh /\ Counts /\ Expanded /\ FoundAlongLinks

LEMMA FindingInit == Init => FoundInv
<1> SUFFICES ASSUME Init PROVE FoundInv
  OBVIOUS
<1>1. /\ links \in Seq(Links) /\ allowed \in Nat /\ alive = Units /\ pool = {} /\ pc = "idle"
      /\ entries = <<>> /\ frontier = <<>> /\ results = <<>> /\ hits = <<>>
      /\ visited = {} /\ score = <<>> /\ budget = allowed
  BY MemoriesAssumption DEF Init, MemoriesInit, TemporalInit
<1>2. SpreadType
  BY <1>1, EmptySeq DEF SpreadType
<1>3. ToSet(<<>>) = {} /\ DOMAIN <<>> = {} /\ Len(<<>>) = 0
  BY EmptySeq DEF ToSet
<1>4. Fresh
  BY <1>1 DEF Fresh
<1>5. Counts
  BY <1>1, <1>3 DEF Counts
<1>6. Expanded
  BY <1>1, <1>3 DEF Expanded
<1>7. FoundAlongLinks
  BY <1>1, <1>3 DEF FoundAlongLinks
<1> QED BY <1>2, <1>4, <1>5, <1>6, <1>7 DEF FoundInv

\* A function on 1..n is a sequence.
LEMMA FunctionIsSeq ==
  ASSUME NEW S, NEW n \in Nat, NEW f \in [1..n -> S]
  PROVE  /\ f \in Seq(S) /\ Len(f) = n /\ DOMAIN f = 1..n
         /\ \A x : x \in ToSet(f) <=> \E i \in 1..n : f[i] = x
         /\ ToSet(f) \subseteq S
<1>1. f \in Seq(S)
  BY SeqDef
<1>2. Len(f) = n /\ DOMAIN f = 1..n
  BY <1>1, LenProperties
<1>3. \A x : x \in ToSet(f) <=> \E i \in 1..n : f[i] = x
  BY <1>2 DEF ToSet
<1>4. \A i \in 1..n : f[i] \in S
  OBVIOUS
<1> QED BY <1>1, <1>2, <1>3, <1>4

\* Entry points are units of the pool, each once, and as many as there may be.
LEMMA EntriesAreOfPool ==
  ASSUME pool \subseteq Units, NEW e \in Selected
  PROVE  /\ e \in Seq(pool) /\ e \in Seq(Units) /\ ToSet(e) \subseteq pool
         /\ Len(e) = Capped(EntryLimit, Cardinality(pool))
         /\ \A i, j \in DOMAIN e : i < j => Before(e[i], e[j])
         /\ \A i \in DOMAIN e, u \in pool \ ToSet(e) : Before(e[i], u)
         /\ \A i, j \in DOMAIN e : e[i] = e[j] => i = j
<1>1. IsFiniteSet(pool) /\ Cardinality(pool) \in Nat
  BY RankIs, FS_Subset, FS_CardinalityType
<1>2. PICK n \in Nat : n = Capped(EntryLimit, Cardinality(pool))
  BY <1>1, TemporalRetrievalAssumption DEF Capped
<1>3. /\ e \in [1..n -> pool]
      /\ \A i, j \in DOMAIN e : i < j => Before(e[i], e[j])
      /\ \A i \in DOMAIN e, u \in pool \ ToSet(e) : Before(e[i], u)
  BY <1>2 DEF Selected, FirstInOrder
<1>4. e \in Seq(pool) /\ Len(e) = n /\ DOMAIN e = 1..n /\ ToSet(e) \subseteq pool
  BY <1>3, FunctionIsSeq
<1>5. e \in Seq(Units)
  BY <1>4, SeqMonotonic
<1>6. ASSUME NEW u \in pool, Before(u, u) PROVE FALSE
  <2>1. Rank(u) \in Nat
    BY RankIs, MemoriesAssumption
  <2>2. Tier(u) \in Nat
    <3>1. {v \in pool : Slice(v) = Slice(u) /\ Rank(v) < Rank(u)} \subseteq pool
      OBVIOUS
    <3> QED BY <1>1, <3>1, FS_Subset, FS_CardinalityType DEF Tier
  <2> QED BY <1>6, <2>1, <2>2 DEF Before, Sooner
<1>7. ASSUME NEW i \in 1..n, NEW j \in 1..n, e[i] = e[j] PROVE i = j
  <2>1. e[i] \in pool
    BY <1>3
  <2>2. ~(i < j) /\ ~(j < i)
    BY <1>3, <1>4, <1>6, <1>7, <2>1
  <2> QED BY <2>2
<1> QED BY <1>2, <1>3, <1>4, <1>5, <1>7

\* The entry points are found, and they are all that is.
LEMMA FindingEnters ==
  ASSUME FoundInv, EnterSelected, UNCHANGED memories
  PROVE  FoundInv'
<1> USE DEF memories
<1>0. /\ pc = "select" /\ entries' \in Selected
      /\ results' = entries' /\ frontier' = entries' /\ visited' = ToSet(entries')
      /\ score' = [u \in ToSet(entries') |-> 1000]
      /\ budget' = allowed - Len(entries') /\ pc' = "spread"
      /\ UNCHANGED <<pool, hits, links, allowed, alive, backend>>
  BY DEF EnterSelected
<1>1. SpreadType /\ hits = <<>> /\ pool \subseteq Units /\ allowed \in Nat
  BY <1>0 DEF FoundInv, Fresh, SpreadType
<1>2. /\ entries' \in Seq(Units)
      /\ \A i, j \in DOMAIN entries' : entries'[i] = entries'[j] => i = j
  BY <1>0, <1>1, EntriesAreOfPool
<1>3. Len(entries') \in Nat
  BY <1>2, LenProperties
<1>4. SpreadType'
  BY <1>0, <1>1, <1>2 DEF SpreadType, Positions
<1>5. Fresh'
  BY <1>0 DEF Fresh
<1>6. Counts'
  BY <1>0, <1>1, <1>2, <1>3 DEF Counts
<1>7. ToSet(hits) = {}
  BY <1>1 DEF ToSet
<1>8. Expanded'
  <2>1. \A u \in DOMAIN score' : score'[u] > Gate
    BY <1>0 DEF Gate
  <2>2. DOMAIN score' = ToSet(results') /\ ToSet(frontier') = DOMAIN score'
    BY <1>0
  <2>3. ToSet(hits') = {}
    BY <1>0, <1>7
  <2> QED BY <2>1, <2>2, <2>3 DEF Expanded
<1>9. FoundAlongLinks'
  BY <1>0, <1>3 DEF FoundAlongLinks
<1> QED BY <1>4, <1>5, <1>6, <1>8, <1>9 DEF FoundInv

\* The links of a round leave the batch, whichever request has found them.
LEMMA RoundIsOfBatch ==
  ASSUME links \in Seq(Links), frontier \in Seq(Units), NEW batch, batch = Batch
  PROVE  /\ \A i \in LinksPerSource(HeavyLinks(batch)) \union Joined(batch) :
              i \in LinksOut(Source(i)) /\ Source(i) \in ToSet(batch)
         /\ LinksPerSource(HeavyLinks(batch)) \union Joined(batch) \subseteq Positions
         /\ ToSet(batch) \subseteq ToSet(frontier)
         /\ Rest \in Seq(Units) /\ ToSet(Rest) \subseteq ToSet(frontier)
         /\ ToSet(frontier) = ToSet(batch) \union ToSet(Rest)
<1>1. \A u : \A i \in LinksOut(u) : i \in Positions /\ Source(i) = u
  BY DEF LinksOut, Source, Positions
<1>2. \A i \in HeavyLinks(batch) : \E u \in ToSet(batch) : i \in LinksOut(u)
  BY DEF HeavyLinks, Heaviest
<1>3. LinksPerSource(HeavyLinks(batch)) \subseteq HeavyLinks(batch)
  BY DEF LinksPerSource, Heaviest
<1>4. \A i \in Joined(batch) : \E u \in ToSet(batch) : i \in LinksOut(u)
  BY DEF Joined, Heaviest
<1>5. /\ ToSet(batch) \subseteq ToSet(frontier)
      /\ Rest \in Seq(Units) /\ ToSet(Rest) \subseteq ToSet(frontier)
      /\ ToSet(frontier) = ToSet(batch) \union ToSet(Rest)
  BY FirstOnesIs, TemporalRetrievalAssumption DEF Batch, Rest
<1> QED BY <1>1, <1>2, <1>3, <1>4, <1>5

\* and it asks for each of them once
LEMMA RoundInOrder ==
  ASSUME links \in Seq(Links), NEW found \in SUBSET Positions, NEW turn,
         NEW s \in BySource(found, turn)
  PROVE  /\ s \in Seq(Positions) /\ s \in Seq(found) /\ ToSet(s) \subseteq found
         /\ Len(s) = Cardinality(found) /\ DOMAIN s = 1..Cardinality(found)
         /\ s \in [1..Cardinality(found) -> found]
         /\ IsFiniteSet(found) /\ Cardinality(found) \in Nat
<1>1. IsFiniteSet(found) /\ Cardinality(found) \in Nat
  <2>1. Len(links) \in Nat /\ Positions = 1..Len(links)
    BY LenProperties DEF Positions
  <2>2. IsFiniteSet(Positions)
    BY <2>1, FS_Interval
  <2> QED BY <2>2, FS_Subset, FS_CardinalityType
<1>2. Capped(Cardinality(found), Cardinality(found)) = Cardinality(found)
  BY DEF Capped
<1>3. s \in [1..Cardinality(found) -> found]
  BY <1>2 DEF BySource, FirstInOrder
<1>4. s \in Seq(found) /\ Len(s) = Cardinality(found) /\ ToSet(s) \subseteq found /\ DOMAIN s = 1..Cardinality(found)
  BY <1>1, <1>3, FunctionIsSeq
<1>5. s \in Seq(Positions)
  BY <1>4, SeqMonotonic
<1> QED BY <1>1, <1>3, <1>4, <1>5

\* What a round asks for is linked from what is expanded.
LEMMA FindingAsks ==
  ASSUME FoundInv, QueryLinks \/ QueryNeighbors, UNCHANGED memories
  PROVE  FoundInv'
<1> USE DEF memories
<1>0. /\ pc = "spread" /\ budget > 0 /\ frontier' = Rest
      /\ pc' \in {"spread", "hydrate", "take"}
      /\ UNCHANGED <<pool, entries, visited, results, score, budget, links, allowed, alive, backend>>
  BY DEF QueryLinks, QueryNeighbors, MoreToDo
<1>1. PICK batch : batch = Batch
  OBVIOUS
<1>2. PICK found \in {LinksPerSource(HeavyLinks(batch)), Joined(batch)} :
         \E turn : hits' \in BySource(found, turn)
  BY <1>1 DEF QueryLinks, QueryNeighbors
<1>3. links \in Seq(Links) /\ frontier \in Seq(Units)
  BY DEF FoundInv, SpreadType
<1>4. /\ \A i \in found : i \in LinksOut(Source(i)) /\ Source(i) \in ToSet(frontier)
      /\ found \subseteq Positions
      /\ Rest \in Seq(Units) /\ ToSet(Rest) \subseteq ToSet(frontier)
  BY <1>1, <1>2, <1>3, RoundIsOfBatch
<1>5. hits' \in Seq(Positions) /\ ToSet(hits') \subseteq found
  BY <1>2, <1>3, <1>4, RoundInOrder
<1>6. SpreadType'
  BY <1>0, <1>4, <1>5 DEF FoundInv, SpreadType, Positions
<1>7. Fresh'
  BY <1>0 DEF Fresh
<1>8. Counts'
  <2>1. pc' = "hydrate" => Native
    BY DEF QueryLinks, QueryNeighbors
  <2> QED BY <1>0, <2>1 DEF FoundInv, Counts, Native
<1>9. Expanded'
  <2>1. \A i \in ToSet(hits') : i \in LinksOut(Source(i)) /\ Source(i) \in DOMAIN score
    BY <1>4, <1>5 DEF FoundInv, Expanded
  <2>2. \A i : (i \in LinksOut(Source(i)) /\ Source(i) \in DOMAIN score)' <=>
               (i \in LinksOut(Source(i)) /\ Source(i) \in DOMAIN score)
    BY <1>0 DEF LinksOut, Source
  <2>3. \A i \in ToSet(hits') : (i \in LinksOut(Source(i)) /\ Source(i) \in DOMAIN score)'
    BY <2>1, <2>2
  <2> QED BY <1>0, <1>4, <2>3 DEF FoundInv, Expanded
<1>10. FoundAlongLinks'
  BY <1>0 DEF FoundInv, FoundAlongLinks, LinksOut
<1> QED BY <1>6, <1>7, <1>8, <1>9, <1>10 DEF FoundInv

\* A step that leaves alone what is found, and takes no link in.
LEMMA FindingRests ==
  ASSUME FoundInv,
         UNCHANGED <<entries, frontier, visited, results, score, budget, links, allowed, backend>>,
         alive' \subseteq alive, pool' \subseteq Units,
         hits' \in Seq(Positions), ToSet(hits') \subseteq ToSet(hits),
         pc' \in {"idle", "search", "select"} => pc \in {"idle", "search", "select"} /\ hits' = hits,
         pc' = "take" /\ hits' # <<>> /\ ~Native => pc = "take" /\ hits # <<>>,
         pc' = "hydrate" => pc = "hydrate"
  PROVE  FoundInv'
<1>1. SpreadType'
  BY DEF FoundInv, SpreadType, Positions
<1>2. Fresh'
  BY DEF FoundInv, Fresh
<1>3. Counts'
  BY DEF FoundInv, Counts, Native
<1>4. Expanded'
  <2>1. \A i \in ToSet(hits') : i \in LinksOut(Source(i)) /\ Source(i) \in DOMAIN score
    BY DEF FoundInv, Expanded
  <2>2. \A i \in ToSet(hits') : (i \in LinksOut(Source(i)) /\ Source(i) \in DOMAIN score)'
    BY <2>1 DEF LinksOut, Source
  <2> QED BY <2>2 DEF FoundInv, Expanded
<1>5. FoundAlongLinks'
  BY DEF FoundInv, FoundAlongLinks, LinksOut
<1> QED BY <1>1, <1>2, <1>3, <1>4, <1>5 DEF FoundInv

\* What is left of a sequence without its first one.
LEMMA TailIs ==
  ASSUME NEW S, NEW s \in Seq(S), s # <<>>
  PROVE  /\ Tail(s) \in Seq(S) /\ ToSet(Tail(s)) \subseteq ToSet(s)
         /\ Head(s) \in ToSet(s)
         /\ \A x \in ToSet(s) : x = Head(s) \/ x \in ToSet(Tail(s))
<1>1. /\ Len(s) \in Nat \ {0} /\ DOMAIN s = 1..Len(s)
      /\ Tail(s) \in Seq(S) /\ Len(Tail(s)) = Len(s) - 1
      /\ \A i \in 1..Len(Tail(s)) : Tail(s)[i] = s[i + 1]
  BY EmptySeq, LenProperties, HeadTailProperties
<1>2. DOMAIN Tail(s) = 1..Len(s) - 1
  BY <1>1, LenProperties
<1>3. Head(s) = s[1]
  OBVIOUS
<1>4. \A i \in 1..Len(s) - 1 : i + 1 \in 1..Len(s) /\ Tail(s)[i] = s[i + 1]
  BY <1>1
<1>5. \A i \in 1..Len(s) : i = 1 \/ (i - 1 \in 1..Len(s) - 1 /\ Tail(s)[i - 1] = s[i])
  BY <1>1, <1>4
<1>6. Head(s) \in ToSet(s)
  BY <1>1, <1>3 DEF ToSet
<1>7. ToSet(Tail(s)) \subseteq ToSet(s)
  BY <1>1, <1>2, <1>4 DEF ToSet
<1>8. ASSUME NEW x \in ToSet(s) PROVE x = Head(s) \/ x \in ToSet(Tail(s))
  <2>1. PICK i \in 1..Len(s) : x = s[i]
    BY <1>1 DEF ToSet
  <2>2. CASE i = 1
    BY <1>3, <2>1, <2>2
  <2>3. CASE i # 1
    <3>1. PICK j \in 1..Len(s) - 1 : Tail(s)[j] = s[i]
      BY <1>5, <2>3
    <3> QED BY <1>2, <2>1, <3>1 DEF ToSet
  <2> QED BY <2>2, <2>3
<1> QED BY <1>1, <1>6, <1>7, <1>8

\* A sequence with one more at its end.
LEMMA OneMoreIs ==
  ASSUME NEW S, NEW s \in Seq(S), NEW x, NEW t \in Seq(S), Len(t) = Len(s) + 1,
         \A i \in 1..Len(s) : t[i] = s[i], t[Len(s) + 1] = x
  PROVE  /\ ToSet(t) = ToSet(s) \union {x}
         /\ DOMAIN t = 1..Len(s) + 1 /\ DOMAIN s = 1..Len(s) /\ Len(s) \in Nat
<1>2. DOMAIN t = 1..Len(s) + 1 /\ DOMAIN s = 1..Len(s) /\ Len(s) \in Nat
  BY LenProperties
<1>3. \A i \in 1..Len(s) : i \in 1..Len(s) + 1
  BY <1>2
<1>4. Len(s) + 1 \in 1..Len(s) + 1
  BY <1>2
<1>5. \A i \in 1..Len(s) + 1 : i \in 1..Len(s) \/ i = Len(s) + 1
  BY <1>2
<1>6. ToSet(t) = ToSet(s) \union {x}
  BY <1>2, <1>3, <1>4, <1>5 DEF ToSet
<1> QED BY <1>2, <1>6

\* The unit that a link leads to is new, and within the budget.
LEMMA FindingTakes ==
  ASSUME FoundInv, pc = "take", hits # <<>>, budget > 0,
         IsNew(FirstHit.to), Discover(FirstHit),
         hits' = Tail(hits) \/ hits' = <<>>,
         ~Native /\ hits' # <<>> => budget' > 0,
         UNCHANGED memories, UNCHANGED <<pool, pc, entries>>
  PROVE  FoundInv'
<1> USE DEF memories
<1> DEFINE l == FirstHit
<1> DEFINE i0 == Head(hits)
<1>0. /\ visited' = visited \union {l.to} /\ results' = Append(results, l.to)
      /\ budget' = budget - 1
      /\ \/ UNCHANGED <<score, frontier>>
         \/ /\ Combined(l) > Gate
            /\ score' = [u \in DOMAIN score \union {l.to} |-> IF u = l.to THEN Combined(l) ELSE score[u]]
            /\ frontier' = Append(frontier, l.to)
  BY DEF Discover, MarkTarget, LeadsOn
<1>1. /\ hits \in Seq(Positions) /\ links \in Seq(Links) /\ results \in Seq(Units)
      /\ frontier \in Seq(Units) /\ entries \in Seq(Units)
      /\ allowed \in Nat
  BY DEF FoundInv, SpreadType
<1>2. /\ i0 \in ToSet(hits) /\ Tail(hits) \in Seq(Positions) /\ ToSet(Tail(hits)) \subseteq ToSet(hits)
  BY <1>1, TailIs
<1>3. i0 \in LinksOut(Source(i0)) /\ Source(i0) \in DOMAIN score
  BY <1>2 DEF FoundInv, Expanded
<1>4. l = links[i0] /\ i0 \in DOMAIN links /\ l \in Links /\ l.to \in Units
  <2>1. l = links[i0] /\ i0 \in DOMAIN links
    BY <1>3 DEF LinksOut, FirstHit
  <2>2. links[i0] \in Links
    BY <1>1, <2>1, LenProperties, ElementOfSeq
  <2> QED BY <2>1, <2>2 DEF Links
<1>5. l.to \notin visited
  BY DEF IsNew
<1> HIDE DEF l, i0
<1>6. /\ results' \in Seq(Units) /\ Len(results') = Len(results) + 1 /\ Len(results) \in Nat
      /\ \A i \in 1..Len(results) : results'[i] = results[i]
      /\ results'[Len(results) + 1] = l.to
      /\ ToSet(results') = ToSet(results) \union {l.to}
      /\ DOMAIN results' = 1..Len(results) + 1 /\ DOMAIN results = 1..Len(results)
  <2>1. /\ results' \in Seq(Units) /\ Len(results') = Len(results) + 1
        /\ \A i \in 1..Len(results) : results'[i] = results[i]
        /\ results'[Len(results) + 1] = l.to
    BY <1>0, <1>1, <1>4, AppendProperties
  <2>2. /\ ToSet(results') = ToSet(results) \union {l.to}
        /\ DOMAIN results' = 1..Len(results) + 1 /\ DOMAIN results = 1..Len(results) /\ Len(results) \in Nat
    BY ONLY <1>1, <2>1, OneMoreIs
  <2> QED BY ONLY <2>1, <2>2
<1>7. frontier' \in Seq(Units) /\ ToSet(frontier') \subseteq ToSet(frontier) \union {l.to}
  <2>1. CASE UNCHANGED frontier
    BY <1>1, <2>1
  <2>2. CASE frontier' = Append(frontier, l.to)
    <3>1. /\ frontier' \in Seq(Units) /\ Len(frontier') = Len(frontier) + 1
          /\ \A i \in 1..Len(frontier) : frontier'[i] = frontier[i]
          /\ frontier'[Len(frontier) + 1] = l.to
      BY <1>1, <1>4, <2>2, AppendProperties
    <3>2. /\ ToSet(frontier') = ToSet(frontier) \union {l.to}
          /\ DOMAIN frontier' = 1..Len(frontier) + 1 /\ DOMAIN frontier = 1..Len(frontier)
          /\ Len(frontier) \in Nat
      BY ONLY <1>1, <3>1, OneMoreIs
    <3> QED BY ONLY <3>1, <3>2
  <2> QED BY <1>0, <2>1, <2>2
<1>8. hits' \in Seq(Positions) /\ ToSet(hits') \subseteq ToSet(hits)
  <2>1. <<>> \in Seq(Positions) /\ ToSet(<<>>) = {}
    BY EmptySeq DEF ToSet
  <2> QED BY <1>2, <2>1
<1>9. SpreadType'
  BY <1>1, <1>6, <1>7, <1>8 DEF FoundInv, SpreadType, Positions
<1>10. Fresh'
  BY DEF Fresh
<1>11. Counts'
  <2>1. visited' = ToSet(results')
    BY <1>0, <1>6 DEF FoundInv, Counts
  <2>2. ASSUME NEW i \in 1..Len(results) + 1, NEW j \in 1..Len(results) + 1, results'[i] = results'[j]
        PROVE  i = j
    <3>1. \A k \in 1..Len(results) : results[k] # l.to
      BY <1>5, <1>6 DEF FoundInv, Counts, ToSet
    <3>2. \A k \in 1..Len(results) + 1 : k \in 1..Len(results) \/ k = Len(results) + 1
      BY <1>6
    <3>3. CASE i \in 1..Len(results) /\ j \in 1..Len(results)
      BY <1>6, <2>2, <3>3 DEF FoundInv, Counts
    <3>4. CASE ~(i \in 1..Len(results) /\ j \in 1..Len(results))
      BY <1>6, <2>2, <3>1, <3>2, <3>4
    <3> QED BY <3>3, <3>4
  <2>3. budget' = allowed - Len(results') /\ budget' >= 0
    BY <1>0, <1>1, <1>6 DEF FoundInv, Counts
  <2> QED BY <1>6, <2>1, <2>2, <2>3 DEF Counts, Native
<1>12. Expanded'
  <2>1. \A u \in DOMAIN score' : score'[u] > Gate
    BY <1>0 DEF FoundInv, Expanded, Gate
  <2>2. DOMAIN score \subseteq DOMAIN score' /\ DOMAIN score' \subseteq DOMAIN score \union {l.to}
    BY <1>0
  <2>3. DOMAIN score' \subseteq ToSet(results')
    BY <1>6, <2>2 DEF FoundInv, Expanded
  <2>4. ToSet(frontier') \subseteq DOMAIN score'
    <3>1. CASE UNCHANGED <<score, frontier>>
      BY <3>1 DEF FoundInv, Expanded
    <3>2. CASE ~UNCHANGED <<score, frontier>>
      BY <1>0, <1>7, <3>2 DEF FoundInv, Expanded
    <3> QED BY <3>1, <3>2
  <2>5. \A i \in ToSet(hits') : i \in LinksOut(Source(i)) /\ Source(i) \in DOMAIN score'
    BY <1>8, <2>2 DEF FoundInv, Expanded
  <2>6. \A i \in ToSet(hits') : (i \in LinksOut(Source(i)) /\ Source(i) \in DOMAIN score)'
    BY <2>5 DEF LinksOut, Source
  <2> QED BY <2>1, <2>3, <2>4, <2>6 DEF Expanded
<1>13. FoundAlongLinks'
  <2> DEFINE Along(rs, sc, i) ==
        \E j \in 1..i - 1 :
           /\ \E k \in LinksOut(rs[j]) : links[k].to = rs[i]
           /\ rs[j] \in DOMAIN sc /\ sc[rs[j]] > Gate
  <2>0. Len(entries) \in Nat
    BY <1>1, LenProperties
  <2>1. \A i \in Len(entries) + 1..Len(results) : Along(results, score, i)
    BY DEF FoundInv, FoundAlongLinks
  <2>2. ASSUME NEW i \in Len(entries) + 1..Len(results') PROVE Along(results', score', i)
    <3>0. \A u \in DOMAIN score : u \in DOMAIN score' /\ score'[u] > Gate
      BY <1>0 DEF FoundInv, Expanded, Gate
    <3>1. CASE i \in 1..Len(results)
      <4>1. PICK j \in 1..i - 1 : /\ \E k \in LinksOut(results[j]) : links[k].to = results[i]
                                  /\ results[j] \in DOMAIN score
        BY <1>6, <2>0, <2>1, <3>1
      <4>2. j \in 1..Len(results) /\ i \in 1..Len(results)
        BY <1>6, <3>1, <4>1
      <4>3. results'[j] = results[j] /\ results'[i] = results[i]
        BY <1>6, <4>2
      <4> QED BY <3>0, <4>1, <4>3
    <3>2. CASE i \notin 1..Len(results)
      <4>1. i = Len(results) + 1
        BY <1>6, <2>0, <3>2
      <4>2. PICK j \in 1..Len(results) : results[j] = Source(i0)
        BY <1>3, <1>6 DEF FoundInv, Expanded, ToSet
      <4>3. j \in 1..i - 1 /\ results'[j] = Source(i0) /\ results'[i] = l.to
        BY <1>6, <4>1, <4>2
      <4> QED BY <1>3, <1>4, <3>0, <4>3
    <3> QED BY <3>1, <3>2
  <2>3. UNCHANGED <<links, entries>>
    OBVIOUS
  <2> HIDE DEF Along
  <2>4. \A i \in Len(entries)' + 1..Len(results)' : Along(results', score', i)
    BY <2>2, <2>3
  <2> QED BY <2>3, <2>4 DEF FoundAlongLinks, Along, LinksOut
<1> QED BY <1>9, <1>10, <1>11, <1>12, <1>13 DEF FoundInv

\* What is found stays so in every step of the recall.
LEMMA FindingSteps ==
  ASSUME FoundInv, StageInv, [Next]_vars
  PROVE  FoundInv'
<1> USE DEF memories, temporal, spreading
<1>0. /\ UNCHANGED <<links, mentions, allowed, backend>> /\ alive' \subseteq alive
      /\ UNCHANGED temporal \/ Entered \/ Left \/ (TemporalNext /\ UNCHANGED memories)
  BY TemporalSteps
<1>1. /\ hits \in Seq(Positions) /\ pool \subseteq Units /\ alive \subseteq Units
      /\ <<>> \in Seq(Positions) /\ ToSet(<<>>) = {} /\ DOMAIN <<>> = {} /\ Len(<<>>) = 0
      /\ <<>> \in Seq(Units) /\ links \in Seq(Links) /\ allowed \in Nat
  BY EmptySeq DEF FoundInv, SpreadType, ToSet
<1>2. CASE UNCHANGED temporal
  BY <1>0, <1>1, <1>2, FindingRests
<1>3. CASE Entered
  BY <1>0, <1>1, <1>3, FindingRests DEF Entered
<1>4. CASE Left
  <2>0. /\ pc' = "idle" /\ pool' = {} /\ entries' = <<>> /\ frontier' = <<>> /\ visited' = {}
        /\ results' = <<>> /\ score' = <<>> /\ budget' = allowed' /\ hits' = <<>>
        /\ links' = links /\ allowed' = allowed /\ alive' \subseteq Units
    BY <1>0, <1>1, <1>4 DEF Left
  <2>1. SpreadType'
    <3>1. <<>> \in Seq(Positions)'
      BY EmptySeq
    <3> QED BY <1>1, <2>0, <3>1 DEF SpreadType
  <2>2. Fresh'
    BY <2>0 DEF Fresh
  <2>3. Counts'
    BY <1>1, <2>0 DEF Counts
  <2>4. Expanded'
    BY <1>1, <2>0 DEF Expanded
  <2>5. FoundAlongLinks'
    BY <1>1, <2>0 DEF FoundAlongLinks
  <2> QED BY <2>1, <2>2, <2>3, <2>4, <2>5 DEF FoundInv
<1>5. CASE TemporalNext /\ UNCHANGED memories
  <2> USE <1>5
  <2>1. CASE FillPool
    <3>1. pool' \subseteq Units
      BY <1>1, <2>1 DEF FillPool
    <3> QED BY <1>1, <2>1, <3>1, FindingRests DEF FillPool
  <2>2. CASE EnterSelected
    BY <2>2, FindingEnters
  <2>3. CASE QueryLinks \/ QueryNeighbors
    BY <2>3, FindingAsks
  <2>4. CASE Hydrate
    BY <1>1, <2>4, FindingRests DEF Hydrate, Native, FoundInv, Counts
  <2>5. CASE TakeLink
    <3>1. CASE IsNew(FirstHit.to)
      BY <2>5, <3>1, FindingTakes DEF TakeLink, BudgetLeft
    <3>2. CASE ~IsNew(FirstHit.to)
      BY <1>1, <2>5, <3>2, TailIs, FindingRests DEF TakeLink, SkipLink
    <3> QED BY <3>1, <3>2
  <2>6. CASE TakeRow
    <3>0. budget > 0
      BY <2>6 DEF TakeRow, FoundInv, Counts
    <3>1. CASE IsNew(FirstHit.to)
      BY <2>6, <3>0, <3>1, FindingTakes DEF TakeRow
    <3>2. CASE ~IsNew(FirstHit.to)
      BY <1>1, <2>6, <3>2, TailIs, FindingRests DEF TakeRow, SkipLink
    <3> QED BY <3>1, <3>2
  <2>7. CASE EndRound
    BY <1>1, <2>7, FindingRests DEF EndRound
  <2>8. CASE Finish
    BY <1>1, <2>8, FindingRests DEF Finish
  <2> QED
    BY <2>1, <2>2, <2>3, <2>4, <2>5, <2>6, <2>7, <2>8
    DEF TemporalNext, SearchPool, QueryPool, SelectEntries, SelectRows
<1> QED BY <1>0, <1>2, <1>3, <1>4, <1>5

LEMMA RecallFoundInv == Spec => []FoundInv
<1>1. StageInv /\ FoundInv /\ [Next]_vars => FoundInv'
  BY FindingSteps
<1> QED BY <1>1, FindingInit, RecallStageInv, PTL DEF Spec

\* No unit is returned twice by the temporal arm, and never more than the budget
\* allows, unless the entry points alone are more.
THEOREM RecallWithinBudget == Spec => []WithinBudget
<1>1. ASSUME FoundInv PROVE WithinBudget
  <2>1. Len(results) \in Nat /\ Len(entries) \in Nat /\ allowed \in Nat
    BY <1>1, LenProperties DEF FoundInv, SpreadType
  <2>2. Len(results) <= IF Len(entries) > allowed THEN Len(entries) ELSE allowed
    BY <1>1, <2>1 DEF FoundInv, Counts
  <2>3. IsInjective(results)
    BY <1>1 DEF FoundInv, Counts, IsInjective
  <2> QED BY <2>2, <2>3 DEF WithinBudget
<1> QED BY <1>1, RecallFoundInv, PTL

\* What the temporal arm finds beyond the entry points is linked from something
\* it found before, whose score leads on.
THEOREM RecallFoundAlongLinks == Spec => []FoundAlongLinks
<1>1. FoundInv => FoundAlongLinks
  BY DEF FoundInv
<1> QED BY <1>1, RecallFoundInv, PTL

-----------------------------------------------------------------------------
(* The slices of the window *)

\* of a set of units, which are the most and the least similar
LEMMA SimilarEnds ==
  ASSUME NEW S \in SUBSET Units, S # {}
  PROVE  /\ \E u \in S : \A v \in S : Rank(u) <= Rank(v)
         /\ \E u \in S : \A v \in S : Rank(v) <= Rank(u)
<1> DEFINE ranks == {Rank(u) : u \in S}
<1>0. Len(Ranked) \in Nat
  BY MemoriesAssumption
<1>1. ranks \in SUBSET (1..Len(Ranked)) /\ ranks \in SUBSET Nat /\ ranks # {}
  BY <1>0, RankIs
<1>2. IsFiniteSet(ranks)
  <2>1. IsFiniteSet(1..Len(Ranked))
    BY <1>0, FS_Interval
  <2> QED BY ONLY <1>1, <2>1, FS_Subset
<1>3. \A n \in ranks : \E u \in S : n = Rank(u)
  OBVIOUS
<1>4. \A u \in S : Rank(u) \in ranks
  OBVIOUS
<1> HIDE DEF ranks
<1>5. Min(ranks) \in ranks /\ \A m \in ranks : Min(ranks) <= m
  BY ONLY <1>1, LeastNumber
<1>6. Max(ranks) \in ranks /\ \A m \in ranks : m <= Max(ranks)
  BY ONLY <1>1, <1>2, GreatestNumber
<1>7. PICK u \in S : Rank(u) = Min(ranks)
  BY <1>3, <1>5
<1>8. PICK w \in S : Rank(w) = Max(ranks)
  BY <1>3, <1>6
<1>9. \A v \in S : Rank(u) <= Rank(v) /\ Rank(v) <= Rank(w)
  BY <1>4, <1>5, <1>6, <1>7, <1>8
<1> QED BY <1>7, <1>8, <1>9

Below(u) == {v \in pool : Slice(v) = Slice(u) /\ Rank(v) < Rank(u)}
OfSlice(S, w) == {e \in S : Slice(e) = Slice(w)}

\* The choice of the entry points is even, whatever the pool.
LEMMA SlicesEven ==
  ASSUME pool \subseteq Units, entries \in Selected, Cardinality(pool) > EntryLimit,
         NEW u \in pool \ ToSet(entries), NEW v \in ToSet(entries)
  PROVE  /\ Cardinality(OfSlice(ToSet(entries), v)) <= Cardinality(OfSlice(ToSet(entries), u)) + 1
         /\ Slice(u) = Slice(v) => Rank(v) < Rank(u)
<1> DEFINE E == ToSet(entries)
<1>1. E \subseteq pool /\ \A e \in E, x \in pool \ E : Before(e, x)
  BY EntriesAreOfPool DEF ToSet
<1>2. IsFiniteSet(pool) /\ Cardinality(pool) \in Nat
  BY RankIs, FS_Subset, FS_CardinalityType
<1>3. \A e \in E, x \in pool \ E : Sooner(e, x)
  BY <1>1, <1>2, TemporalRetrievalAssumption DEF Before
<1> HIDE DEF E
<1>4. \A x \in pool : Rank(x) \in Nat
  BY RankIs, MemoriesAssumption
<1>5. \A x \in pool : /\ IsFiniteSet(Below(x)) /\ Tier(x) = Cardinality(Below(x)) /\ Tier(x) \in Nat
                      /\ Below(x) \subseteq pool
  <2>1. ASSUME NEW x \in pool
        PROVE  /\ IsFiniteSet(Below(x)) /\ Tier(x) = Cardinality(Below(x)) /\ Tier(x) \in Nat
               /\ Below(x) \subseteq pool
    <3>1. Below(x) \subseteq pool
      BY DEF Below
    <3>2. Tier(x) = Cardinality(Below(x))
      BY DEF Tier, Below
    <3> QED BY <1>2, <3>1, <3>2, FS_Subset, FS_CardinalityType
  <2> QED BY <2>1
<1>6. \A e \in E, x \in pool \ E : Tier(e) <= Tier(x)
  BY <1>1, <1>3, <1>5 DEF Sooner
<1>7. ASSUME NEW e \in E, NEW x \in pool \ E, Slice(e) = Slice(x)
      PROVE  Rank(e) < Rank(x)
  <2>1. ASSUME Rank(x) < Rank(e) PROVE FALSE
    <3>1. Below(x) \union {x} \subseteq Below(e)
      <4>1. x \in Below(e)
        BY <1>7, <2>1 DEF Below
      <4>2. ASSUME NEW y \in Below(x) PROVE y \in Below(e)
        <5>1. y \in pool /\ Slice(y) = Slice(x) /\ Rank(y) < Rank(x)
          BY DEF Below
        <5>2. Rank(y) < Rank(e)
          BY <1>1, <1>4, <2>1, <5>1
        <5> QED BY <1>7, <5>1, <5>2 DEF Below
      <4> QED BY <4>1, <4>2
    <3>2. x \notin Below(x)
      BY <1>4 DEF Below
    <3>3. IsFiniteSet(Below(x) \union {x}) /\ Cardinality(Below(x) \union {x}) = Tier(x) + 1
      BY <1>5, <3>2, FS_AddElement
    <3>4. Tier(x) + 1 <= Tier(e)
      BY <1>1, <1>5, <3>1, <3>3, FS_Subset
    <3> QED BY <1>1, <1>5, <1>6, <3>4
  <2>2. Rank(e) # Rank(x)
    BY <1>1, RankIs
  <2> QED BY <1>1, <1>4, <2>1, <2>2
<1>8. /\ IsFiniteSet(E)
      /\ \A w : /\ IsFiniteSet(OfSlice(E, w)) /\ Cardinality(OfSlice(E, w)) \in Nat
                /\ OfSlice(E, w) \subseteq E
  <2>1. IsFiniteSet(E)
    BY <1>1, <1>2, FS_Subset
  <2>2. ASSUME NEW w
        PROVE  /\ IsFiniteSet(OfSlice(E, w)) /\ Cardinality(OfSlice(E, w)) \in Nat
               /\ OfSlice(E, w) \subseteq E
    <3>1. OfSlice(E, w) \subseteq E
      BY DEF OfSlice
    <3> QED BY <2>1, <3>1, FS_Subset, FS_CardinalityType
  <2> QED BY <2>1, <2>2
<1>9. u \in pool \ E /\ v \in E /\ u \in Units /\ v \in Units /\ E \subseteq Units
  BY <1>1 DEF E
<1>10. PICK last \in OfSlice(E, v) : \A e \in OfSlice(E, v) : Rank(e) <= Rank(last)
  <2>1. v \in OfSlice(E, v) /\ OfSlice(E, v) \in SUBSET Units
    BY <1>9 DEF OfSlice
  <2> QED BY <2>1, SimilarEnds
<1>11. PICK next \in OfSlice(pool \ E, u) : \A x \in OfSlice(pool \ E, u) : Rank(next) <= Rank(x)
  <2>1. u \in OfSlice(pool \ E, u) /\ OfSlice(pool \ E, u) \in SUBSET Units
    BY <1>9 DEF OfSlice
  <2> QED BY <2>1, SimilarEnds
<1>12. last \in E /\ Slice(last) = Slice(v) /\ next \in pool \ E /\ Slice(next) = Slice(u) /\ last \in pool
  BY <1>1, <1>10, <1>11 DEF OfSlice
<1>13. Cardinality(OfSlice(E, v)) <= Tier(last) + 1
  <2>1. OfSlice(E, v) \subseteq Below(last) \union {last}
    <3>1. ASSUME NEW e \in OfSlice(E, v), e # last PROVE e \in Below(last)
      <4>1. e \in E /\ e \in pool /\ Slice(e) = Slice(last) /\ Rank(e) <= Rank(last)
        BY <1>1, <1>10, <1>12 DEF OfSlice
      <4>2. Rank(e) # Rank(last)
        BY <1>12, <3>1, <4>1, RankIs
      <4>3. Rank(e) < Rank(last)
        BY <1>4, <1>12, <4>1, <4>2
      <4> QED BY <4>1, <4>3 DEF Below
    <3> QED BY <3>1
  <2>2. last \notin Below(last)
    BY <1>4, <1>12 DEF Below
  <2>3. /\ IsFiniteSet(Below(last) \union {last})
        /\ Cardinality(Below(last) \union {last}) = Tier(last) + 1
    BY <1>5, <1>12, <2>2, FS_AddElement
  <2> QED BY <2>1, <2>3, FS_Subset
<1>14. Tier(next) <= Cardinality(OfSlice(E, u))
  <2>1. ASSUME NEW x \in Below(next) PROVE x \in OfSlice(E, u)
    <3>1. x \in pool /\ Slice(x) = Slice(u) /\ Rank(x) < Rank(next)
      BY <1>12 DEF Below
    <3>2. x \in E
      <4>1. ASSUME x \notin E PROVE FALSE
        <5>1. x \in OfSlice(pool \ E, u)
          BY <3>1, <4>1 DEF OfSlice
        <5> QED BY <1>4, <1>11, <1>12, <3>1, <5>1
      <4> QED BY <4>1
    <3> QED BY <3>1, <3>2 DEF OfSlice
  <2> QED BY <1>5, <1>8, <1>12, <2>1, FS_Subset
<1>15. Cardinality(OfSlice(E, v)) <= Cardinality(OfSlice(E, u)) + 1
  <2>1. Tier(last) <= Tier(next) /\ Tier(last) \in Nat /\ Tier(next) \in Nat
    BY <1>5, <1>6, <1>12
  <2>2. Cardinality(OfSlice(E, v)) \in Nat /\ Cardinality(OfSlice(E, u)) \in Nat
    BY <1>8
  <2> QED BY ONLY <1>13, <1>14, <2>1, <2>2
<1>16. Slice(u) = Slice(v) => Rank(v) < Rank(u)
  BY <1>7, <1>9
<1> QED BY <1>15, <1>16 DEF E

\* The entry points stay what was chosen from the pool.
ChosenInv == pc \notin {"idle", "search", "select"} => entries \in Selected

LEMMA RecallChosenInv == Spec => []ChosenInv
<1>1. Init => ChosenInv
  BY DEF Init, TemporalInit, ChosenInv
<1>2. ASSUME StageInv, FoundInv, ChosenInv, [Next]_vars PROVE ChosenInv'
  <2>0. UNCHANGED temporal \/ Entered \/ Left \/ (TemporalNext /\ UNCHANGED memories)
    BY <1>2, TemporalSteps
  <2>1. (entries \in Selected)' <=> entries' \in FirstInOrder(pool, EntryLimit, Before)'
    BY DEF Selected
  <2>2. UNCHANGED <<pool, dates>> => UNCHANGED Selected
    BY DEF Selected, FirstInOrder, Before, Sooner, Tier, Slice
  <2>3. CASE UNCHANGED temporal
    BY <1>2, <2>2, <2>3 DEF ChosenInv, temporal, spreading
  <2>4. CASE Entered \/ Left
    BY <2>4 DEF Entered, Left, ChosenInv
  <2>5. CASE TemporalNext
    <3>1. CASE FillPool
      <4>1. pc' \in {"select", "done"} /\ (pc' = "done" => pool' = {}) /\ entries' = <<>>
        BY <1>2, <3>1 DEF FillPool, FoundInv, Fresh
      <4>2. ASSUME pool' = {} PROVE <<>> \in Selected'
        <5>1. Capped(EntryLimit, Cardinality(pool')) = 0
          BY <4>2, FS_EmptySet, TemporalRetrievalAssumption DEF Capped
        <5>2. <<>> \in [1..0 -> {}] /\ DOMAIN <<>> = {}
          OBVIOUS
        <5> QED BY <4>2, <5>1, <5>2 DEF Selected, FirstInOrder
      <4> QED BY <4>1, <4>2 DEF ChosenInv
    <3>2. CASE EnterSelected
      <4>1. entries' \in Selected /\ UNCHANGED <<pool, dates>>
        BY <3>2 DEF EnterSelected
      <4> QED BY <2>2, <4>1 DEF ChosenInv
    <3>3. CASE QueryLinks \/ QueryNeighbors \/ Hydrate \/ TakeLink \/ TakeRow \/ EndRound \/ Finish
      <4>1. UNCHANGED <<pool, dates, entries>> /\ pc \notin {"idle", "search", "select"}
        BY <3>3 DEF QueryLinks, QueryNeighbors, Hydrate, TakeLink, TakeRow, EndRound, Finish, spreading
      <4> QED BY <1>2, <2>2, <4>1 DEF ChosenInv
    <3> QED
      BY <2>5, <3>1, <3>2, <3>3 DEF TemporalNext, SearchPool, QueryPool, SelectEntries, SelectRows
  <2> QED BY <2>0, <2>3, <2>4, <2>5
<1> QED BY <1>1, <1>2, RecallStageInv, RecallFoundInv, PTL DEF Spec

\* However the pool lies in the window, no slice has two entry points more than
\* one that has units left, and the most similar of a slice go first.
THEOREM RecallSlicesAreEven == Spec => []SlicesAreEven
<1>1. ASSUME FoundInv, ChosenInv PROVE SlicesAreEven
  <2>1. ASSUME pc \notin {"idle", "search", "select"}, Cardinality(pool) > EntryLimit,
               NEW u \in pool \ ToSet(entries), NEW v \in ToSet(entries)
        PROVE  /\ Cardinality(OfSlice(ToSet(entries), v)) <= Cardinality(OfSlice(ToSet(entries), u)) + 1
               /\ Slice(u) = Slice(v) => Rank(v) < Rank(u)
    BY <1>1, <2>1, SlicesEven DEF ChosenInv, FoundInv, SpreadType
  <2> QED BY <2>1 DEF SlicesAreEven, OfSlice
<1> QED BY <1>1, RecallFoundInv, RecallChosenInv, PTL

-----------------------------------------------------------------------------
(* What the spreading reaches *)

\* the links of a round are asked for once each, and all of them
LEMMA RoundIsWhole ==
  ASSUME links \in Seq(Links), NEW found \in SUBSET Positions, NEW turn,
         \A i \in found : turn[Source(i)] \in Nat,
         NEW s \in BySource(found, turn)
  PROVE  ToSet(s) = found
<1> DEFINE n == Cardinality(found)
<1>1. s \in [1..n -> found] /\ DOMAIN s = 1..n /\ n \in Nat /\ IsFiniteSet(found)
  BY RoundInOrder
<1>2. \A i, j \in DOMAIN s : i < j =>
         \/ turn[Source(s[i])] < turn[Source(s[j])]
         \/ (Source(s[i]) = Source(s[j]) /\ s[i] < s[j])
  BY DEF BySource, FirstInOrder
<1>3. \A i \in found : i \in Nat
  <2>1. Positions = 1..Len(links)
    BY LenProperties DEF Positions
  <2> QED BY <2>1
<1>4. ASSUME NEW i \in 1..n, NEW j \in 1..n, s[i] = s[j] PROVE i = j
  <2>1. s[i] \in found /\ turn[Source(s[i])] \in Nat /\ s[i] \in Nat
    BY <1>1, <1>3
  <2>2. ~(i < j) /\ ~(j < i)
    BY <1>1, <1>2, <1>4, <2>1
  <2> QED BY <1>1, <2>2
<1>5. s \in Injection(1..n, found)
  BY <1>1, <1>4 DEF Injection, IsInjective
<1>6. IsFiniteSet(1..n) /\ Cardinality(1..n) = n
  BY <1>1, FS_Interval
<1> HIDE DEF n
<1>7. s \in Surjection(1..n, found)
  <2>1. Cardinality(1..n) = Cardinality(found)
    BY <1>6 DEF n
  <2> QED BY ONLY <1>1, <1>5, <2>1, FS_Injection
<1>8. \A x \in found : \E i \in 1..n : s[i] = x
  BY <1>7 DEF Surjection
<1> QED BY <1>1, <1>8 DEF ToSet

\* A sequence has no more members than places.
LEMMA FewMembers ==
  ASSUME NEW S, NEW s \in Seq(S)
  PROVE  IsFiniteSet(ToSet(s)) /\ Cardinality(ToSet(s)) \in Nat /\ Cardinality(ToSet(s)) <= Len(s)
<1>1. DOMAIN s = 1..Len(s) /\ Len(s) \in Nat /\ s \in [1..Len(s) -> S]
  BY LenProperties
<1>2. s \in Surjection(1..Len(s), ToSet(s))
  BY <1>1 DEF ToSet, Surjection
<1>3. IsFiniteSet(1..Len(s)) /\ Cardinality(1..Len(s)) = Len(s)
  <2>1. PICK n \in Nat : n = Len(s)
    BY <1>1
  <2>2. IsFiniteSet(1..n) /\ Cardinality(1..n) = n
    BY FS_Interval
  <2> QED BY <2>1, <2>2
<1>4. IsFiniteSet(ToSet(s)) /\ Cardinality(ToSet(s)) <= Cardinality(1..Len(s))
  BY ONLY <1>2, <1>3, FS_Surjection
<1> QED BY ONLY <1>3, <1>4, FS_CardinalityType

\* Of two numbers, the same multiples.
LEMMA NoMoreTimes ==
  ASSUME NEW a \in Nat, NEW b \in Nat, a <= b, NEW p \in Nat
  PROVE  a * p * 3 <= b * p * 3
<1>1. (b - a) * p >= 0
  OBVIOUS
<1>2. b * p = a * p + (b - a) * p
  OBVIOUS
<1> QED BY <1>1, <1>2

\* A link that a batch has no place for is crowded out by the others of it.
LEMMA BatchCrowds ==
  ASSUME links \in Seq(Links), frontier \in Seq(Units), ToSet(frontier) \subseteq visited,
         Native, NEW batch, batch = Batch, NEW u \in ToSet(batch),
         NEW l \in Heaviest(LinksOut(u), PerSource), l \notin HeavyLinks(batch)
  PROVE  Crowded(l)
<1> DEFINE others == ToSet(batch) \ {u}
<1> DEFINE before == {k \in UNION {LinksOut(v) : v \in others} : k < l}
<1> DEFINE own == {k \in LinksOut(u) : k < l}
<1> DEFINE all == {k \in UNION {LinksOut(v) : v \in ToSet(batch)} : k < l}
<1>0. /\ PerSource \in Nat /\ BatchSize \in Nat /\ Len(frontier) \in Nat
  BY TemporalRetrievalAssumption, LenProperties
<1>1. /\ batch \in Seq(Units) /\ ToSet(batch) \subseteq visited
      /\ Len(batch) = Capped(BatchSize, Len(frontier))
  BY <1>0, FirstOnesIs DEF Batch
<1>2. Len(batch) \in Nat /\ Len(batch) <= BatchSize
  BY <1>0, <1>1 DEF Capped
<1>3. /\ IsFiniteSet(ToSet(batch)) /\ Cardinality(ToSet(batch)) <= Len(batch)
      /\ Cardinality(ToSet(batch)) \in Nat
  BY ONLY <1>1, FewMembers
<1>4. IsFiniteSet(others) /\ Cardinality(others) = Cardinality(ToSet(batch)) - 1 /\ Cardinality(others) \in Nat
  BY <1>3, FS_RemoveElement, FS_CardinalityType
<1>5. \A v : LinksOut(v) \subseteq Positions /\ \A k \in LinksOut(v) : Source(k) = v
  BY DEF LinksOut, Positions, Source
<1>6. Source(l) = u /\ l \in LinksOut(u) /\ Cardinality(own) < PerSource
  BY <1>5 DEF Heaviest
<1>7. ~(Cardinality(all) < Len(batch) * PerSource * 3)
  BY <1>6 DEF HeavyLinks, Heaviest
<1>8. /\ IsFiniteSet(Positions)
  <2>1. Len(links) \in Nat /\ Positions = 1..Len(links)
    BY LenProperties DEF Positions
  <2> QED BY <2>1, FS_Interval
<1>9. before \subseteq Positions /\ own \subseteq Positions /\ all \subseteq before \union own
  BY <1>5
<1> HIDE DEF before, own, all, others
<1>10. /\ IsFiniteSet(before) /\ IsFiniteSet(own) /\ IsFiniteSet(before \union own)
       /\ Cardinality(before) \in Nat /\ Cardinality(own) \in Nat
       /\ Cardinality(before \intersect own) \in Nat /\ Cardinality(all) \in Nat
       /\ Cardinality(before \union own) = Cardinality(before) + Cardinality(own) - Cardinality(before \intersect own)
       /\ Cardinality(all) <= Cardinality(before \union own)
  <2>1. IsFiniteSet(before) /\ IsFiniteSet(own)
    BY ONLY <1>8, <1>9, FS_Subset
  <2>2. /\ IsFiniteSet(before \union own)
        /\ Cardinality(before \union own) = Cardinality(before) + Cardinality(own) - Cardinality(before \intersect own)
    BY ONLY <2>1, FS_Union
  <2>3. IsFiniteSet(all) /\ Cardinality(all) <= Cardinality(before \union own)
    BY ONLY <1>9, <2>2, FS_Subset
  <2>4. IsFiniteSet(before \intersect own)
    BY ONLY <2>1, FS_Intersection
  <2> QED BY ONLY <2>1, <2>2, <2>3, <2>4, FS_CardinalityType
<1>11. Cardinality(all) <= Cardinality(before) + Cardinality(own)
  BY ONLY <1>10
<1>12. (Cardinality(others) + 1) * PerSource * 3 <= Len(batch) * PerSource * 3
  <2>1. Cardinality(others) + 1 = Cardinality(ToSet(batch))
    BY <1>3, <1>4
  <2> QED BY <1>0, <1>2, <1>3, <2>1, NoMoreTimes
<1>13. Cardinality(before) + PerSource > (Cardinality(others) + 1) * PerSource * 3
  <2>1. PICK m \in Int : m = Len(batch) * PerSource * 3
    BY <1>0, <1>2
  <2>2. PICK k \in Int : k = (Cardinality(others) + 1) * PerSource * 3
    BY <1>0, <1>4
  <2>3. k <= m /\ ~(Cardinality(all) < m)
    BY ONLY <1>7, <1>12, <2>1, <2>2
  <2>4. Cardinality(before) + PerSource > k
    BY ONLY <1>0, <1>6, <1>10, <1>11, <2>3, k \in Int, m \in Int
  <2> QED BY <2>2, <2>4
<1>14. Cardinality(others) < BatchSize
  BY <1>0, <1>2, <1>3, <1>4
<1>15. others \in SUBSET (visited \ {Source(l)})
  BY <1>1, <1>6 DEF others
<1> QED BY <1>13, <1>14, <1>15 DEF Crowded, before

\* a link of an expanded unit leads to nothing that is still there, or to what is
\* found, or cannot be followed, or is asked for in this round
Settled(l) ==
  \/ links[l].to \notin alive \intersect Matching
  \/ links[l].to \in visited
  \/ Crowded(l)
  \/ budget <= 0

Asked(l) ==
  \/ pc = "hydrate" /\ l \in ToSet(hits)
  \/ pc = "take" /\ l \in ToSet(hits) /\ links[l].to \in rows

ReachInv ==
  /\ \A u \in DOMAIN score \ ToSet(frontier) :
       \A l \in Heaviest(LinksOut(u), PerSource) : Settled(l) \/ Asked(l)
  /\ pc = "done" => ~MoreToDo

\* What a link leads to is settled for good.
LEMMA SettledStays ==
  ASSUME UNCHANGED <<links, backend>>, alive' \subseteq alive, visited \subseteq visited',
         budget \in Int, budget' \in Int, budget' <= budget, NEW l, Settled(l)
  PROVE  Settled(l)'
<1>1. CASE Crowded(l)
  <2>1. Crowded(l)'
    <3>1. PICK others \in SUBSET (visited \ {Source(l)}) :
            /\ Cardinality(others) < BatchSize
            /\ Cardinality({k \in UNION {LinksOut(u) : u \in others} : k < l})
                 + PerSource > (Cardinality(others) + 1) * PerSource * 3
      BY <1>1 DEF Crowded
    <3>2. others \in SUBSET (visited' \ {Source(l)})
      OBVIOUS
    <3>3. \A u : LinksOut(u)' = LinksOut(u)
      BY DEF LinksOut
    <3>4. UNION {LinksOut(u)' : u \in others} = UNION {LinksOut(u) : u \in others}
      BY <3>3
    <3> QED BY <1>1, <3>1, <3>2, <3>4 DEF Crowded, Native, Source
  <2> QED BY <2>1 DEF Settled
<1>2. CASE links[l].to \notin alive \intersect Matching \/ links[l].to \in visited \/ budget <= 0
  BY <1>2 DEF Settled
<1> QED BY <1>1, <1>2 DEF Settled

\* A step that expands nothing, and asks no less.
LEMMA ReachRests ==
  ASSUME ReachInv, UNCHANGED <<links, backend>>, alive' \subseteq alive, visited \subseteq visited',
         budget \in Int, budget' \in Int, budget' <= budget,
         DOMAIN score' \ ToSet(frontier') \subseteq DOMAIN score \ ToSet(frontier),
         \A l : Asked(l) => Asked(l)' \/ Settled(l)',
         pc' = "done" => ~MoreToDo'
  PROVE  ReachInv'
<1>1. ASSUME NEW u \in DOMAIN score' \ ToSet(frontier'), NEW l \in Heaviest(LinksOut(u), PerSource)'
      PROVE  Settled(l)' \/ Asked(l)'
  <2>1. Heaviest(LinksOut(u), PerSource)' = Heaviest(LinksOut(u), PerSource)
    BY DEF Heaviest, LinksOut
  <2>2. Settled(l) \/ Asked(l)
    BY <2>1 DEF ReachInv
  <2> QED BY <2>2, SettledStays
<1> QED BY <1>1 DEF ReachInv

\* One search for a batch asks for the heaviest links of its units, or they are
\* crowded out.
LEMMA ReachAsksBatch ==
  ASSUME FoundInv, ReachInv, QueryLinks, UNCHANGED memories
  PROVE  ReachInv'
<1> USE DEF memories
<1> DEFINE batch == Batch
<1> DEFINE found == LinksPerSource(HeavyLinks(batch))
<1>0. /\ Native /\ pc = "spread" /\ frontier' = Rest
      /\ hits' \in BySource(found, HeaviestFirst(found))
      /\ pc' = (IF hits' = <<>> THEN "spread" ELSE "hydrate")
      /\ UNCHANGED <<links, backend, alive, visited, score, budget>>
  BY DEF QueryLinks
<1>1. /\ links \in Seq(Links) /\ frontier \in Seq(Units) /\ ToSet(frontier) \subseteq visited
      /\ ToSet(frontier) \subseteq DOMAIN score
  BY DEF FoundInv, SpreadType, Expanded, Counts
<1>2. /\ \A i \in found : i \in LinksOut(Source(i)) /\ Source(i) \in ToSet(batch)
      /\ found \subseteq Positions
      /\ ToSet(batch) \subseteq ToSet(frontier)
      /\ ToSet(frontier) = ToSet(batch) \union ToSet(Rest)
  BY <1>1, RoundIsOfBatch
<1>3. \A i \in found : HeaviestFirst(found)[Source(i)] \in Nat
  <2>1. ASSUME NEW i \in found PROVE HeaviestFirst(found)[Source(i)] \in Nat
    <3>1. i \in LinksOut(Source(i))
      BY <1>2
    <3>2. LinksOut(Source(i)) \subseteq Positions
      BY DEF LinksOut, Positions
    <3>3. Positions = 1..Len(links) /\ Len(links) \in Nat
      BY <1>1, LenProperties DEF Positions
    <3>4. LinksOut(Source(i)) \in SUBSET Nat
      BY <3>2, <3>3
    <3>5. Min(LinksOut(Source(i))) \in Nat
      BY <3>1, <3>4, LeastNumber
    <3>6. HeaviestFirst(found)[Source(i)] = Min(LinksOut(Source(i)))
      BY DEF HeaviestFirst
    <3> QED BY <3>5, <3>6
  <2> QED BY <2>1
<1>4. ToSet(hits') = found
  <2> HIDE DEF found
  <2> QED BY <1>0, <1>1, <1>2, <1>3, RoundIsWhole
<1>5. ASSUME NEW u \in ToSet(batch), NEW l \in Heaviest(LinksOut(u), PerSource)
      PROVE  l \in found \/ Crowded(l)
  <2>1. CASE l \notin HeavyLinks(batch)
    BY <1>0, <1>1, <2>1, BatchCrowds
  <2>2. CASE l \in HeavyLinks(batch)
    <3> DEFINE part == {i \in HeavyLinks(batch) : Source(i) = u}
    <3>1. l \in LinksOut(u) /\ Source(l) = u /\ l \in part
      BY <2>2 DEF Heaviest, LinksOut, Source
    <3>2. part \subseteq LinksOut(u)
      <4>1. \A i \in HeavyLinks(batch) : \E v \in ToSet(batch) : i \in LinksOut(v)
        BY DEF HeavyLinks, Heaviest
      <4> QED BY <4>1 DEF LinksOut, Source
    <3>3. {j \in part : j < l} \subseteq {j \in LinksOut(u) : j < l}
      BY <3>2
    <3>4. IsFiniteSet({j \in LinksOut(u) : j < l})
      <4>1. Positions = 1..Len(links) /\ Len(links) \in Nat
        BY <1>1, LenProperties DEF Positions
      <4>2. IsFiniteSet(Positions)
        BY <4>1, FS_Interval
      <4>3. {j \in LinksOut(u) : j < l} \subseteq Positions
        BY DEF LinksOut, Positions
      <4> QED BY <4>2, <4>3, FS_Subset
    <3>5. /\ Cardinality({j \in part : j < l}) <= Cardinality({j \in LinksOut(u) : j < l})
          /\ Cardinality({j \in part : j < l}) \in Nat /\ Cardinality({j \in LinksOut(u) : j < l}) \in Nat
      BY <3>3, <3>4, FS_Subset, FS_CardinalityType
    <3>6. Cardinality({j \in LinksOut(u) : j < l}) < PerSource
      BY DEF Heaviest
    <3>7. Cardinality({j \in part : j < l}) < PerSource
      BY <3>5, <3>6, TemporalRetrievalAssumption
    <3>8. l \in Heaviest(part, PerSource)
      BY <3>1, <3>7 DEF Heaviest
    <3> QED BY <2>2, <3>1, <3>8 DEF LinksPerSource
  <2> QED BY <2>1, <2>2
<1> HIDE DEF found, batch
<1>6. ASSUME NEW u \in DOMAIN score \ ToSet(Rest), NEW l \in Heaviest(LinksOut(u), PerSource)
      PROVE  Settled(l) \/ (l \in found /\ pc' = "hydrate")
  <2>1. CASE u \in ToSet(frontier)
    <3>1. u \in ToSet(batch)
      BY <1>2, <2>1
    <3>2. CASE Crowded(l)
      BY <3>2 DEF Settled
    <3>3. CASE l \in found
      <4>1. ToSet(<<>>) = {}
        BY DEF ToSet
      <4> QED BY <1>0, <1>4, <3>3, <4>1
    <3> QED BY <1>5, <3>1, <3>2, <3>3
  <2>2. CASE u \notin ToSet(frontier)
    BY <1>0, <2>2 DEF ReachInv, Asked
  <2> QED BY <2>1, <2>2
<1>7. budget \in Int
  BY LenProperties DEF FoundInv, SpreadType, Counts
<1>8. ASSUME NEW u \in DOMAIN score' \ ToSet(frontier'), NEW l \in Heaviest(LinksOut(u), PerSource)'
      PROVE  Settled(l)' \/ Asked(l)'
  <2>1. Heaviest(LinksOut(u), PerSource)' = Heaviest(LinksOut(u), PerSource)
    BY <1>0 DEF Heaviest, LinksOut
  <2>2. Settled(l) \/ (l \in found /\ pc' = "hydrate")
    BY <1>0, <1>6, <2>1
  <2>3. Settled(l) => Settled(l)'
    BY <1>0, <1>7, SettledStays
  <2> QED BY <1>4, <2>2, <2>3 DEF Asked
<1>9. pc' # "done"
  BY <1>0
<1> QED BY <1>8, <1>9 DEF ReachInv

\* A join asks for the heaviest links of each unit, if they lead to what is there.
LEMMA ReachAsksEach ==
  ASSUME FoundInv, ReachInv, QueryNeighbors, UNCHANGED memories
  PROVE  ReachInv'
<1> USE DEF memories
<1> DEFINE batch == Batch
<1> DEFINE found == Joined(batch)
<1>0. /\ pc = "spread" /\ frontier' = Rest /\ pc' = "take"
      /\ rows' = {links[i].to : i \in found}
      /\ UNCHANGED <<links, backend, alive, visited, score, budget>>
  BY DEF QueryNeighbors
<1>1. /\ links \in Seq(Links) /\ frontier \in Seq(Units)
      /\ ToSet(frontier) \subseteq DOMAIN score
  BY DEF FoundInv, SpreadType, Expanded
<1>2. /\ \A i \in found : i \in LinksOut(Source(i)) /\ Source(i) \in ToSet(batch)
      /\ found \subseteq Positions
      /\ ToSet(batch) \subseteq ToSet(frontier)
      /\ ToSet(frontier) = ToSet(batch) \union ToSet(Rest)
  BY <1>1, RoundIsOfBatch
<1>3. ASSUME NEW u \in ToSet(batch), NEW l \in Heaviest(LinksOut(u), PerSource)
      PROVE  l \in found \/ links[l].to \notin alive \intersect Matching
  BY DEF Joined, Matching, Filtered
<1>4. PICK turn \in Bijection(ToSet(batch), 1..Cardinality(ToSet(batch))) : hits' \in BySource(found, turn)
  BY DEF QueryNeighbors
<1>5. \A i \in found : turn[Source(i)] \in Nat
  BY <1>2 DEF Bijection, Injection, Surjection
<1> HIDE DEF found, batch
<1>6. ToSet(hits') = found
  BY <1>1, <1>2, <1>4, <1>5, RoundIsWhole
<1>7. budget \in Int
  BY LenProperties DEF FoundInv, SpreadType, Counts
<1>8. ASSUME NEW u \in DOMAIN score' \ ToSet(frontier'), NEW l \in Heaviest(LinksOut(u), PerSource)'
      PROVE  Settled(l)' \/ Asked(l)'
  <2>1. Heaviest(LinksOut(u), PerSource)' = Heaviest(LinksOut(u), PerSource)
    BY <1>0 DEF Heaviest, LinksOut
  <2>2. Settled(l) => Settled(l)'
    BY <1>0, <1>7, SettledStays
  <2>3. CASE u \in ToSet(frontier)
    <3>1. u \in ToSet(batch)
      BY <1>0, <1>2, <2>3
    <3>2. l \in found \/ Settled(l)
      BY <1>3, <2>1, <3>1 DEF Settled
    <3>3. l \in found => Asked(l)'
      BY <1>0, <1>6 DEF Asked
    <3> QED BY <2>2, <3>2, <3>3
  <2>4. CASE u \notin ToSet(frontier)
    BY <1>0, <2>1, <2>2, <2>4 DEF ReachInv, Asked
  <2> QED BY <2>3, <2>4
<1>9. pc' # "done"
  BY <1>0
<1> QED BY <1>8, <1>9 DEF ReachInv

\* A link that is taken leads to what is found, or is not to be found.
LEMMA ReachTakes ==
  ASSUME FoundInv, ReachInv, pc = "take", hits # <<>>,
         \/ IsNew(FirstHit.to) /\ Discover(FirstHit)
         \/ ~IsNew(FirstHit.to) /\ SkipLink,
         hits' = Tail(hits) \/ (hits' = <<>> /\ budget' <= 0),
         UNCHANGED memories, UNCHANGED <<pc, rows>>
  PROVE  ReachInv'
<1> USE DEF memories
<1>1. hits \in Seq(Positions) /\ budget \in Int /\ frontier \in Seq(Units)
  BY LenProperties DEF FoundInv, SpreadType, Counts
<1>2. \A l \in ToSet(hits) : l = Head(hits) \/ l \in ToSet(Tail(hits))
  BY <1>1, TailIs
<1>3. visited \subseteq visited' /\ budget' \in Int /\ budget' <= budget
  BY <1>1 DEF Discover, MarkTarget, SkipLink
<1>4. DOMAIN score' \ ToSet(frontier') \subseteq DOMAIN score \ ToSet(frontier)
  <2>1. CASE UNCHANGED <<score, frontier>>
    BY <2>1
  <2>2. CASE ~UNCHANGED <<score, frontier>>
    <3>1. /\ DOMAIN score' = DOMAIN score \union {FirstHit.to}
          /\ frontier' = Append(frontier, FirstHit.to)
      BY <2>2 DEF Discover, SkipLink
    <3>2. FirstHit.to \in Units
      <4>1. Head(hits) \in ToSet(hits)
        BY <1>1, TailIs
      <4>2. FirstHit \in Links
        BY <4>1, LenProperties, ElementOfSeq DEF FoundInv, SpreadType, Expanded, LinksOut, FirstHit
      <4> QED BY <4>2 DEF Links
    <3>3. /\ frontier' \in Seq(Units) /\ Len(frontier') = Len(frontier) + 1
          /\ \A i \in 1..Len(frontier) : frontier'[i] = frontier[i]
          /\ frontier'[Len(frontier) + 1] = FirstHit.to
      BY <1>1, <3>1, <3>2, AppendProperties
    <3>4. /\ ToSet(frontier') = ToSet(frontier) \union {FirstHit.to}
          /\ DOMAIN frontier' = 1..Len(frontier) + 1 /\ DOMAIN frontier = 1..Len(frontier)
          /\ Len(frontier) \in Nat
      BY ONLY <1>1, <3>3, OneMoreIs
    <3> QED BY <3>1, <3>4
  <2> QED BY <2>1, <2>2
<1>5. ASSUME NEW l, Asked(l) PROVE Asked(l)' \/ Settled(l)'
  <2>1. l \in ToSet(hits) /\ links[l].to \in rows
    BY <1>5 DEF Asked
  <2>2. CASE l = Head(hits)
    <3>1. links[l].to \in visited'
      BY <2>1, <2>2 DEF FirstHit, IsNew, Discover, MarkTarget, SkipLink
    <3> QED BY <3>1 DEF Settled
  <2>3. CASE l # Head(hits)
    <3>1. l \in ToSet(Tail(hits))
      BY <1>2, <2>1, <2>3
    <3> QED BY <2>1, <3>1 DEF Asked, Settled
  <2> QED BY <2>2, <2>3
<1> QED BY <1>1, <1>3, <1>4, <1>5, ReachRests

\* Every step of the recall keeps the links of what is expanded settled or asked for.
LEMMA ReachSteps ==
  ASSUME StageInv, FoundInv, ReachInv, [Next]_vars
  PROVE  ReachInv'
<1> USE DEF memories, temporal, spreading
<1>0. /\ UNCHANGED <<links, mentions, allowed, backend>> /\ alive' \subseteq alive
      /\ UNCHANGED temporal \/ Entered \/ Left \/ (TemporalNext /\ UNCHANGED memories)
  BY TemporalSteps
<1>1. budget \in Int
  BY LenProperties DEF FoundInv, SpreadType, Counts
<1>2. CASE UNCHANGED temporal
  BY <1>0, <1>1, <1>2, ReachRests DEF Asked, ReachInv, MoreToDo, Spreads
<1>3. CASE Entered
  BY <1>0, <1>1, <1>3, ReachRests DEF Entered, Asked
<1>4. CASE Left
  <2>1. DOMAIN score' = {} /\ pc' = "idle"
    BY <1>4 DEF Left
  <2> QED BY <2>1 DEF ReachInv
<1>5. CASE TemporalNext /\ UNCHANGED memories
  <2> USE <1>5
  <2>1. CASE FillPool
    <3>1. frontier = <<>> /\ UNCHANGED <<frontier, budget, score, visited>>
      BY <2>1 DEF FillPool, FoundInv, Fresh
    <3>2. pc = "search"
      BY <2>1 DEF FillPool
    <3> QED BY <1>0, <1>1, <2>1, <3>1, <3>2, ReachRests DEF Asked, MoreToDo
  <2>2. CASE EnterSelected
    <3>1. DOMAIN score' = ToSet(frontier') /\ pc' = "spread"
      BY <2>2 DEF EnterSelected
    <3> QED BY <3>1 DEF ReachInv
  <2>3. CASE QueryLinks
    BY <2>3, ReachAsksBatch
  <2>4. CASE QueryNeighbors
    BY <2>4, ReachAsksEach
  <2>5. CASE Hydrate
    <3>1. ASSUME NEW l, Asked(l) PROVE Asked(l)' \/ Settled(l)'
      BY <2>5, <3>1 DEF Hydrate, Asked, Settled
    <3> QED BY <1>0, <1>1, <2>5, <3>1, ReachRests DEF Hydrate
  <2>6. CASE TakeLink
    <3>1. pc = "take" /\ hits # <<>> /\ hits' = Tail(hits) /\ UNCHANGED <<pc, rows>>
      BY <2>6 DEF TakeLink
    <3> QED BY <2>6, <3>1, ReachTakes DEF TakeLink
  <2>7. CASE TakeRow
    <3>1. pc = "take" /\ hits # <<>> /\ UNCHANGED <<pc, rows>>
      BY <2>7 DEF TakeRow
    <3>2. CASE IsNew(FirstHit.to)
      <4>1. budget' \in Int
        BY <1>1, <2>7, <3>2 DEF TakeRow, Discover
      <4>2. hits' = Tail(hits) \/ (hits' = <<>> /\ budget' <= 0)
        BY <2>7, <3>2, <4>1 DEF TakeRow
      <4> QED BY <2>7, <3>1, <3>2, <4>2, ReachTakes DEF TakeRow
    <3>3. CASE ~IsNew(FirstHit.to)
      BY <2>7, <3>1, <3>3, ReachTakes DEF TakeRow
    <3> QED BY <3>2, <3>3
  <2>8. CASE EndRound
    <3>1. ASSUME NEW l, Asked(l) PROVE Settled(l)'
      <4>1. hits # <<>>
        BY <2>8, <3>1 DEF EndRound, Asked, ToSet
      <4> QED BY <1>1, <2>8, <4>1 DEF EndRound, BudgetLeft, Settled
    <3> QED BY <1>0, <1>1, <2>8, <3>1, ReachRests DEF EndRound
  <2>9. CASE Finish
    BY <1>0, <1>1, <2>9, ReachRests DEF Finish, Asked, MoreToDo, Spreads
  <2> QED
    BY <2>1, <2>2, <2>3, <2>4, <2>5, <2>6, <2>7, <2>8, <2>9
    DEF TemporalNext, SearchPool, QueryPool, SelectEntries, SelectRows
<1> QED BY <1>0, <1>2, <1>3, <1>4, <1>5

\* When the spreading ends with budget and rounds to spare, it has found every
\* unit that one of the heaviest links of an expanded unit leads to, unless its
\* batch crowded the link out.
THEOREM RecallNothingMissed == Spec => []NothingMissed
<1>1. Init => ReachInv
  BY DEF Init, TemporalInit, ReachInv
<1>2. StageInv /\ FoundInv /\ ReachInv /\ [Next]_vars => ReachInv'
  BY ReachSteps
<1>3. ASSUME FoundInv, ReachInv PROVE NothingMissed
  <2>1. ToSet(<<>>) = {}
    BY DEF ToSet
  <2>2. budget \in Int
    BY <1>3, LenProperties DEF FoundInv, SpreadType, Counts
  <2> QED BY <1>3, <2>1, <2>2 DEF ReachInv, Settled, Asked, MoreToDo, NothingMissed
<1> QED BY <1>1, <1>2, <1>3, RecallStageInv, RecallFoundInv, PTL DEF Spec

-----------------------------------------------------------------------------
(* The graph arm among the others *)

\* it rests until its stage
GraphStage ==
  stage \notin {"graph", "answered", "raised"} => arm = "idle" /\ walk = "idle" /\ fan = "idle"

GraphEntered ==
  /\ arm = "idle" /\ arm' \in {"search", "idle"} /\ walk = "idle" /\ fan = "idle"
  /\ UNCHANGED OtherGraph

\* Every step touches the graph arm in one of these ways, or not at all.
LEMMA GraphSteps ==
  ASSUME GraphStage, [Next]_vars
  PROVE  /\ GraphStage'
         /\ UNCHANGED <<links, mentions, allowed, backend>>
         /\ alive' \subseteq alive
         /\ UNCHANGED graph \/ GraphEntered \/ ((GraphNext \/ WalkFails \/ FanFails) /\ UNCHANGED memories)
<1> USE DEF GraphStage, memories, recall, vars, graph, OtherGraph
<1> SUFFICES ASSUME Next \/ UNCHANGED vars
             PROVE  /\ GraphStage'
                    /\ UNCHANGED <<links, mentions, allowed, backend>>
                    /\ alive' \subseteq alive
                    /\ \/ UNCHANGED graph \/ GraphEntered
                       \/ (GraphNext \/ WalkFails \/ FanFails) /\ UNCHANGED memories
  OBVIOUS
<1>1. CASE UNCHANGED vars
  BY <1>1
<1>2. CASE SearchBatch
  BY <1>2 DEF SearchBatch, Proceed, GraphEntered
<1>3. CASE QueryArms
  BY <1>3 DEF QueryArms, Proceed, GraphEntered
<1>4. CASE SearchWorded
  BY <1>4 DEF SearchWorded, Proceed, GraphEntered
<1>5. CASE QuerySemantic
  BY <1>5 DEF QuerySemantic, Proceed, GraphEntered
<1>6. CASE BatchFails \/ TextFails \/ SearchNearest \/ Answer
  BY <1>6 DEF BatchFails, TextFails, SearchNearest, Answer
<1>7. CASE Spread
  BY <1>7 DEF Spread
<1>8. CASE SpreadEnds
  BY <1>8 DEF SpreadEnds, GraphEntered
<1>9. CASE Expand
  BY <1>9 DEF Expand
<1>10. CASE ExpandFails
  BY <1>10 DEF ExpandFails
<1>11. CASE OtherFails
  BY <1>11 DEF OtherFails, Raises
<1>12. CASE Delete
  BY <1>12 DEF Delete, DeleteUnit
<1> QED
  BY <1>1, <1>2, <1>3, <1>4, <1>5, <1>6, <1>7, <1>8, <1>9, <1>10, <1>11, <1>12 DEF Next

LEMMA RecallGraphStage == Spec => []GraphStage
<1>1. Init => GraphStage
  BY DEF Init, GraphInit, GraphStage
<1>2. GraphStage /\ [Next]_vars => GraphStage'
  BY GraphSteps
<1> QED BY <1>1, <1>2, PTL DEF Spec

-----------------------------------------------------------------------------
(* Scores and rows *)

\* the weights of some links, and the greatest
LEMMA StrongestIs ==
  ASSUME NEW found \in SUBSET Links, found # {}
  PROVE  /\ Strongest(found) \in Nat
         /\ \A l \in found : l.weight \in 0..1000 /\ l.weight <= Strongest(found)
         /\ \E l \in found : Strongest(found) = l.weight
<1> DEFINE weights == {l.weight : l \in found}
<1>1. \A l \in found : l.weight \in 0..1000
  BY DEF Links
<1>2. \A w \in weights : \E l \in found : w = l.weight
  OBVIOUS
<1>3. \A l \in found : l.weight \in weights
  OBVIOUS
<1>4. Strongest(found) = Max(weights)
  BY DEF Strongest
<1>5. weights # {}
  BY <1>3
<1> HIDE DEF weights
<1>6. weights \in SUBSET (0..1000)
  BY <1>1, <1>2
<1>7. \A w \in 0..1000 : w \in Nat
  OBVIOUS
<1>8. weights \in SUBSET Nat
  BY <1>6, <1>7
<1>9. IsFiniteSet(weights)
  <2>1. PICK n \in Nat : n = 1000
    OBVIOUS
  <2>2. \A w \in weights : w <= n
    BY <1>6, <2>1
  <2> QED BY ONLY <1>8, <2>2, n \in Nat, FS_BoundedSetOfNaturals
<1>10. Max(weights) \in weights /\ \A w \in weights : w <= Max(weights)
  BY ONLY <1>5, <1>8, <1>9, GreatestNumber
<1>11. Strongest(found) \in Nat
  BY <1>4, <1>8, <1>10
<1>12. \A l \in found : l.weight <= Strongest(found)
  BY <1>3, <1>4, <1>10
<1>13. \E l \in found : Strongest(found) = l.weight
  BY <1>2, <1>4, <1>10
<1> QED BY ONLY <1>1, <1>11, <1>12, <1>13

\* What is kept of rows that are sorted and cut.
LEMMA BestIs ==
  ASSUME NEW rated, IsFiniteSet(DOMAIN rated), NEW n \in Nat, NEW kept \in Best(rated, n)
  PROVE  /\ DOMAIN kept \subseteq DOMAIN rated
         /\ \A u \in DOMAIN kept : kept[u] = rated[u]
         /\ Cardinality(DOMAIN kept) <= n
         /\ \A u \in DOMAIN rated \ DOMAIN kept :
              Cardinality(DOMAIN kept) = n /\ \A v \in DOMAIN kept : rated[v] >= rated[u]
<1>1. PICK S \in SUBSET DOMAIN rated :
        /\ kept = Restrict(rated, S)
        /\ Cardinality(S) = IF n < Cardinality(DOMAIN rated) THEN n ELSE Cardinality(DOMAIN rated)
        /\ \A u \in S, v \in DOMAIN rated \ S : rated[u] >= rated[v]
  BY DEF Best
<1>2. DOMAIN kept = S /\ \A u \in S : kept[u] = rated[u]
  BY <1>1 DEF Restrict
<1>3. Cardinality(DOMAIN rated) \in Nat /\ IsFiniteSet(S) /\ Cardinality(S) \in Nat
  BY FS_CardinalityType, FS_Subset
<1>4. Cardinality(S) <= n
  BY <1>1, <1>3
<1>5. ASSUME NEW u \in DOMAIN rated \ S PROVE Cardinality(S) = n
  <2>1. Cardinality(S) # Cardinality(DOMAIN rated)
    BY <1>5, FS_Subset
  <2> QED BY <1>1, <2>1
<1> QED BY <1>1, <1>2, <1>4, <1>5

-----------------------------------------------------------------------------
(* What the graph arm returns *)

SemanticScores ==
  [u \in {u \in Units \ seeds : SemanticLinks(u) # {}} |-> Strongest(SemanticLinks(u))]
CausalScores == [u \in {u \in Units : CausalLinks(u) # {}} |-> Strongest(CausalLinks(u))]

\* rows are scores, and what is there and not among them scores no more
Kept(rated, kept) ==
  /\ DOMAIN kept \subseteq DOMAIN rated
  /\ \A u \in DOMAIN kept : kept[u] = rated[u]
  /\ Cardinality(DOMAIN kept) <= allowed
  /\ \A u \in (DOMAIN rated \intersect alive \intersect OfType) \ DOMAIN kept :
       Cardinality(DOMAIN kept) = allowed /\ \A v \in DOMAIN kept : rated[v] >= rated[u]

Rated == Restrict(BestActivation, Considered \intersect Tagged)

\* the results are the best that the rows give
Merged ==
  /\ DOMAIN activation \subseteq DOMAIN Rated
  /\ \A u \in DOMAIN activation : activation[u] = Rated[u]
  /\ Cardinality(DOMAIN activation) <= allowed
  /\ \A u \in DOMAIN Rated \ DOMAIN activation :
       Cardinality(DOMAIN activation) = allowed /\ \A v \in DOMAIN activation : Rated[v] >= Rated[u]

\* numbers of shared entities
Numbers(rated) == DOMAIN rated \subseteq Units /\ \A u \in DOMAIN rated : rated[u] \in Nat \ {0}

GraphInv ==
  /\ links \in Seq(Links) /\ mentions \in MentionChoices /\ allowed \in Nat /\ alive \subseteq Units
  /\ arm \in {"idle", "search"} => walk = "idle" /\ fan = "idle"
  /\ walk \in {"causal", "rowsSemantic", "rowsCausal", "done"} => semScore = SemanticScores
  /\ walk \in {"rowsSemantic", "rowsCausal", "done"} => causalScore = CausalScores
  /\ walk \in {"rowsCausal", "done"} => Kept(semScore, semRows)
  /\ walk = "done" => Kept(causalScore, causalRows)
  /\ IsFiniteSet(common) /\ Numbers(counted) /\ Numbers(entRows)
  /\ arm = "done" =>
       \/ fan = "failed" \/ walk \in {"failed", "idle"}
       \/ walk = "done" /\ fan = "done" /\ Merged

\* The rows of a search are cut to the best of what is there.
LEMMA HydratedKept ==
  ASSUME NEW rated, DOMAIN rated \subseteq Units, allowed \in Nat,
         NEW kept \in Best(Hydrated(rated), allowed)
  PROVE  Kept(rated, kept)
<1>1. DOMAIN Hydrated(rated) = DOMAIN rated \intersect alive \intersect OfType
  BY DEF Hydrated, Restrict
<1>2. \A u \in DOMAIN Hydrated(rated) : Hydrated(rated)[u] = rated[u]
  BY DEF Hydrated, Restrict
<1>3. IsFiniteSet(DOMAIN Hydrated(rated))
  <2>1. DOMAIN Hydrated(rated) \subseteq Units
    BY <1>1
  <2> QED BY <2>1, RankIs, FS_Subset
<1>4. PICK h : h = Hydrated(rated)
  OBVIOUS
<1>5. /\ DOMAIN kept \subseteq DOMAIN h
      /\ \A u \in DOMAIN kept : kept[u] = h[u]
      /\ Cardinality(DOMAIN kept) <= allowed
      /\ \A u \in DOMAIN h \ DOMAIN kept :
           Cardinality(DOMAIN kept) = allowed /\ \A v \in DOMAIN kept : h[v] >= h[u]
  BY <1>3, <1>4, BestIs
<1>6. DOMAIN h = DOMAIN rated \intersect alive \intersect OfType /\ \A u \in DOMAIN h : h[u] = rated[u]
  BY <1>1, <1>2, <1>4
<1> QED BY ONLY <1>5, <1>6 DEF Kept

\* The scores of both kinds of links are numbers.
LEMMA ScoresAre ==
  ASSUME links \in Seq(Links)
  PROVE  /\ \A u : SemanticLinks(u) \in SUBSET Links /\ CausalLinks(u) \in SUBSET Links
         /\ DOMAIN SemanticScores \subseteq Units /\ DOMAIN CausalScores \subseteq Units
         /\ \A u \in DOMAIN SemanticScores : SemanticScores[u] \in Nat
         /\ \A u \in DOMAIN CausalScores : CausalScores[u] \in Nat
<1>1. ToSet(links) \subseteq Links
  BY LenProperties, ElementOfSeq DEF ToSet
<1>2. \A u : SemanticLinks(u) \in SUBSET Links /\ CausalLinks(u) \in SUBSET Links
  BY <1>1 DEF SemanticLinks, CausalLinks
<1>3. \A u \in DOMAIN SemanticScores : SemanticScores[u] \in Nat
  <2>1. ASSUME NEW u \in DOMAIN SemanticScores PROVE SemanticScores[u] \in Nat
    <3>1. SemanticLinks(u) # {} /\ SemanticScores[u] = Strongest(SemanticLinks(u))
      BY DEF SemanticScores
    <3> QED BY <1>2, <3>1, StrongestIs
  <2> QED BY <2>1
<1>4. \A u \in DOMAIN CausalScores : CausalScores[u] \in Nat
  <2>1. ASSUME NEW u \in DOMAIN CausalScores PROVE CausalScores[u] \in Nat
    <3>1. CausalLinks(u) # {} /\ CausalScores[u] = Strongest(CausalLinks(u))
      BY DEF CausalScores
    <3> QED BY <1>2, <3>1, StrongestIs
  <2> QED BY <2>1
<1>5. DOMAIN SemanticScores \subseteq Units /\ DOMAIN CausalScores \subseteq Units
  BY DEF SemanticScores, CausalScores
<1> QED BY <1>2, <1>3, <1>4, <1>5

\* The numbers of the fan-out are at least one.
LEMMA CountsAre ==
  ASSUME GraphInv, SearchFanOut
  PROVE  Numbers(counted')
<1> DEFINE sharing(u) == {e \in common : u \in FanOut(e)}
<1>1. /\ DOMAIN counted' = UNION {FanOut(e) : e \in common}
      /\ \A u \in DOMAIN counted' : counted'[u] = Cardinality(sharing(u))
  BY DEF SearchFanOut
<1>2. ASSUME NEW e, NEW u \in FanOut(e) PROVE u \in Units
  BY MemoriesAssumption DEF GraphInv, FanOut, MostSimilar
<1>3. ASSUME NEW u \in DOMAIN counted' PROVE counted'[u] \in Nat \ {0}
  <2>1. sharing(u) \subseteq common /\ sharing(u) # {}
    BY <1>1
  <2> HIDE DEF sharing
  <2>2. IsFiniteSet(sharing(u)) /\ Cardinality(sharing(u)) \in Nat
    BY <2>1, FS_Subset, FS_CardinalityType DEF GraphInv
  <2>3. Cardinality(sharing(u)) # 0
    BY <2>1, <2>2, FS_EmptySet
  <2> QED BY <1>1, <2>2, <2>3
<1> QED BY <1>1, <1>2, <1>3 DEF Numbers

\* The seeds share finitely many entities.
LEMMA CommonIsFinite ==
  ASSUME GraphInv, SearchEntities
  PROVE  IsFiniteSet(common')
<1> DEFINE touched == {m \in mentions : m.unit \in seeds}
<1> DEFINE entity == [m \in touched |-> m.entity]
<1>1. IsFiniteSet(touched)
  BY MemoriesAssumption, FS_Subset DEF GraphInv
<1>2. entity \in Surjection(touched, common')
  BY DEF SearchEntities, Surjection
<1> QED BY ONLY <1>1, <1>2, FS_Surjection

LEMMA KeptStays ==
  ASSUME alive' \subseteq alive, allowed' = allowed, NEW rated, NEW kept, Kept(rated, kept)
  PROVE  Kept(rated, kept)'
BY DEF Kept

LEMMA MergedStays ==
  ASSUME UNCHANGED <<seeds, semRows, causalRows, entRows, allowed, activation>>, Merged
  PROVE  Merged'
<1>1. Rated' = Rated
  BY DEF Rated, BestActivation, Considered, Activations, MaxOverlap
<1> QED BY <1>1 DEF Merged

\* The merge keeps the best of what the rows give.
LEMMA MergeMerges ==
  ASSUME GraphInv, Merge, UNCHANGED memories
  PROVE  Merged'
<1>0. /\ walk = "done" /\ activation' \in Best(Rated, allowed)
      /\ UNCHANGED <<seeds, semRows, causalRows, entRows, allowed>>
  BY DEF Merge, FilteredThenCut, Rated, memories
<1>1. Rated' = Rated
  BY <1>0 DEF Rated, BestActivation, Considered, Activations, MaxOverlap
<1>2. DOMAIN Rated = Considered \intersect Tagged
  BY DEF Rated, Restrict
<1>3. DOMAIN semRows \subseteq Units /\ DOMAIN causalRows \subseteq Units /\ DOMAIN entRows \subseteq Units
  BY <1>0, ScoresAre DEF GraphInv, Kept, Numbers
<1>4. DOMAIN Rated \subseteq Units
  BY <1>2, <1>3 DEF Considered
<1>5. IsFiniteSet(DOMAIN Rated)
  BY <1>4, RankIs, FS_Subset
<1>6. PICK rated : rated = Rated
  OBVIOUS
<1>7. /\ DOMAIN activation' \subseteq DOMAIN rated
      /\ \A u \in DOMAIN activation' : activation'[u] = rated[u]
      /\ Cardinality(DOMAIN activation') <= allowed
      /\ \A u \in DOMAIN rated \ DOMAIN activation' :
           Cardinality(DOMAIN activation') = allowed /\ \A v \in DOMAIN activation' : rated[v] >= rated[u]
  BY <1>0, <1>5, <1>6, BestIs DEF GraphInv
<1> QED BY <1>0, <1>1, <1>6, <1>7 DEF Merged

LEMMA GraphInvInit == Init => GraphInv
<1> SUFFICES ASSUME Init PROVE GraphInv
  OBVIOUS
<1>1. /\ links \in Seq(Links) /\ mentions \in MentionChoices /\ allowed \in Nat /\ alive = Units
      /\ arm = "idle" /\ walk = "idle" /\ fan = "idle" /\ common = {} /\ counted = <<>> /\ entRows = <<>>
  BY MemoriesAssumption DEF Init, MemoriesInit, GraphInit, None
<1>2. IsFiniteSet(common)
  BY <1>1, FS_EmptySet
<1>3. Numbers(counted) /\ Numbers(entRows)
  BY <1>1 DEF Numbers
<1> QED BY <1>1, <1>2, <1>3 DEF GraphInv

\* Every step of the recall keeps what the searches told each other.
LEMMA GraphInvSteps ==
  ASSUME GraphInv, GraphStage, [Next]_vars
  PROVE  GraphInv'
<1>0. /\ UNCHANGED <<links, mentions, allowed, backend>> /\ alive' \subseteq alive
      /\ UNCHANGED graph \/ GraphEntered \/ ((GraphNext \/ WalkFails \/ FanFails) /\ UNCHANGED memories)
  BY GraphSteps
<1>1. UNCHANGED seeds => UNCHANGED <<SemanticScores, CausalScores>>
  BY <1>0 DEF SemanticScores, CausalScores, SemanticLinks, CausalLinks
<1>2. \A rated, kept : Kept(rated, kept) => Kept(rated, kept)'
  BY <1>0, KeptStays
<1>3. CASE UNCHANGED graph
  <2>1. Merged => Merged'
    BY <1>0, <1>3, MergedStays DEF graph
  <2> QED BY <1>0, <1>1, <1>2, <1>3, <2>1 DEF GraphInv, graph, Numbers
<1>4. CASE GraphEntered
  BY <1>0, <1>4 DEF GraphInv, GraphEntered, OtherGraph, Numbers
<1>5. CASE (GraphNext \/ WalkFails \/ FanFails) /\ UNCHANGED memories
  <2>1. CASE SearchSeeds
    BY <1>0, <2>1 DEF GraphInv, SearchSeeds, Numbers
  <2>2. CASE ScanSemantic
    <3>1. semScore' = SemanticScores
      BY <2>2 DEF ScanSemantic, SemanticScores
    <3> QED BY <1>0, <1>1, <2>2, <3>1 DEF GraphInv, ScanSemantic, Numbers
  <2>3. CASE ScanCausal
    <3>1. causalScore' = CausalScores
      BY <2>3 DEF ScanCausal, CausalScores
    <3> QED BY <1>0, <1>1, <2>3, <3>1 DEF GraphInv, ScanCausal, Numbers
  <2>4. CASE HydrateSemantic
    <3>1. Kept(semScore, semRows')
      BY <2>4, ScoresAre, HydratedKept DEF HydrateSemantic, GraphInv
    <3>2. Kept(semScore, semRows)'
      <4>1. PICK kept : kept = semRows'
        OBVIOUS
      <4>2. PICK rated : rated = semScore
        OBVIOUS
      <4>3. Kept(rated, kept)'
        BY <1>2, <3>1, <4>1, <4>2
      <4>4. rated = semScore'
        BY <2>4, <4>2 DEF HydrateSemantic
      <4> QED BY <4>1, <4>3, <4>4 DEF Kept
    <3> QED BY <1>0, <1>1, <2>4, <3>2 DEF GraphInv, HydrateSemantic, Numbers
  <2>5. CASE HydrateCausal
    <3>1. Kept(causalScore, causalRows')
      BY <2>5, ScoresAre, HydratedKept DEF HydrateCausal, GraphInv
    <3>2. Kept(causalScore, causalRows)'
      <4>1. PICK kept : kept = causalRows'
        OBVIOUS
      <4>2. PICK rated : rated = causalScore
        OBVIOUS
      <4>3. Kept(rated, kept)'
        BY <1>2, <3>1, <4>1, <4>2
      <4>4. rated = causalScore'
        BY <2>5, <4>2 DEF HydrateCausal
      <4> QED BY <4>1, <4>3, <4>4 DEF Kept
    <3>3. Kept(semScore, semRows)'
      BY <1>2, <2>5 DEF HydrateCausal, GraphInv, Kept
    <3> QED BY <1>0, <1>1, <2>5, <3>2, <3>3 DEF GraphInv, HydrateCausal, Numbers
  <2>6. CASE SearchEntities
    <3>1. IsFiniteSet(common')
      BY <2>6, CommonIsFinite
    <3>2. Kept(semScore, semRows) => Kept(semScore, semRows)'
      BY <1>2, <2>6 DEF SearchEntities, Kept
    <3>3. Kept(causalScore, causalRows) => Kept(causalScore, causalRows)'
      BY <1>2, <2>6 DEF SearchEntities, Kept
    <3> QED BY <1>0, <1>1, <2>6, <3>1, <3>2, <3>3 DEF GraphInv, SearchEntities, Numbers
  <2>7. CASE SearchFanOut
    <3>1. Numbers(counted')
      BY <2>7, CountsAre
    <3>2. Kept(semScore, semRows) => Kept(semScore, semRows)'
      BY <1>2, <2>7 DEF SearchFanOut, Kept
    <3>3. Kept(causalScore, causalRows) => Kept(causalScore, causalRows)'
      BY <1>2, <2>7 DEF SearchFanOut, Kept
    <3> QED BY <1>0, <1>1, <2>7, <3>1, <3>2, <3>3 DEF GraphInv, SearchFanOut, Numbers
  <2>8. CASE HydrateEntities
    <3>1. Kept(counted, entRows')
      BY <2>8, HydratedKept DEF HydrateEntities, GraphInv, Numbers
    <3>2. Numbers(entRows')
      BY <3>1 DEF GraphInv, Numbers, Kept
    <3>3. Kept(semScore, semRows) => Kept(semScore, semRows)'
      BY <1>2, <2>8 DEF HydrateEntities, Kept
    <3>4. Kept(causalScore, causalRows) => Kept(causalScore, causalRows)'
      BY <1>2, <2>8 DEF HydrateEntities, Kept
    <3> QED BY <1>0, <1>1, <2>8, <3>2, <3>3, <3>4 DEF GraphInv, HydrateEntities, Numbers
  <2>9. CASE Merge
    <3>1. Merged'
      BY <1>5, <2>9, MergeMerges
    <3>2. Kept(semScore, semRows) => Kept(semScore, semRows)'
      BY <1>2, <2>9 DEF Merge, Kept
    <3>3. Kept(causalScore, causalRows) => Kept(causalScore, causalRows)'
      BY <1>2, <2>9 DEF Merge, Kept
    <3> QED BY <1>0, <1>1, <2>9, <3>1, <3>2, <3>3 DEF GraphInv, Merge, Numbers
  <2>10. CASE WalkFails
    BY <1>0, <1>1, <2>10 DEF GraphInv, WalkFails, Numbers
  <2>11. CASE FanFails
    <3>1. Kept(semScore, semRows) => Kept(semScore, semRows)'
      BY <1>2, <2>11 DEF FanFails, Kept
    <3>2. Kept(causalScore, causalRows) => Kept(causalScore, causalRows)'
      BY <1>2, <2>11 DEF FanFails, Kept
    <3> QED BY <1>0, <1>1, <2>11, <3>1, <3>2 DEF GraphInv, FanFails, Numbers
  <2> QED
    BY <1>5, <2>1, <2>2, <2>3, <2>4, <2>5, <2>6, <2>7, <2>8, <2>9, <2>10, <2>11 DEF GraphNext
<1> QED BY <1>0, <1>3, <1>4, <1>5

LEMMA RecallGraphInv == Spec => []GraphInv
<1>1. GraphStage /\ GraphInv /\ [Next]_vars => GraphInv'
  BY GraphInvSteps
<1> QED BY <1>1, GraphInvInit, RecallGraphStage, PTL DEF Spec

\* The activation that a unit is rated with is the greatest of its rows.
LEMMA RatedIs ==
  ASSUME GraphInv, walk = "done", NEW u \in Considered \intersect Tagged
  PROVE  /\ u \in DOMAIN Rated /\ u \in Units /\ Rated[u] \in Nat
         /\ \A kept \in {semRows, causalRows} :
              u \in DOMAIN kept => kept[u] \in Nat /\ Rated[u] >= kept[u]
<1> DEFINE ofLinks == {kept[u] : kept \in {kept \in {semRows, causalRows} : u \in DOMAIN kept}}
<1> DEFINE ofEntities == {(entRows[v] * 1000) \div MaxOverlap : v \in DOMAIN entRows \intersect {u}}
<1>1. /\ \A kept \in {semRows, causalRows} : \A v \in DOMAIN kept : kept[v] \in Nat
      /\ DOMAIN semRows \subseteq Units /\ DOMAIN causalRows \subseteq Units
  BY ScoresAre DEF GraphInv, Kept
<1>2. DOMAIN entRows \subseteq Units /\ \A v \in DOMAIN entRows : entRows[v] \in Nat \ {0}
  BY DEF GraphInv, Numbers
<1>3. MaxOverlap \in Nat \ {0}
  <2>1. CASE DOMAIN entRows = {}
    BY <2>1 DEF MaxOverlap
  <2>2. CASE DOMAIN entRows # {}
    <3> DEFINE numbers == {entRows[v] : v \in DOMAIN entRows}
    <3>1. numbers \in SUBSET Nat /\ numbers # {} /\ 0 \notin numbers
      BY <1>2, <2>2
    <3>2. IsFiniteSet(DOMAIN entRows)
      BY <1>2, RankIs, FS_Subset
    <3>3. IsFiniteSet(numbers)
      <4> DEFINE number == [v \in DOMAIN entRows |-> entRows[v]]
      <4>1. number \in Surjection(DOMAIN entRows, numbers)
        BY DEF Surjection
      <4> QED BY ONLY <3>2, <4>1, FS_Surjection
    <3>4. MaxOverlap = Max(numbers)
      BY <2>2 DEF MaxOverlap
    <3> HIDE DEF numbers
    <3>5. Max(numbers) \in numbers
      BY ONLY <3>1, <3>3, GreatestNumber
    <3> QED BY <3>1, <3>4, <3>5
  <2> QED BY <2>1, <2>2
<1>4. Activations(u) = ofLinks \union ofEntities
  BY DEF Activations
<1>5. IsFiniteSet(ofLinks) /\ ofLinks \in SUBSET Nat
  <2>1. ofLinks \in SUBSET Nat
    BY <1>1
  <2>3. ofLinks \subseteq {semRows[u]} \union {causalRows[u]}
    OBVIOUS
  <2>4. IsFiniteSet({semRows[u]}) /\ IsFiniteSet({causalRows[u]})
    BY FS_Singleton
  <2>5. IsFiniteSet({semRows[u]} \union {causalRows[u]})
    BY ONLY <2>4, FS_Union
  <2> QED BY ONLY <2>1, <2>3, <2>5, FS_Subset
<1>6. IsFiniteSet(ofEntities) /\ ofEntities \in SUBSET Nat
  <2>1. ASSUME NEW v \in DOMAIN entRows PROVE (entRows[v] * 1000) \div MaxOverlap \in Nat
    <3>1. PICK a \in Nat : a = entRows[v]
      BY <1>2
    <3>2. PICK b \in Nat \ {0} : b = MaxOverlap
      BY <1>3
    <3>3. (a * 1000) \div b \in Nat
      OBVIOUS
    <3> QED BY ONLY <3>1, <3>2, <3>3
  <2>2. ofEntities \in SUBSET Nat
    BY <2>1
  <2>3. ofEntities \subseteq {(entRows[u] * 1000) \div MaxOverlap}
    OBVIOUS
  <2>4. IsFiniteSet({(entRows[u] * 1000) \div MaxOverlap})
    BY FS_Singleton
  <2> QED BY ONLY <2>2, <2>3, <2>4, FS_Subset
<1>7. \A kept \in {semRows, causalRows} : u \in DOMAIN kept => kept[u] \in ofLinks
  OBVIOUS
<1>8. u \in DOMAIN entRows => ofEntities # {}
  OBVIOUS
<1> HIDE DEF ofLinks, ofEntities
<1>9. /\ IsFiniteSet(Activations(u)) /\ Activations(u) \in SUBSET Nat
      /\ \A kept \in {semRows, causalRows} : u \in DOMAIN kept => kept[u] \in Activations(u)
      /\ Activations(u) # {}
  <2>1. IsFiniteSet(ofLinks \union ofEntities)
    BY ONLY <1>5, <1>6, FS_Union
  <2>2. Activations(u) # {}
    BY <1>4, <1>7, <1>8 DEF Considered
  <2> QED BY <1>4, <1>5, <1>6, <1>7, <2>1, <2>2
<1>10. Max(Activations(u)) \in Nat /\ \A n \in Activations(u) : n <= Max(Activations(u))
  BY ONLY <1>9, GreatestNumber
<1>11. u \in DOMAIN Rated /\ Rated[u] = Max(Activations(u))
  BY DEF Rated, Restrict, BestActivation
<1>12. u \in Units
  BY <1>1, <1>2 DEF Considered
<1>13. ASSUME NEW kept \in {semRows, causalRows}, u \in DOMAIN kept
       PROVE  kept[u] \in Nat /\ Rated[u] >= kept[u]
  BY <1>9, <1>10, <1>11, <1>13
<1> QED BY <1>10, <1>11, <1>12, <1>13

\* A unit that links join to a seed has a score of one kind or the other that is
\* as strong as its strongest link.
LEMMA StrengthIs ==
  ASSUME links \in Seq(Links), NEW u \in Units \ seeds, Strength(u) # 0
  PROVE  /\ Strength(u) \in Nat
         /\ \/ u \in DOMAIN SemanticScores /\ SemanticScores[u] >= Strength(u)
            \/ u \in DOMAIN CausalScores /\ CausalScores[u] >= Strength(u)
<1> DEFINE found == SemanticLinks(u) \union CausalLinks(u)
<1> DEFINE weights == {0} \union {l.weight : l \in found}
<1>1. found \in SUBSET Links
  BY ScoresAre
<1>2. \A w \in weights : w = 0 \/ \E l \in found : w = l.weight
  OBVIOUS
<1>4. weights # {} /\ Strength(u) = Max(weights)
  BY DEF Strength
<1> HIDE DEF weights, found
<1>3. \A l \in found : l.weight \in 0..1000
  <2>1. \A l \in Links : l.weight \in 0..1000
    BY DEF Links
  <2> QED BY ONLY <1>1, <2>1
<1>5. \A w \in weights : w \in Nat /\ w <= 1000
  <2>1. \A n \in 0..1000 : n \in Nat /\ n <= 1000
    OBVIOUS
  <2>2. 0 \in Nat /\ 0 <= 1000
    OBVIOUS
  <2> QED BY ONLY <1>2, <1>3, <2>1, <2>2
<1>6. weights \in SUBSET Nat /\ IsFiniteSet(weights)
  <2>1. PICK n \in Nat : n = 1000
    OBVIOUS
  <2>2. weights \in SUBSET Nat /\ \A w \in weights : w <= n
    BY <1>5, <2>1
  <2> QED BY ONLY <2>2, n \in Nat, FS_BoundedSetOfNaturals
<1>7. Max(weights) \in weights
  BY ONLY <1>4, <1>6, GreatestNumber
<1>8. PICK l \in found : Strength(u) = l.weight
  BY <1>2, <1>4, <1>7
<1>a. Strength(u) \in Nat
  BY <1>4, <1>6, <1>7
<1>9. CASE l \in SemanticLinks(u)
  <2>1. l.weight <= Strongest(SemanticLinks(u)) /\ Strongest(SemanticLinks(u)) \in Nat
    BY <1>9, ScoresAre, StrongestIs
  <2>2. u \in DOMAIN SemanticScores /\ SemanticScores[u] = Strongest(SemanticLinks(u))
    BY <1>9 DEF SemanticScores
  <2> QED BY <1>8, <1>a, <2>1, <2>2
<1>10. CASE l \in CausalLinks(u)
  <2>1. l.weight <= Strongest(CausalLinks(u)) /\ Strongest(CausalLinks(u)) \in Nat
    BY <1>10, ScoresAre, StrongestIs
  <2>2. u \in DOMAIN CausalScores /\ CausalScores[u] = Strongest(CausalLinks(u))
    BY <1>10 DEF CausalScores
  <2> QED BY <1>8, <1>a, <2>1, <2>2
<1> QED BY <1>9, <1>10 DEF found

\* Rows that have a place for a unit, or gave it to better ones, lead to results
\* that do the same.
LEMMA RowsLead ==
  ASSUME GraphInv, walk = "done", Merged,
         NEW u \in (alive \intersect OfType \intersect Tagged) \ (seeds \union DOMAIN activation),
         NEW s \in Nat, NEW rated, NEW kept \in {semRows, causalRows}, Kept(rated, kept),
         \A v \in DOMAIN rated : rated[v] \in Nat,
         u \in DOMAIN rated, rated[u] >= s, ~Wasted(kept), DOMAIN kept \subseteq Units
  PROVE  Cardinality(DOMAIN activation) = allowed /\ \A v \in DOMAIN activation : activation[v] >= s
<1>0. DOMAIN Rated = Considered \intersect Tagged
  BY DEF Rated, Restrict
<1>a. \A v \in DOMAIN Rated : v \in Units /\ Rated[v] \in Nat
  BY <1>0, RatedIs
<1>1. ASSUME NEW v \in DOMAIN kept, v \in Tagged \ seeds
      PROVE  v \in DOMAIN Rated /\ Rated[v] \in Nat /\ Rated[v] >= kept[v] /\ kept[v] \in Nat
  <2>1. v \in Considered \intersect Tagged
    BY <1>1 DEF Considered
  <2> QED BY <2>1, RatedIs
<1>2. ASSUME NEW w \in DOMAIN Rated \ DOMAIN activation, Rated[w] \in Nat, Rated[w] >= s
      PROVE  Cardinality(DOMAIN activation) = allowed /\ \A v \in DOMAIN activation : activation[v] >= s
  <2>1. Cardinality(DOMAIN activation) = allowed
    BY DEF Merged
  <2>2. ASSUME NEW v \in DOMAIN activation PROVE activation[v] >= s
    <3>1. activation[v] = Rated[v] /\ Rated[v] >= Rated[w] /\ v \in DOMAIN Rated
      BY DEF Merged
    <3>2. Rated[v] \in Nat
      BY <1>a, <3>1
    <3> QED BY <1>2, <3>1, <3>2
  <2> QED BY <2>1, <2>2
<1>3. CASE u \in DOMAIN kept
  BY <1>1, <1>2, <1>3 DEF Kept
<1>4. CASE u \notin DOMAIN kept
  <2>1. Cardinality(DOMAIN kept) = allowed /\ \A v \in DOMAIN kept : kept[v] >= rated[u]
    BY <1>4 DEF Kept
  <2>2. DOMAIN kept \subseteq Tagged \ seeds
    BY <2>1 DEF Wasted
  <2>3. \A v \in DOMAIN kept : v \in DOMAIN Rated /\ Rated[v] \in Nat /\ Rated[v] >= s
    BY <1>1, <2>1, <2>2
  <2>4. CASE DOMAIN kept \subseteq DOMAIN activation
    <3>1. IsFiniteSet(DOMAIN activation)
      <4>1. DOMAIN activation \subseteq Units
        BY <1>a DEF Merged
      <4> QED BY <4>1, RankIs, FS_Subset
    <3>2. DOMAIN kept = DOMAIN activation
      BY <2>1, <2>4, <3>1, FS_Subset, FS_CardinalityType DEF Merged, GraphInv
    <3> QED BY <2>1, <2>3, <3>2 DEF Merged
  <2>5. CASE ~(DOMAIN kept \subseteq DOMAIN activation)
    BY <1>2, <2>3, <2>5
  <2> QED BY <2>4, <2>5
<1> QED BY <1>3, <1>4

\* No unit is left out for a weaker one: if links join it to a seed, it is among
\* the results, or they are as strong and as many as there may be, or an expansion
\* was filled by seeds or by rows that the filters took away.
THEOREM RecallStrongestFound == Spec => []StrongestFound
<1>1. ASSUME GraphInv PROVE StrongestFound
  <2> SUFFICES ASSUME arm = "done", walk = "done", fan # "failed",
                      NEW u \in (alive \intersect OfType \intersect Tagged) \ (seeds \union DOMAIN activation),
                      Strength(u) # 0, ~Wasted(semRows), ~Wasted(causalRows)
               PROVE  /\ Cardinality(DOMAIN activation) = allowed
                      /\ \A v \in DOMAIN activation : activation[v] >= Strength(u)
    BY DEF StrongestFound
  <2>1. /\ links \in Seq(Links) /\ Merged
        /\ Kept(SemanticScores, semRows) /\ Kept(CausalScores, causalRows)
        /\ alive \subseteq Units
    BY <1>1 DEF GraphInv
  <2>2. /\ DOMAIN semRows \subseteq Units /\ DOMAIN causalRows \subseteq Units
        /\ \A v \in DOMAIN SemanticScores : SemanticScores[v] \in Nat
        /\ \A v \in DOMAIN CausalScores : CausalScores[v] \in Nat
    BY <2>1, ScoresAre DEF Kept
  <2>3. u \in Units \ seeds
    BY <2>1
  <2>4. PICK s \in Nat : s = Strength(u)
    BY <2>1, <2>3, StrengthIs
  <2>5. \/ u \in DOMAIN SemanticScores /\ SemanticScores[u] >= s
        \/ u \in DOMAIN CausalScores /\ CausalScores[u] >= s
    BY <2>1, <2>3, <2>4, StrengthIs
  <2>6. CASE u \in DOMAIN SemanticScores /\ SemanticScores[u] >= s
    BY <1>1, <2>1, <2>2, <2>4, <2>6, RowsLead
  <2>7. CASE u \in DOMAIN CausalScores /\ CausalScores[u] >= s
    BY <1>1, <2>1, <2>2, <2>4, <2>7, RowsLead
  <2> QED BY <2>5, <2>6, <2>7
<1> QED BY <1>1, RecallGraphInv, PTL

-----------------------------------------------------------------------------
(* Types *)

\* Scores are natural numbers, whichever dates a unit has.
LEMMA ProximityIs ==
  ASSUME NEW u \in Units, dates \in DateChoices
  PROVE  Proximity(u) \in Nat
<1> DEFINE d == dates[u]
<1> DEFINE off == TwiceBest(d) - (Start + End)
<1> DEFINE dist == IF off < 0 THEN -off ELSE off
<1> DEFINE far == (dist * 1000) \div (End - Start)
<1>1. d \in Dates /\ Start \in Int /\ End \in Int /\ Start <= End
  BY TemporalRetrievalAssumption
<1>2. /\ d.start \in Int \union {NoDate} /\ d.end \in Int \union {NoDate}
      /\ d.mentioned \in Int \union {NoDate}
  BY <1>1 DEF Dates
<1>3. Proximity(u) = IF {d.start, d.end, d.mentioned} = {NoDate} THEN 300
                     ELSE IF End = Start THEN 1000
                     ELSE IF far > 1000 THEN 0 ELSE 1000 - far
  BY DEF Proximity
<1>4. ASSUME {d.start, d.end, d.mentioned} # {NoDate} PROVE TwiceBest(d) \in Int
  <2>1. d.start # NoDate \/ d.end # NoDate \/ d.mentioned # NoDate
    BY <1>4
  <2> HIDE DEF d
  <2> QED BY <1>2, <2>1 DEF TwiceBest
<1> HIDE DEF d
<1>5. ASSUME {d.start, d.end, d.mentioned} # {NoDate}, End # Start PROVE far \in Nat
  <2>1. off \in Int
    BY <1>1, <1>4, <1>5
  <2> HIDE DEF off
  <2>2. PICK n \in Nat : n = dist
    BY <2>1
  <2>3. PICK m \in Nat \ {0} : m = End - Start
    BY <1>1, <1>5
  <2>4. (n * 1000) \div m \in Nat
    OBVIOUS
  <2> QED BY ONLY <2>2, <2>3, <2>4 DEF far
<1> HIDE DEF far
<1> QED BY <1>3, <1>5

LEMMA CombinedIs ==
  ASSUME NEW l \in Links, dates \in DateChoices, \A u \in DOMAIN score : score[u] \in Nat
  PROVE  Combined(l) \in Nat
<1>1. l.to \in Units /\ l.weight \in 0..1000
  BY DEF Links
<1>2. PICK p \in Nat : p = Proximity(l.to)
  BY <1>1, ProximityIs
<1>3. PICK s \in Nat : s = ParentScore(l.from)
  BY DEF ParentScore
<1>4. PICK w \in Nat : w = l.weight
  BY <1>1
<1>5. PICK b \in Nat : b = Boost(l.type)
  BY DEF Boost
<1>6. PICK x \in Nat : x = (s * w) \div 1000
  <2>1. PICK y \in Nat : y = s * w
    OBVIOUS
  <2>2. y \div 1000 \in Nat
    OBVIOUS
  <2> QED BY <2>1, <2>2
<1>7. PICK z \in Nat : z = (x * b * 7) \div 10000
  <2>1. PICK y \in Nat : y = x * b * 7
    OBVIOUS
  <2>2. y \div 10000 \in Nat
    OBVIOUS
  <2> QED BY <2>1, <2>2
<1>8. Combined(l) = IF z > p THEN z ELSE p
  BY <1>2, <1>3, <1>4, <1>5, <1>6, <1>7 DEF Combined
<1> QED BY <1>8

\* what the invariants above do not say of the types
RestType ==
  /\ MemoriesType
  /\ dates \in DateChoices /\ pc \in {"idle", "search", "select", "spread", "hydrate", "take", "done"}
  /\ rows \subseteq Units /\ iteration \in 0..MaxIterations
  /\ \A u \in DOMAIN score : score[u] \in Nat
  /\ GraphType
  /\ stage \in {"batch", "nearest", "worded", "without text", "temporal", "graph", "answered",
               "raised"}
  /\ semantic \subseteq Units /\ bm25 \subseteq Units
  /\ failed \subseteq {"batch", "one by one", "statement", "text", "semantic", "temporal",
                       "expansion", "seeds"}

LEMMA RestTypeInit == Init => RestType
<1> SUFFICES ASSUME Init PROVE RestType
  OBVIOUS
<1>1. MemoriesType
  BY DEF Init, MemoriesInit, MemoriesType
<1>2. GraphType
  BY DEF Init, GraphInit, GraphType, None
<1>3. 0 \in 0..MaxIterations
  BY TemporalRetrievalAssumption
<1> QED BY <1>1, <1>2, <1>3 DEF Init, TemporalInit, RestType

\* The types of the temporal arm.
LEMMA TemporalTypes ==
  ASSUME RestType, FoundInv, StageInv, [Next]_vars
  PROVE  /\ dates' \in DateChoices
         /\ pc' \in {"idle", "search", "select", "spread", "hydrate", "take", "done"}
         /\ rows' \subseteq Units /\ iteration' \in 0..MaxIterations
         /\ \A u \in DOMAIN score' : score'[u] \in Nat
<1> USE DEF memories, temporal, spreading
<1>0. UNCHANGED temporal \/ Entered \/ Left \/ (TemporalNext /\ UNCHANGED memories)
  BY TemporalSteps
<1>1. alive \subseteq Units
  BY DEF FoundInv, SpreadType
<1>a. /\ dates \in DateChoices
      /\ pc \in {"idle", "search", "select", "spread", "hydrate", "take", "done"}
      /\ rows \subseteq Units /\ iteration \in 0..MaxIterations
      /\ \A u \in DOMAIN score : score[u] \in Nat
  BY DEF RestType
<1>b. MaxIterations \in Nat
  BY TemporalRetrievalAssumption
<1>c. iteration \in Nat /\ 0 \in 0..MaxIterations
  BY <1>a, <1>b
<1>d. iteration < MaxIterations => iteration + 1 \in 0..MaxIterations
  BY ONLY <1>b, <1>c
<1>2. CASE UNCHANGED temporal
  BY <1>2, <1>a
<1>3. CASE Entered
  BY <1>3, <1>a DEF Entered
<1>4. CASE Left
  <2>1. score' = <<>> /\ DOMAIN <<>> = {}
    BY <1>4 DEF Left
  <2> QED BY <1>a, <1>c, <1>4, <2>1 DEF Left
<1>5. CASE TemporalNext /\ UNCHANGED memories
  <2>1. CASE FillPool
    BY <1>a, <2>1 DEF FillPool
  <2>2. CASE EnterSelected
    <3>1. \A u \in DOMAIN score' : score'[u] = 1000
      BY <2>2 DEF EnterSelected
    <3>2. \A u \in DOMAIN score' : score'[u] \in Nat
      BY ONLY <3>1
    <3> QED BY <1>a, <2>2, <3>2 DEF EnterSelected
  <2>3. CASE QueryLinks
    <3>1. iteration' = iteration + 1 /\ iteration < MaxIterations
      BY <2>3 DEF QueryLinks, MoreToDo
    <3>2. iteration' \in 0..MaxIterations
      BY <1>d, <3>1
    <3> QED BY <1>a, <2>3, <3>2 DEF QueryLinks
  <2>4. CASE QueryNeighbors
    <3>1. iteration' = iteration + 1 /\ iteration < MaxIterations
      BY <2>4 DEF QueryNeighbors, MoreToDo
    <3>2. iteration' \in 0..MaxIterations
      BY <1>d, <3>1
    <3>3. rows' \subseteq Units
      BY <1>1, <2>4 DEF QueryNeighbors, Joined
    <3> QED BY <1>a, <2>4, <3>2, <3>3 DEF QueryNeighbors
  <2>5. CASE Hydrate
    BY <1>1, <1>a, <2>5 DEF Hydrate
  <2>6. CASE TakeLink \/ TakeRow
    <3>1. UNCHANGED <<dates, pc, rows, iteration>> /\ (UNCHANGED score \/ (hits # <<>> /\ Discover(FirstHit)))
      BY <2>6 DEF TakeLink, TakeRow, SkipLink
    <3>2. ASSUME hits # <<>>, Discover(FirstHit) PROVE \A u \in DOMAIN score' : score'[u] \in Nat
      <4>1. FirstHit \in Links
        <5>1. Head(hits) \in ToSet(hits)
          BY <3>2, TailIs DEF FoundInv, SpreadType
        <5> QED BY <5>1, LenProperties, ElementOfSeq DEF FoundInv, SpreadType, Expanded, LinksOut, FirstHit
      <4>2. Combined(FirstHit) \in Nat
        BY <1>a, <4>1, CombinedIs
      <4>3. CASE UNCHANGED score
        BY <1>a, <4>3
      <4>4. CASE score' = [u \in DOMAIN score \union {FirstHit.to} |->
                            IF u = FirstHit.to THEN Combined(FirstHit) ELSE score[u]]
        BY <1>a, <4>2, <4>4
      <4> QED BY <3>2, <4>3, <4>4 DEF Discover
    <3> QED BY <1>a, <3>1, <3>2
  <2>7. CASE EndRound
    BY <1>a, <2>7 DEF EndRound
  <2>8. CASE Finish
    BY <1>a, <2>8 DEF Finish
  <2> QED
    BY <1>5, <2>1, <2>2, <2>3, <2>4, <2>5, <2>6, <2>7, <2>8
    DEF TemporalNext, SearchPool, QueryPool, SelectEntries, SelectRows
<1> QED BY <1>0, <1>2, <1>3, <1>4, <1>5

\* scores that are numbers stay so when rows are cut
Scores(rated) == DOMAIN rated \subseteq Units /\ \A u \in DOMAIN rated : rated[u] \in Nat

\* Rows that are cut keep their scores.
LEMMA CutScores ==
  ASSUME NEW rated, Scores(rated), allowed \in Nat, NEW kept \in Best(Hydrated(rated), allowed)
  PROVE  Scores(kept)
BY HydratedKept DEF Kept, Scores

\* The types of the graph arm.
LEMMA GraphTypes ==
  ASSUME RestType, FoundInv, GraphInv, GraphStage, [Next]_vars
  PROVE  GraphType'
<1>0. /\ UNCHANGED <<links, mentions, allowed, backend>>
      /\ UNCHANGED graph \/ GraphEntered \/ ((GraphNext \/ WalkFails \/ FanFails) /\ UNCHANGED memories)
  BY GraphSteps
<1>1. /\ arm \in {"idle", "search", "expand", "done"}
      /\ walk \in {"idle", "semantic", "causal", "rowsSemantic", "rowsCausal", "done", "failed"}
      /\ fan \in {"idle", "entities", "fanout", "rows", "done", "failed"}
      /\ seeds \subseteq OfType
      /\ Scores(semScore) /\ Scores(causalScore) /\ Scores(semRows) /\ Scores(causalRows)
      /\ Scores(counted) /\ Scores(entRows) /\ Scores(activation)
      /\ allowed \in Nat /\ links \in Seq(Links)
  BY DEF RestType, GraphType, Scores, GraphInv
<1>2. SUFFICES
        /\ arm' \in {"idle", "search", "expand", "done"}
        /\ walk' \in {"idle", "semantic", "causal", "rowsSemantic", "rowsCausal", "done", "failed"}
        /\ fan' \in {"idle", "entities", "fanout", "rows", "done", "failed"}
        /\ seeds' \subseteq OfType
        /\ Scores(semScore') /\ Scores(causalScore') /\ Scores(semRows') /\ Scores(causalRows')
        /\ Scores(counted') /\ Scores(entRows') /\ Scores(activation')
  BY DEF GraphType, Scores
<1>3. CASE UNCHANGED graph
  BY <1>1, <1>3 DEF graph
<1>4. CASE GraphEntered
  BY <1>1, <1>4 DEF GraphEntered, OtherGraph
<1>5. CASE (GraphNext \/ WalkFails \/ FanFails) /\ UNCHANGED memories
  <2>1. CASE SearchSeeds
    <3>1. seeds' \subseteq OfType
      BY <2>1 DEF SearchSeeds, MostSimilar, Filtered
    <3> QED BY <1>1, <2>1, <3>1 DEF SearchSeeds
  <2>2. CASE ScanSemantic
    <3>1. semScore' = SemanticScores
      BY <2>2 DEF ScanSemantic, SemanticScores
    <3>2. Scores(semScore')
      BY <1>1, <3>1, ScoresAre DEF Scores
    <3> QED BY <1>1, <2>2, <3>2 DEF ScanSemantic
  <2>3. CASE ScanCausal
    <3>1. causalScore' = CausalScores
      BY <2>3 DEF ScanCausal, CausalScores
    <3>2. Scores(causalScore')
      BY <1>1, <3>1, ScoresAre DEF Scores
    <3> QED BY <1>1, <2>3, <3>2 DEF ScanCausal
  <2>4. CASE HydrateSemantic
    <3>1. Scores(semRows')
      BY <1>1, <2>4, CutScores DEF HydrateSemantic
    <3> QED BY <1>1, <2>4, <3>1 DEF HydrateSemantic
  <2>5. CASE HydrateCausal
    <3>1. Scores(causalRows')
      BY <1>1, <2>5, CutScores DEF HydrateCausal
    <3> QED BY <1>1, <2>5, <3>1 DEF HydrateCausal
  <2>6. CASE SearchEntities
    BY <1>1, <2>6 DEF SearchEntities
  <2>7. CASE SearchFanOut
    <3>1. Scores(counted')
      BY <2>7, CountsAre DEF Numbers, Scores
    <3> QED BY <1>1, <2>7, <3>1 DEF SearchFanOut
  <2>8. CASE HydrateEntities
    <3>1. Scores(entRows')
      BY <1>1, <2>8, CutScores DEF HydrateEntities
    <3> QED BY <1>1, <2>8, <3>1 DEF HydrateEntities
  <2>9. CASE Merge
    <3>1. Merged' /\ UNCHANGED <<seeds, semRows, causalRows, entRows>> /\ walk = "done"
      BY <1>5, <2>9, MergeMerges DEF Merge
    <3>2. Rated' = Rated
      BY <3>1 DEF Rated, BestActivation, Considered, Activations, MaxOverlap
    <3>3. DOMAIN Rated = Considered \intersect Tagged
      BY DEF Rated, Restrict
    <3>4. \A u \in DOMAIN Rated : u \in Units /\ Rated[u] \in Nat
      BY <3>1, <3>3, RatedIs
    <3>5. Scores(activation')
      BY <3>1, <3>2, <3>4 DEF Merged, Scores
    <3> QED BY <1>1, <2>9, <3>5 DEF Merge
  <2>10. CASE WalkFails
    BY <1>1, <2>10 DEF WalkFails
  <2>11. CASE FanFails
    BY <1>1, <2>11 DEF FanFails
  <2> QED
    BY <1>5, <2>1, <2>2, <2>3, <2>4, <2>5, <2>6, <2>7, <2>8, <2>9, <2>10, <2>11 DEF GraphNext
<1> QED BY <1>0, <1>3, <1>4, <1>5

LEMMA RestTypeSteps ==
  ASSUME RestType, FoundInv, StageInv, GraphInv, GraphStage, [Next]_vars
  PROVE  RestType'
<1>1. /\ UNCHANGED <<links, mentions, allowed, backend>> /\ alive' \subseteq alive
  BY TemporalSteps
<1>2. MemoriesType'
  BY <1>1 DEF RestType, MemoriesType
<1>3. alive \intersect Filtered \subseteq Units
  BY DEF RestType, MemoriesType
<1>4. Nearest \subseteq Units /\ BestWorded \subseteq Units
  BY <1>3 DEF Nearest, BestWorded, MostSimilar
<1>5. /\ stage' \in {"batch", "nearest", "worded", "without text", "temporal", "graph", "answered",
                    "raised"}
      /\ semantic' \subseteq Units /\ bm25' \subseteq Units
      /\ failed' \subseteq {"batch", "one by one", "statement", "text", "semantic", "temporal",
                            "expansion", "seeds"}
  <2>0. /\ stage \in {"batch", "nearest", "worded", "without text", "temporal", "graph", "answered",
                      "raised"}
        /\ semantic \subseteq Units /\ bm25 \subseteq Units
        /\ failed \subseteq {"batch", "one by one", "statement", "text", "semantic", "temporal",
                             "expansion", "seeds"}
    BY DEF RestType
  <2>1. CASE SearchBatch \/ QueryArms
    BY <1>4, <2>0, <2>1 DEF SearchBatch, QueryArms, Proceed
  <2>2. CASE SearchWorded
    BY <1>4, <2>0, <2>2 DEF SearchWorded, Proceed
  <2>3. CASE QuerySemantic
    BY <1>4, <2>0, <2>3 DEF QuerySemantic, Proceed
  <2>4. CASE SearchNearest
    BY <1>4, <2>0, <2>4 DEF SearchNearest
  <2>5. CASE BatchFails \/ TextFails
    BY <2>0, <2>5 DEF BatchFails, TextFails, May
  <2>6. CASE SpreadEnds
    BY <2>0, <2>6 DEF SpreadEnds
  <2>7. CASE ExpandFails
    BY <2>0, <2>7 DEF ExpandFails, May
  <2>8. CASE Answer
    BY <2>0, <2>8 DEF Answer
  <2>9. CASE OtherFails
    <3>1. PICK cause \in {"one by one", "temporal", "seeds", "statement", "semantic"} :
            stage' = "raised" /\ failed' = failed \union {cause} /\ UNCHANGED <<semantic, bm25>>
      BY <2>9 DEF OtherFails, Raises, May
    <3> QED BY <2>0, <3>1
  <2>10. CASE Spread \/ Expand \/ Delete \/ UNCHANGED vars
    BY <2>0, <2>10 DEF Spread, Expand, Delete, vars, recall
  <2> QED
    BY <2>1, <2>2, <2>3, <2>4, <2>5, <2>6, <2>7, <2>8, <2>9, <2>10 DEF Next
<1>6. GraphType'
  BY GraphTypes
<1> QED BY <1>2, <1>5, <1>6, TemporalTypes DEF RestType

\* These invariants are the type of the recall, and more.
LEMMA TypeIs == ASSUME FoundInv, RestType PROVE TypeOK
<1>1. /\ entries \in Seq(Units) /\ frontier \in Seq(Units) /\ results \in Seq(Units)
      /\ hits \in Seq(Positions) /\ pool \subseteq Units
  BY DEF FoundInv, SpreadType
<1>2. ASSUME NEW S, NEW s \in Seq(S) PROVE ToSet(s) \subseteq S
  BY LenProperties, ElementOfSeq DEF ToSet
<1>3. /\ ToSet(entries) \subseteq Units /\ ToSet(frontier) \subseteq Units
      /\ ToSet(results) \subseteq Units /\ ToSet(hits) \subseteq DOMAIN links
  BY <1>1, <1>2 DEF Positions
<1>4. visited = ToSet(results) /\ ToSet(frontier) \subseteq DOMAIN score /\ DOMAIN score \subseteq visited
  BY DEF FoundInv, Counts, Expanded
<1>5. budget \in Int
  BY LenProperties DEF FoundInv, SpreadType, Counts
<1>6. TemporalType
  BY <1>1, <1>3, <1>4, <1>5 DEF RestType, TemporalType
<1> QED BY <1>6 DEF RestType, TypeOK

\* Type correctness of the recall and of its arms.
THEOREM RecallType == Spec => []TypeOK
<1>1. StageInv /\ FoundInv /\ GraphStage /\ GraphInv /\ RestType /\ [Next]_vars => RestType'
  BY RestTypeSteps
<1> QED
  BY <1>1, TypeIs, RestTypeInit, RecallStageInv, RecallFoundInv, RecallGraphStage, RecallGraphInv, PTL
  DEF Spec

-----------------------------------------------------------------------------
(* The neighbours in time                                                  *)

\* the facts that a scan of f may find
Beside(f, way) == {g \in Facts : Comparable(f, g) /\ OnSide(f, g, way)}

\* rows for f, by their closeness
RowsFit(rated, f) ==
  \A r \in DOMAIN rated :
    /\ r \in Facts \X Ways /\ r[1] \in Beside(f, r[2])
    /\ rated[r] = Closeness(f, r)

\* no fact beside f that was there throughout is left out for one farther away
NoneCloser(rated, f, way) ==
  \A g \in (facts \ Arriving) \intersect Beside(f, way) :
    <<g, way>> \notin DOMAIN rated =>
      /\ Cardinality(DOMAIN rated) = half
      /\ \A r \in DOMAIN rated : rated[r] >= Closeness(f, <<g, way>>)

Other(way) == IF way = "backward" THEN "forward" ELSE "backward"

\* what the first scan of a fact has found is kept for the second one, and
\* what both have found is told
NearInv ==
  /\ facts \subseteq Facts /\ half \in HalfLimits \union {0}
  /\ lateral \subseteq NewFacts /\ asked \subseteq NewFacts \X Ways
  /\ DOMAIN scanned = NewFacts /\ DOMAIN neighbours = NewFacts
  /\ \A f \in NewFacts :
       /\ RowsFit(scanned[f], f) /\ RowsFit(neighbours[f], f)
       /\ \A way \in Ways : <<f, way>> \notin asked /\ <<f, Other(way)>> \in asked =>
            NoneCloser(scanned[f], f, way) /\ \A r \in DOMAIN scanned[f] : r[2] = way
       /\ Sought(f) \/ neighbours[f] # None => \A way \in Ways : NoneCloser(neighbours[f], f, way)

LEMMA ClosenessIs ==
  ASSUME NEW f \in NewFacts, NEW way \in Ways, NEW g \in Beside(f, way)
  PROVE  /\ Gap(f, g) \in Nat /\ Closeness(f, <<g, way>>) \in Int
         /\ Closeness(f, <<g, way>>) = -(2 * Gap(f, g) + (IF way = "forward" THEN 1 ELSE 0))
<1>1. EventDate[f] \in Int /\ EventDate[g] \in Int
  BY LookupsAssumption DEF Beside, Comparable
<1>2. Gap(f, g) \in Nat
  BY <1>1 DEF Gap
<1>3. Closeness(f, <<g, way>>) = -(2 * Gap(f, g) + (IF way = "forward" THEN 1 ELSE 0))
  BY DEF Closeness
<1> QED BY <1>2, <1>3

LEMMA RowsAreFinite == IsFiniteSet(Facts \X Ways) /\ \A S \in SUBSET (Facts \X Ways) : IsFiniteSet(S)
<1>1. IsFiniteSet(Ways)
  <2>1. IsFiniteSet({"backward"})
    BY FS_Singleton
  <2>2. Ways = {"backward"} \union {"forward"}
    BY DEF Ways
  <2> QED BY <2>1, <2>2, FS_AddElement
<1>2. IsFiniteSet(Facts \X Ways)
  BY <1>1, LookupsAssumption, FS_Product
<1> QED BY <1>2, FS_Subset

\* What one scan of a fact answers.
LEMMA ScanAnswers ==
  ASSUME NearInv, NEW f \in NewFacts, NEW way \in Ways,
         NEW answer \in Best(ByCloseness(f, InReach(f, way)), half)
  PROVE  /\ IsFiniteSet(DOMAIN answer) /\ \A r \in DOMAIN answer : r[2] = way
         /\ RowsFit(answer, f) /\ NoneCloser(answer, f, way)
<1> DEFINE rated == ByCloseness(f, InReach(f, way))
<1>1. half \in Nat /\ facts \subseteq Facts
  <2>1. half \in HalfLimits \union {0} /\ facts \subseteq Facts
    BY DEF NearInv
  <2> QED BY <2>1, LookupsAssumption
<1>2. InReach(f, way) = (facts \intersect Beside(f, way)) \X {way}
  BY <1>1 DEF InReach, Beside
<1>3. IsFiniteSet(InReach(f, way))
  <2>1. IsFiniteSet(facts \intersect Beside(f, way))
    BY <1>1, LookupsAssumption, FS_Subset
  <2>2. IsFiniteSet({way})
    BY FS_Singleton
  <2> QED BY <1>2, <2>1, <2>2, FS_Product
<1>4. DOMAIN rated = InReach(f, way) /\ \A r \in InReach(f, way) : rated[r] = Closeness(f, r)
  BY DEF ByCloseness
<1>5. answer \in Best(rated, half)
  OBVIOUS
<1> HIDE DEF rated
<1>6. /\ DOMAIN answer \subseteq InReach(f, way)
      /\ \A u \in DOMAIN answer : answer[u] = rated[u]
      /\ \A u \in InReach(f, way) \ DOMAIN answer :
           Cardinality(DOMAIN answer) = half /\ \A v \in DOMAIN answer : rated[v] >= rated[u]
  BY <1>1, <1>3, <1>4, <1>5, BestIs
<1>7. IsFiniteSet(DOMAIN answer)
  BY <1>3, <1>6, FS_Subset
<1>8. \A r \in DOMAIN answer : /\ r \in Facts \X Ways /\ r[2] = way /\ r[1] \in Beside(f, way)
                               /\ answer[r] = Closeness(f, r)
  BY <1>1, <1>2, <1>4, <1>6
<1>9. NoneCloser(answer, f, way)
  <2> SUFFICES ASSUME NEW g \in (facts \ Arriving) \intersect Beside(f, way),
                      <<g, way>> \notin DOMAIN answer
               PROVE  /\ Cardinality(DOMAIN answer) = half
                      /\ \A r \in DOMAIN answer : answer[r] >= Closeness(f, <<g, way>>)
    BY DEF NoneCloser
  <2>1. <<g, way>> \in InReach(f, way)
    BY <1>2
  <2> QED BY <1>4, <1>6, <2>1
<1> QED BY <1>7, <1>8, <1>9 DEF RowsFit

\* Rows of both ways, sorted together and cut again.
LEMMA BothAnswers ==
  ASSUME NearInv, NEW f \in NewFacts, NEW way \in Ways, NEW first, NEW second,
         IsFiniteSet(DOMAIN first), IsFiniteSet(DOMAIN second),
         RowsFit(first, f), NoneCloser(first, f, Other(way)), \A r \in DOMAIN first : r[2] = Other(way),
         RowsFit(second, f), NoneCloser(second, f, way), \A r \in DOMAIN second : r[2] = way,
         NEW both \in Best(ByCloseness(f, DOMAIN first \union DOMAIN second), half)
  PROVE  RowsFit(both, f) /\ \A w \in Ways : NoneCloser(both, f, w)
<1> DEFINE rated == ByCloseness(f, DOMAIN first \union DOMAIN second)
<1>1. /\ DOMAIN rated = DOMAIN first \union DOMAIN second
      /\ \A r \in DOMAIN rated : rated[r] = Closeness(f, r) /\ r \in Facts \X Ways /\ r[1] \in Beside(f, r[2])
  BY DEF RowsFit, ByCloseness
<1>2. both \in Best(rated, half)
  OBVIOUS
<1> HIDE DEF rated
<1>3. IsFiniteSet(DOMAIN rated) /\ half \in Nat
  <2>1. IsFiniteSet(DOMAIN rated)
    BY <1>1, FS_Union
  <2> QED BY <2>1, LookupsAssumption DEF NearInv
<1>4. /\ DOMAIN both \subseteq DOMAIN rated
      /\ \A u \in DOMAIN both : both[u] = rated[u]
      /\ \A u \in DOMAIN rated \ DOMAIN both :
           Cardinality(DOMAIN both) = half /\ \A v \in DOMAIN both : rated[v] >= rated[u]
      /\ Cardinality(DOMAIN both) <= half
  BY <1>2, <1>3, BestIs
<1>5. \A r \in DOMAIN rated : rated[r] \in Int
  <2> SUFFICES ASSUME NEW r \in DOMAIN rated PROVE rated[r] \in Int
    OBVIOUS
  <2>1. r = <<r[1], r[2]>> /\ r[2] \in Ways /\ r[1] \in Beside(f, r[2])
    BY <1>1
  <2> QED BY <1>1, <2>1, ClosenessIs
<1>6. ASSUME NEW w \in Ways, NEW part, part \in {first, second}, NoneCloser(part, f, w),
             RowsFit(part, f), IsFiniteSet(DOMAIN part), \A r \in DOMAIN part : r[2] = w,
             DOMAIN part \subseteq DOMAIN rated,
             NEW g \in (facts \ Arriving) \intersect Beside(f, w), <<g, w>> \notin DOMAIN both
      PROVE  /\ Cardinality(DOMAIN both) = half
             /\ \A r \in DOMAIN both : both[r] >= Closeness(f, <<g, w>>)
  <2> DEFINE c == Closeness(f, <<g, w>>)
  <2>0. c \in Int
    BY ClosenessIs
  <2>1. CASE <<g, w>> \in DOMAIN rated
    BY <1>1, <1>4, <1>6, <2>1
  <2>2. CASE <<g, w>> \notin DOMAIN rated
    <3>1. Cardinality(DOMAIN part) = half /\ \A r \in DOMAIN part : part[r] >= c
      BY <1>6, <2>2 DEF NoneCloser
    <3>2. \A r \in DOMAIN part : rated[r] >= c
      BY <1>1, <1>6, <3>1 DEF RowsFit
    <3>3. IsFiniteSet(DOMAIN both)
      BY <1>3, <1>4, FS_Subset
    <3>4. CASE DOMAIN part \subseteq DOMAIN both
      <4>1. Cardinality(DOMAIN both) >= half
        BY <1>3, <1>6, <3>1, <3>3, <3>4, FS_Subset, FS_CardinalityType
      <4>2. Cardinality(DOMAIN both) = half
        BY <1>3, <1>4, <3>3, <4>1, FS_CardinalityType
      <4>3. DOMAIN part = DOMAIN both
        BY <3>1, <3>3, <3>4, <4>2, FS_Subset
      <4> QED BY <1>4, <3>2, <4>2, <4>3
    <3>5. CASE ~(DOMAIN part \subseteq DOMAIN both)
      <4>1. PICK r \in DOMAIN part : r \notin DOMAIN both
        BY <3>5
      <4>2. Cardinality(DOMAIN both) = half /\ \A v \in DOMAIN both : rated[v] >= rated[r]
        BY <1>4, <1>6, <4>1
      <4>3. \A v \in DOMAIN both : rated[v] \in Int /\ rated[v] >= rated[r] /\ rated[r] >= c /\ rated[r] \in Int
        BY <1>4, <1>5, <1>6, <3>2, <4>1, <4>2
      <4> HIDE DEF c
      <4>4. \A v \in DOMAIN both : both[v] >= c
        BY <1>4, <2>0, <4>3
      <4> QED BY <4>2, <4>4 DEF c
    <3> QED BY <3>4, <3>5
  <2> QED BY <2>1, <2>2
<1>7. RowsFit(both, f)
  BY <1>1, <1>4 DEF RowsFit
<1>8. ASSUME NEW w \in Ways PROVE NoneCloser(both, f, w)
  <2>1. w = way \/ w = Other(way)
    BY DEF Ways, Other
  <2>2. CASE w = way
    BY <1>1, <1>6, <2>2 DEF NoneCloser
  <2>3. CASE w = Other(way)
    BY <1>1, <1>6, <2>3 DEF NoneCloser
  <2> QED BY <2>1, <2>2, <2>3
<1> QED BY <1>7, <1>8
\* Facts that come or go leave what was found as good as it was.
LEMMA FactsComeAndGo ==
  ASSUME NearInv, facts' \subseteq Facts, facts' \subseteq facts \union Arriving,
         UNCHANGED <<step, half, lateral, asked, scanned, neighbours>>
  PROVE  NearInv'
<1>1. facts' \ Arriving \subseteq facts \ Arriving
  OBVIOUS
<1>2. ASSUME NEW f, NEW rated, NEW way, NoneCloser(rated, f, way)
      PROVE  NoneCloser(rated, f, way)'
  BY <1>1, <1>2 DEF NoneCloser
<1>3. \A f \in NewFacts : Sought(f)' => Sought(f)
  BY LookupsAssumption DEF Sought
<1>4. ASSUME NEW f \in NewFacts
      PROVE  /\ (RowsFit(scanned[f], f) /\ RowsFit(neighbours[f], f))'
             /\ \A way \in Ways : <<f, way>> \notin asked' /\ <<f, Other(way)>> \in asked' =>
                  NoneCloser(scanned[f], f, way)' /\ \A r \in DOMAIN scanned'[f] : r[2] = way
             /\ (Sought(f) \/ neighbours[f] # None)' => \A way \in Ways : NoneCloser(neighbours[f], f, way)'
  <2>1. RowsFit(scanned[f], f)' /\ RowsFit(neighbours[f], f)'
    BY <1>4 DEF NearInv, RowsFit
  <2>2. ASSUME NEW way \in Ways, <<f, way>> \notin asked', <<f, Other(way)>> \in asked'
        PROVE  NoneCloser(scanned[f], f, way)' /\ \A r \in DOMAIN scanned'[f] : r[2] = way
    <3>1. NoneCloser(scanned[f], f, way) /\ \A r \in DOMAIN scanned[f] : r[2] = way
      BY <2>2 DEF NearInv
    <3> QED BY <1>2, <3>1
  <2>3. ASSUME (Sought(f) \/ neighbours[f] # None)', NEW way \in Ways
        PROVE  NoneCloser(neighbours[f], f, way)'
    <3>1. NoneCloser(neighbours[f], f, way)
      BY <1>3, <2>3 DEF NearInv
    <3> QED BY <1>2, <3>1
  <2> QED BY <2>1, <2>2, <2>3
<1> QED BY <1>4 DEF NearInv

\* Every step of the search for neighbours keeps what was found as good.
LEMMA NearSteps ==
  ASSUME NearInv,
         \/ FetchDates \/ NextBatch \/ (\E f \in NewFacts, way \in Ways : Scan(f, way)) \/ ChangeFacts
  PROVE  NearInv'
<1>1. CASE FetchDates
  <2>1. /\ lateral' = NewFacts \intersect facts /\ UNCHANGED <<facts, half, asked, scanned, neighbours>>
        /\ step = "dates"
    BY <1>1 DEF FetchDates
  <2>2. ASSUME NEW f \in NewFacts PROVE ~Sought(f)'
    BY <2>1 DEF Sought
  <2> QED BY <2>1, <2>2 DEF NearInv, NoneCloser, RowsFit
<1>2. CASE NextBatch
  <2>1. PICK batch \in SUBSET lateral : asked' = batch \X Ways /\ lateral' = lateral \ batch
    BY <1>2 DEF NextBatch
  <2>2. asked = {} /\ step = "batch" /\ UNCHANGED <<step, facts, half, scanned, neighbours>>
    BY <1>2 DEF NextBatch
  <2>3. ASSUME NEW f \in NewFacts, Sought(f)' PROVE Sought(f)
    <3>1. f \notin batch
      <4>1. <<f, "forward">> \notin asked'
        BY <2>3 DEF Sought, Ways
      <4> QED BY <2>1, <4>1 DEF Ways
    <3> QED BY <2>1, <2>2, <2>3, <3>1 DEF Sought
  <2>4. ASSUME NEW f \in NewFacts, NEW way \in Ways, <<f, Other(way)>> \in asked'
        PROVE  <<f, way>> \in asked'
    BY <2>1, <2>4
  <2>5. lateral' \subseteq NewFacts /\ asked' \subseteq NewFacts \X Ways
    BY <2>1 DEF NearInv
  <2> QED BY <2>2, <2>3, <2>4, <2>5 DEF NearInv, NoneCloser, RowsFit
<1>3. ASSUME NEW f \in NewFacts, NEW way \in Ways, Scan(f, way) PROVE NearInv'
  <2>1. /\ <<f, way>> \in asked /\ asked' = asked \ {<<f, way>>}
        /\ UNCHANGED <<step, facts, half, lateral>>
    BY <1>3 DEF Scan
  <2>2. PICK answer \in Best(ByCloseness(f, InReach(f, way)), half) :
          IF {f} \X Ways \intersect asked' # {}
            THEN scanned' = [scanned EXCEPT ![f] = answer] /\ UNCHANGED neighbours
            ELSE /\ scanned' = [scanned EXCEPT ![f] = None]
                 /\ \E both \in Best(ByCloseness(f, DOMAIN scanned[f] \union DOMAIN answer), half) :
                      neighbours' = [neighbours EXCEPT ![f] = both]
    BY <1>3 DEF Scan
  <2>3. /\ IsFiniteSet(DOMAIN answer) /\ \A r \in DOMAIN answer : r[2] = way
        /\ RowsFit(answer, f) /\ NoneCloser(answer, f, way)
    BY ScanAnswers
  <2>4. asked' \subseteq NewFacts \X Ways
    BY <2>1 DEF NearInv
  <2>5. ASSUME NEW g \in NewFacts, g # f
        PROVE  /\ \A w \in Ways : <<g, w>> \in asked' <=> <<g, w>> \in asked
               /\ Sought(g)' => Sought(g)
    <3>1. \A w : <<g, w>> \in asked' <=> <<g, w>> \in asked
      BY <2>1, <2>5
    <3>2. {g} \X Ways \intersect asked' = {} => {g} \X Ways \intersect asked = {}
      BY <3>1
    <3> QED BY <2>1, <3>1, <3>2 DEF Sought
  <2>6. CASE {f} \X Ways \intersect asked' # {}
    <3>1. scanned' = [scanned EXCEPT ![f] = answer] /\ neighbours' = neighbours
      BY <2>2, <2>6
    <3>2. ~Sought(f)'
      BY <2>6 DEF Sought
    <3>3. \A w \in Ways : <<f, w>> \notin asked' /\ <<f, Other(w)>> \in asked' => w = way
      BY <2>1 DEF Ways, Other
    <3>4. DOMAIN scanned = NewFacts /\ scanned'[f] = answer /\ DOMAIN scanned' = NewFacts
          /\ \A g \in NewFacts : g # f => scanned'[g] = scanned[g]
      BY <3>1 DEF NearInv
    <3> QED
      BY <2>1, <2>3, <2>4, <2>5, <3>1, <3>2, <3>3, <3>4 DEF NearInv, NoneCloser, RowsFit
  <2>7. CASE {f} \X Ways \intersect asked' = {}
    <3>1. PICK both \in Best(ByCloseness(f, DOMAIN scanned[f] \union DOMAIN answer), half) :
            neighbours' = [neighbours EXCEPT ![f] = both] /\ scanned' = [scanned EXCEPT ![f] = None]
      BY <2>2, <2>7
    <3>2. <<f, Other(way)>> \notin asked
      <4>1. <<f, Other(way)>> \in {f} \X Ways /\ Other(way) # way
        BY DEF Ways, Other
      <4> QED BY <2>1, <2>7, <4>1
    <3>3. \A w \in Ways : <<f, w>> \notin asked'
      BY <2>7
    <3>4. /\ NoneCloser(scanned[f], f, Other(way)) /\ RowsFit(scanned[f], f)
          /\ \A r \in DOMAIN scanned[f] : r[2] = Other(way)
      <4>1. Other(way) \in Ways /\ Other(Other(way)) = way
        BY DEF Ways, Other
      <4> QED BY <2>1, <3>2, <4>1 DEF NearInv
    <3>5. IsFiniteSet(DOMAIN scanned[f])
      <4>1. DOMAIN scanned[f] \subseteq Facts \X Ways
        BY <3>4 DEF RowsFit
      <4> QED BY <4>1, RowsAreFinite
    <3>6. RowsFit(both, f) /\ \A w \in Ways : NoneCloser(both, f, w)
      BY <2>3, <3>4, <3>5, BothAnswers
    <3>7. /\ DOMAIN neighbours' = NewFacts /\ neighbours'[f] = both
          /\ \A g \in NewFacts : g # f => neighbours'[g] = neighbours[g]
          /\ DOMAIN scanned' = NewFacts /\ scanned'[f] = None
          /\ \A g \in NewFacts : g # f => scanned'[g] = scanned[g]
      BY <3>1 DEF NearInv
    <3>8. DOMAIN None = {}
      BY DEF None
    <3> QED
      BY <2>1, <2>4, <2>5, <3>3, <3>6, <3>7, <3>8 DEF NearInv, NoneCloser, RowsFit
  <2> QED BY <2>6, <2>7
<1>4. CASE ChangeFacts
  <2>1. PICK f \in Facts : InsertFact(f) \/ DeleteFact(f)
    BY <1>4 DEF ChangeFacts
  <2>2. facts' \subseteq Facts /\ facts' \subseteq facts \union Arriving
    BY <2>1 DEF InsertFact, DeleteFact, NearInv
  <2> QED BY <1>4, <2>2, FactsComeAndGo DEF ChangeFacts
<1> QED BY <1>1, <1>2, <1>3, <1>4

\* The rows of both ways are of different facts.
LEMMA RowsOfFacts ==
  ASSUME NEW f \in NewFacts, NEW rated, RowsFit(rated, f)
  PROVE  Cardinality({r[1] : r \in DOMAIN rated}) = Cardinality(DOMAIN rated)
<1> DEFINE near == {r[1] : r \in DOMAIN rated}
           first == [r \in DOMAIN rated |-> r[1]]
<1>1. DOMAIN rated \in SUBSET (Facts \X Ways)
  BY DEF RowsFit
<1>2. ASSUME NEW r \in DOMAIN rated, NEW q \in DOMAIN rated, r[1] = q[1] PROVE r = q
  <2>1. /\ r = <<r[1], r[2]>> /\ q = <<q[1], q[2]>> /\ r[2] \in Ways /\ q[2] \in Ways
        /\ OnSide(f, r[1], r[2]) /\ OnSide(f, r[1], q[2]) /\ Comparable(f, r[1]) /\ r[1] \in Facts
    BY <1>1, <1>2 DEF RowsFit, Beside
  <2>2. EventDate[f] \in Int /\ EventDate[r[1]] \in Int
    BY <2>1, LookupsAssumption DEF Comparable
  <2>3. r[2] = q[2]
    BY <2>1, <2>2 DEF OnSide, Ways
  <2> QED BY <1>2, <2>1, <2>3
<1>3. first \in Bijection(DOMAIN rated, near)
  <2>1. first \in [DOMAIN rated -> near] /\ \A r \in DOMAIN rated : first[r] = r[1]
    OBVIOUS
  <2>2. \A n \in near : \E r \in DOMAIN rated : n = r[1]
    OBVIOUS
  <2> HIDE DEF first, near
  <2>3. \A r, q \in DOMAIN rated : first[r] = first[q] => r = q
    BY <1>2, <2>1
  <2>4. \A n \in near : \E r \in DOMAIN rated : first[r] = n
    BY <2>1, <2>2
  <2> QED BY <2>1, <2>3, <2>4 DEF Bijection, Injection, Surjection, IsInjective
<1>4. ExistsBijection(DOMAIN rated, near)
  BY <1>3 DEF ExistsBijection
<1>5. IsFiniteSet(DOMAIN rated)
  BY <1>1, RowsAreFinite
<1> QED BY <1>4, <1>5, FS_Bijection

LEMMA NearestIs == ASSUME NearInv PROVE NeighboursAreNearest
<1> SUFFICES ASSUME NEW f \in NewFacts, Sought(f) \/ neighbours[f] # None,
                    NEW g \in facts \ Arriving, Comparable(f, g),
                    g \notin {row[1] : row \in DOMAIN neighbours[f]}
             PROVE  /\ Cardinality({row[1] : row \in DOMAIN neighbours[f]}) = half
                    /\ \A n \in {row[1] : row \in DOMAIN neighbours[f]} : Gap(f, n) <= Gap(f, g)
  BY DEF NeighboursAreNearest
<1>1. RowsFit(neighbours[f], f) /\ \A w \in Ways : NoneCloser(neighbours[f], f, w)
  BY DEF NearInv
<1>2. PICK way \in Ways : OnSide(f, g, way)
  <2>1. g \in Facts /\ EventDate[f] \in Int /\ EventDate[g] \in Int
    BY LookupsAssumption DEF NearInv, Comparable
  <2>2. EventDate[g] <= EventDate[f] \/ EventDate[g] > EventDate[f]
    BY <2>1
  <2> QED BY <2>2 DEF OnSide, Ways
<1>3. g \in (facts \ Arriving) \intersect Beside(f, way)
  BY <1>2 DEF NearInv, Beside
<1>4. <<g, way>> \notin DOMAIN neighbours[f]
  OBVIOUS
<1>5. /\ Cardinality(DOMAIN neighbours[f]) = half
      /\ \A r \in DOMAIN neighbours[f] : neighbours[f][r] >= Closeness(f, <<g, way>>)
  BY <1>1, <1>3, <1>4 DEF NoneCloser
<1>6. ASSUME NEW r \in DOMAIN neighbours[f] PROVE Gap(f, r[1]) <= Gap(f, g)
  <2>1. r = <<r[1], r[2]>> /\ r[2] \in Ways /\ r[1] \in Beside(f, r[2]) /\ neighbours[f][r] = Closeness(f, r)
    BY <1>1 DEF RowsFit
  <2>2. /\ Gap(f, r[1]) \in Nat
        /\ Closeness(f, r) = -(2 * Gap(f, r[1]) + (IF r[2] = "forward" THEN 1 ELSE 0))
    BY <2>1, ClosenessIs
  <2>3. /\ Gap(f, g) \in Nat
        /\ Closeness(f, <<g, way>>) = -(2 * Gap(f, g) + (IF way = "forward" THEN 1 ELSE 0))
    BY <1>3, ClosenessIs
  <2>4. Closeness(f, r) >= Closeness(f, <<g, way>>)
    BY <1>5, <2>1
  <2> QED BY ONLY <2>2, <2>3, <2>4
<1> QED BY <1>1, <1>5, <1>6, RowsOfFacts

-----------------------------------------------------------------------------
(* The expansion of observations                                           *)

SourceEntities == {m.entity : m \in {m \in FactMentions : m.unit \in seedSources}}

\* what each search knows of the ones before it
ObsInv ==
  /\ seedSources \subseteq Facts /\ connected \subseteq Facts
  /\ DOMAIN observations \subseteq OfType
  /\ step \in {"sources", "entities", "fanout", "observations"} => DOMAIN observations = {}
  /\ step = "fanout" => sourceEntities = SourceEntities
  /\ step = "observations" => Reached \subseteq connected
  /\ ObservationsByOverlap

LEMMA OverlapGrows ==
  ASSUME NEW o \in Units, NEW S, NEW T, S \subseteq T
  PROVE  Overlap(o, S) \in Nat /\ Overlap(o, T) \in Nat /\ Overlap(o, S) <= Overlap(o, T)
<1>1. IsFiniteSet(MadeFrom[o])
  BY LookupsAssumption, FS_Subset
<1>2. IsFiniteSet(MadeFrom[o] \intersect T) /\ IsFiniteSet(MadeFrom[o] \intersect S)
  BY <1>1, FS_Subset
<1>3. MadeFrom[o] \intersect S \subseteq MadeFrom[o] \intersect T
  OBVIOUS
<1> QED BY <1>2, <1>3, FS_Subset, FS_CardinalityType DEF Overlap

\* The facts of an entity that has few are all in its fan.
LEMMA FewAreInFan ==
  ASSUME NEW e, NEW f \in FactsOf(e), Cardinality(FactsOf(e)) <= FactsPerEntity
  PROVE  f \in Fan(e)
<1>1. FactsOf(e) \subseteq Facts /\ IsFiniteSet(FactsOf(e)) /\ f \in Nat /\ FactsPerEntity \in Nat
  <2>1. FactsOf(e) \subseteq Facts
    BY LookupsAssumption DEF FactsOf
  <2> QED BY <2>1, LookupsAssumption, FS_Subset
<1>2. /\ IsFiniteSet(FactsOf(e) \ {f})
      /\ Cardinality(FactsOf(e) \ {f}) = Cardinality(FactsOf(e)) - 1
  BY <1>1, FS_RemoveElement
<1>3. {g \in FactsOf(e) : g > f} \subseteq FactsOf(e) \ {f}
  BY <1>1
<1>4. /\ Cardinality({g \in FactsOf(e) : g > f}) \in Nat /\ Cardinality(FactsOf(e)) \in Nat
      /\ Cardinality({g \in FactsOf(e) : g > f}) <= Cardinality(FactsOf(e)) - 1
  BY <1>1, <1>2, <1>3, FS_Subset, FS_CardinalityType
<1> QED BY <1>1, <1>4 DEF Fan

\* ... so what the seeds reach is connected.
LEMMA ReachedIsConnected ==
  ASSUME sourceEntities = SourceEntities
  PROVE  Reached \subseteq (UNION {Fan(e) : e \in sourceEntities}) \ seedSources
<1> SUFFICES ASSUME NEW f \in Reached PROVE f \in (UNION {Fan(e) : e \in sourceEntities}) \ seedSources
  OBVIOUS
<1>1. f \notin seedSources
  BY DEF Reached
<1>2. PICK m \in FactMentions, s \in seedSources :
        f \in FactsOf(m.entity) /\ s \in FactsOf(m.entity) /\ Cardinality(FactsOf(m.entity)) <= FactsPerEntity
  BY DEF Reached
<1>3. PICK n \in FactMentions : n.entity = m.entity /\ n.unit = s
  BY <1>2 DEF FactsOf
<1>4. m.entity \in sourceEntities
  BY <1>3 DEF SourceEntities
<1>5. f \in Fan(m.entity)
  BY <1>2, FewAreInFan
<1>6. \A e \in sourceEntities : \A g \in Fan(e) : g \in UNION {Fan(d) : d \in sourceEntities}
  OBVIOUS
<1>7. f \in UNION {Fan(e) : e \in sourceEntities}
  BY <1>4, <1>5, <1>6
<1> QED BY <1>1, <1>7

\* If the seeds reach nothing, no observation is left out.
LEMMA NothingReached ==
  ASSUME Reached = {}, DOMAIN observations = {}, OfType \subseteq Units
  PROVE  ObservationsByOverlap
<1>1. \A o \in Units : Overlap(o, Reached) = 0
  BY FS_EmptySet DEF Overlap
<1> QED BY <1>1 DEF ObservationsByOverlap

\* The scan of the observations keeps those that overlap most.
LEMMA ScanKeepsBest ==
  ASSUME ObsInv, ScanObservations, allowed \in Nat, OfType \subseteq Units
  PROVE  DOMAIN observations' \subseteq OfType /\ ObservationsByOverlap'
<1> DEFINE candidates == {o \in (alive \intersect OfType) \ seeds : Overlap(o, connected) > 0}
           rated == [o \in candidates |-> Overlap(o, connected)]
<1>1. /\ observations' \in Best(rated, allowed)
      /\ UNCHANGED <<alive, allowed, seeds, seedSources, connected>>
  BY DEF ScanObservations, Follow, memories
<1>2. DOMAIN rated = candidates /\ \A o \in candidates : rated[o] = Overlap(o, connected)
  OBVIOUS
<1>3. \A o \in OfType \ seeds : o \in alive /\ Overlap(o, connected) > 0 => o \in candidates
  OBVIOUS
<1>4. candidates \subseteq OfType \ seeds
  OBVIOUS
<1> HIDE DEF rated, candidates
<1>5. IsFiniteSet(DOMAIN rated)
  <2>1. candidates \subseteq Units
    BY <1>4
  <2> QED BY <1>2, <2>1, RankIs, FS_Subset
<1>6. /\ DOMAIN observations' \subseteq candidates
      /\ \A u \in DOMAIN observations' : observations'[u] = rated[u]
      /\ \A u \in candidates \ DOMAIN observations' :
           /\ Cardinality(DOMAIN observations') = allowed
           /\ \A v \in DOMAIN observations' : rated[v] >= rated[u]
  BY <1>1, <1>2, <1>5, BestIs
<1>7. Reached \subseteq connected /\ Reached' = Reached
  BY <1>1 DEF ObsInv, ScanObservations, Reached
<1>8. ASSUME NEW o \in (alive \intersect OfType) \ (seeds \union DOMAIN observations'), Overlap(o, Reached) # 0
      PROVE  /\ Cardinality(DOMAIN observations') = allowed
             /\ \A v \in DOMAIN observations' : observations'[v] >= Overlap(o, Reached)
  <2>1. Overlap(o, connected) \in Nat /\ Overlap(o, Reached) \in Nat /\ Overlap(o, Reached) <= Overlap(o, connected)
    BY <1>7, OverlapGrows
  <2>2. o \in candidates \ DOMAIN observations'
    BY <1>3, <1>8, <2>1
  <2>3. /\ Cardinality(DOMAIN observations') = allowed
        /\ \A v \in DOMAIN observations' : observations'[v] = Overlap(v, connected)
                                           /\ observations'[v] >= Overlap(o, connected)
    BY <1>2, <1>6, <2>2
  <2>4. \A v \in DOMAIN observations' : Overlap(v, connected) \in Nat
    BY <1>4, <1>6, OverlapGrows
  <2> QED BY <2>1, <2>3, <2>4
<1>9. DOMAIN observations' \subseteq OfType /\ DOMAIN observations' \intersect seeds = {}
  BY <1>4, <1>6
<1>10. \A o : Overlap(o, Reached)' = Overlap(o, Reached)
  BY <1>7 DEF Overlap
<1> QED BY <1>1, <1>8, <1>9, <1>10 DEF ObservationsByOverlap

-----------------------------------------------------------------------------
(* The two reads and the recall                                            *)

\* each read has its steps
StepInv ==
  \/ errand = "recall" /\ step = "none"
  \/ errand = "neighbours" /\ step \in {"dates", "batch", "raised"}
  \/ errand = "observations"
     /\ step \in {"sources", "entities", "fanout", "observations", "links", "raised"}

\* the invariants of the recall, of which the reads leave the types
RecallInv ==
  /\ StageInv /\ FoundInv /\ RestType
  /\ errand = "recall" => GraphStage /\ GraphInv

LookupsInv == StepInv /\ RecallInv /\ NearInv /\ ObsInv

LEMMA LookupsInvInit == LookupsInit => LookupsInv
<1> SUFFICES ASSUME LookupsInit PROVE LookupsInv
  OBVIOUS
<1>0. DOMAIN None = {}
  BY DEF None
<1>1. StepInv
  BY DEF LookupsInit, StepInv
<1>2. Init
  BY DEF LookupsInit
<1>3. StageInv /\ GraphStage
  BY <1>2 DEF Init, TemporalInit, GraphInit, StageInv, GraphStage
<1>4. RecallInv
  BY <1>2, <1>3, FindingInit, GraphInvInit, RestTypeInit DEF RecallInv
<1>5. /\ facts = Facts \ Arriving /\ half \in HalfLimits \union {0} /\ lateral = {} /\ asked = {}
      /\ scanned = [f \in NewFacts |-> None] /\ neighbours = [f \in NewFacts |-> None]
      /\ step # "batch"
  BY DEF LookupsInit
<1>6. NearInv
  BY <1>0, <1>5 DEF NearInv, RowsFit, Sought
<1>7. ObsInv
  BY <1>0 DEF LookupsInit, ObsInv, ObservationsByOverlap
<1> QED BY <1>1, <1>4, <1>6, <1>7 DEF LookupsInv

\* A read that leaves the arms of the recall alone keeps their invariants.
LEMMA ReadsLeaveTypes ==
  ASSUME StageInv, FoundInv, RestType, UNCHANGED <<links, mentions, allowed, backend, temporal, recall>>,
         alive' \subseteq alive, GraphType'
  PROVE  StageInv' /\ FoundInv' /\ RestType'
<1> USE DEF temporal, spreading, recall
<1>1. StageInv'
  BY DEF StageInv
<1>2. FoundInv'
  <2>1. hits \in Seq(Positions)
    BY DEF FoundInv, SpreadType
  <2>2. Positions' = Positions /\ pool \subseteq Units
    BY DEF Positions, FoundInv, SpreadType
  <2> QED BY <2>1, <2>2, FindingRests
<1>3. RestType'
  BY DEF RestType, MemoriesType
<1> QED BY <1>1, <1>2, <1>3

\* What the expansion of observations does to the graph arm.
LEMMA ObservingTypes ==
  ASSUME FoundInv, RestType,
         \/ SearchSources \/ SearchSourceEntities \/ SearchConnected \/ ScanObservations \/ FollowLinks
         \/ Delete
  PROVE  /\ UNCHANGED <<links, mentions, allowed, backend, temporal, recall>>
         /\ alive' \subseteq alive
         /\ GraphType'
<1> USE DEF temporal, spreading, recall, memories
<1>1. /\ arm \in {"idle", "search", "expand", "done"}
      /\ walk \in {"idle", "semantic", "causal", "rowsSemantic", "rowsCausal", "done", "failed"}
      /\ fan \in {"idle", "entities", "fanout", "rows", "done", "failed"}
      /\ seeds \subseteq OfType
      /\ Scores(semScore) /\ Scores(causalScore) /\ Scores(semRows) /\ Scores(causalRows)
      /\ Scores(counted) /\ Scores(entRows) /\ Scores(activation)
      /\ allowed \in Nat /\ links \in Seq(Links)
  BY DEF RestType, GraphType, Scores, FoundInv, SpreadType
<1>2. SUFFICES
        /\ UNCHANGED <<links, mentions, allowed, backend, temporal, recall>>
        /\ alive' \subseteq alive
        /\ UNCHANGED <<arm, fan, counted, entRows, activation>>
        /\ walk' \in {"idle", "semantic", "causal", "rowsSemantic", "rowsCausal", "done", "failed"}
        /\ seeds' \subseteq OfType
        /\ Scores(semScore') /\ Scores(causalScore') /\ Scores(semRows') /\ Scores(causalRows')
  BY <1>1 DEF GraphType, Scores
<1>3. CASE SearchSources
  <2>1. seeds' \subseteq OfType
    BY <1>3, LookupsAssumption DEF SearchSources
  <2> QED BY <1>1, <1>3, <2>1 DEF SearchSources, Follow
<1>4. CASE SearchSourceEntities
  BY <1>1, <1>4 DEF SearchSourceEntities, vars, graph
<1>5. CASE SearchConnected
  BY <1>1, <1>5 DEF SearchConnected, Follow, vars, graph
<1>6. CASE ScanObservations
  BY <1>1, <1>6 DEF ScanObservations, Follow
<1>7. CASE FollowLinks
  <2>1. UNCHANGED <<memories, temporal, recall>>
    BY <1>7 DEF FollowLinks
  <2>2. CASE ScanSemantic
    <3>1. semScore' = SemanticScores
      BY <2>2 DEF ScanSemantic, SemanticScores
    <3>2. Scores(semScore')
      BY <1>1, <3>1, ScoresAre DEF Scores
    <3> QED BY <1>1, <2>1, <2>2, <3>2 DEF ScanSemantic
  <2>3. CASE ScanCausal
    <3>1. causalScore' = CausalScores
      BY <2>3 DEF ScanCausal, CausalScores
    <3>2. Scores(causalScore')
      BY <1>1, <3>1, ScoresAre DEF Scores
    <3> QED BY <1>1, <2>1, <2>3, <3>2 DEF ScanCausal
  <2>4. CASE HydrateSemantic
    <3>1. Scores(semRows')
      BY <1>1, <2>4, CutScores DEF HydrateSemantic
    <3> QED BY <1>1, <2>1, <2>4, <3>1 DEF HydrateSemantic
  <2>5. CASE HydrateCausal
    <3>1. Scores(causalRows')
      BY <1>1, <2>5, CutScores DEF HydrateCausal
    <3> QED BY <1>1, <2>1, <2>5, <3>1 DEF HydrateCausal
  <2> QED BY <1>7, <2>2, <2>3, <2>4, <2>5 DEF FollowLinks
<1>8. CASE Delete
  BY <1>1, <1>8 DEF Delete, DeleteUnit, graph
<1> QED BY <1>3, <1>4, <1>5, <1>6, <1>7, <1>8

\* Every step of the expansion of observations keeps what the searches know.
LEMMA ObservingSteps ==
  ASSUME FoundInv, RestType, ObsInv,
         \/ SearchSources \/ SearchSourceEntities \/ SearchConnected \/ ScanObservations \/ FollowLinks
         \/ Delete /\ UNCHANGED <<step, observant>>
  PROVE  ObsInv'
<1> USE DEF observant
<1>0. OfType \subseteq Units /\ allowed \in Nat /\ DOMAIN observations \subseteq OfType
  BY MemoriesAssumption DEF FoundInv, SpreadType, ObsInv
<1>1. CASE SearchSources
  <2>1. /\ seedSources' = UNION {MadeFrom[o] : o \in seeds' \intersect alive}
        /\ UNCHANGED <<sourceEntities, connected, observations>>
        /\ seeds' \subseteq OfType /\ DOMAIN observations = {} /\ connected \subseteq Facts
    BY <1>1, LookupsAssumption DEF SearchSources, ObsInv
  <2>2. seedSources' \subseteq Facts
    <3>1. \A o \in seeds' : MadeFrom[o] \subseteq Facts
      BY <1>0, <2>1, LookupsAssumption
    <3> QED BY <2>1, <3>1
  <2>3. CASE seedSources' = {}
    <3>1. Reached' = {}
      BY <2>3 DEF Reached
    <3>2. OfType \subseteq Units /\ (DOMAIN observations)' = {}
      BY <1>0, <2>1
    <3>3. ASSUME NEW o \in Units PROVE Overlap(o, Reached)' = 0
      BY <3>1, FS_EmptySet DEF Overlap
    <3>4. ObservationsByOverlap'
      BY <3>2, <3>3 DEF ObservationsByOverlap
    <3>5. step' = "links"
      BY <1>1, <2>3 DEF SearchSources, Follow
    <3> QED BY <2>1, <2>2, <3>2, <3>4, <3>5 DEF ObsInv
  <2>4. CASE seedSources' # {}
    <3>1. step' = "entities"
      BY <1>1, <2>4 DEF SearchSources
    <3> QED BY <2>1, <2>2, <3>1 DEF ObsInv, ObservationsByOverlap
  <2> QED BY <2>3, <2>4
<1>2. CASE SearchSourceEntities
  <2>1. /\ step = "entities" /\ step' = "fanout" /\ UNCHANGED <<seedSources, connected, observations>>
        /\ sourceEntities' = SourceEntities
    BY <1>2 DEF SearchSourceEntities, SourceEntities
  <2>2. SourceEntities' = SourceEntities
    BY <2>1 DEF SourceEntities
  <2> QED BY <2>1, <2>2 DEF ObsInv, ObservationsByOverlap
<1>3. CASE SearchConnected
  <2>1. /\ step = "fanout" /\ UNCHANGED <<seedSources, sourceEntities, observations, seeds>>
        /\ connected' = (UNION {Fan(e) : e \in sourceEntities}) \ seedSources
        /\ step' \in {"links", "observations"} /\ (step' = "links" => connected' = {})
    BY <1>3 DEF SearchConnected, Follow, vars, graph
  <2>2. Reached' = Reached /\ Reached \subseteq connected'
    BY <2>1, ReachedIsConnected DEF Reached, ObsInv
  <2>3. connected' \subseteq Facts
    <3>1. \A e : Fan(e) \subseteq Facts
      BY LookupsAssumption DEF Fan, FactsOf
    <3> QED BY <2>1, <3>1
  <2>4. DOMAIN observations = {}
    BY <2>1 DEF ObsInv
  <2>5. ObservationsByOverlap'
    <3>1. CASE step' = "links"
      <4>1. \A o \in Units : Overlap(o, Reached)' = 0
        BY <2>1, <2>2, <3>1, FS_EmptySet DEF Overlap
      <4> QED BY <1>0, <2>1, <2>4, <4>1 DEF ObservationsByOverlap
    <3> QED BY <3>1 DEF ObservationsByOverlap
  <2> QED BY <2>1, <2>2, <2>3, <2>4, <2>5 DEF ObsInv
<1>4. CASE ScanObservations
  <2>1. step' = "links" /\ UNCHANGED <<seedSources, sourceEntities, connected>>
    BY <1>4 DEF ScanObservations, Follow
  <2>2. DOMAIN observations' \subseteq OfType /\ ObservationsByOverlap'
    BY <1>0, <1>4, ScanKeepsBest
  <2> QED BY <2>1, <2>2 DEF ObsInv
<1>5. CASE FollowLinks
  <2>1. UNCHANGED <<memories, step, observant, seeds>> /\ step = "links"
    BY <1>5 DEF FollowLinks, ScanSemantic, ScanCausal, HydrateSemantic, HydrateCausal
  <2>2. ObservationsByOverlap'
    BY <2>1 DEF ObsInv, ObservationsByOverlap, Overlap, Reached, memories
  <2> QED BY <2>1, <2>2 DEF ObsInv
<1>6. CASE Delete /\ UNCHANGED <<step, observant>>
  <2>1. /\ alive' \subseteq alive /\ UNCHANGED <<allowed, seeds, step, seedSources, sourceEntities, connected, observations>>
    BY <1>6 DEF Delete, DeleteUnit, graph
  <2>2. ObservationsByOverlap'
    BY <2>1 DEF ObsInv, ObservationsByOverlap, Overlap, Reached
  <2>3. Reached' = Reached /\ SourceEntities' = SourceEntities
    BY <2>1 DEF Reached, SourceEntities
  <2> QED BY <2>1, <2>2, <2>3 DEF ObsInv
<1> QED BY <1>1, <1>2, <1>3, <1>4, <1>5, <1>6

\* A read that another one leaves alone stays as it is.
LEMMA NearRests ==
  ASSUME NearInv, UNCHANGED timely, step' = "batch" => step = "batch"
  PROVE  NearInv'
<1> USE DEF timely
<1>1. \A f : Sought(f)' => Sought(f)
  BY DEF Sought
<1> QED BY <1>1 DEF NearInv, NoneCloser, RowsFit

LEMMA ObsRests ==
  ASSUME ObsInv, UNCHANGED observant,
         step' \notin {"sources", "entities", "fanout", "observations", "links"}
  PROVE  ObsInv'
BY DEF ObsInv, ObservationsByOverlap, observant

LEMMA LookupsSteps == LookupsInv /\ [LookupsNext]_lookups => LookupsInv'
<1> SUFFICES ASSUME LookupsInv, LookupsNext \/ UNCHANGED lookups PROVE LookupsInv'
  OBVIOUS
<1>0. StepInv /\ RecallInv /\ NearInv /\ ObsInv
  BY DEF LookupsInv
<1>1. CASE errand = "recall" /\ [Next]_vars /\ UNCHANGED <<errand, step, timely, observant>>
  <2>1. step = "none" /\ step' = "none"
    BY <1>0, <1>1 DEF StepInv
  <2>2. StageInv' /\ GraphStage' /\ FoundInv' /\ GraphInv' /\ RestType'
    BY <1>0, <1>1, TemporalSteps, GraphSteps, FindingSteps, GraphInvSteps, RestTypeSteps DEF RecallInv
  <2> QED
    BY <1>0, <1>1, <2>1, <2>2, NearRests, ObsRests DEF LookupsInv, StepInv, RecallInv
<1>2. CASE /\ errand = "neighbours" /\ UNCHANGED <<vars, errand, observant>>
           /\ FetchDates \/ NextBatch \/ (\E f \in NewFacts, way \in Ways : Scan(f, way)) \/ ChangeFacts
  <2>1. step' \in {"dates", "batch", "raised"}
    BY <1>0, <1>2 DEF StepInv, FetchDates, NextBatch, Scan, ChangeFacts
  <2>2. NearInv'
    BY <1>0, <1>2, NearSteps
  <2>3. StageInv' /\ FoundInv' /\ RestType'
    <3>1. GraphType'
      BY <1>0, <1>2 DEF RecallInv, RestType, GraphType, vars, graph
    <3> QED BY <1>0, <1>2, <3>1, ReadsLeaveTypes DEF RecallInv, vars, memories
  <2> QED
    BY <1>0, <1>2, <2>1, <2>2, <2>3, ObsRests DEF LookupsInv, StepInv, RecallInv
<1>3. CASE /\ errand = "observations" /\ UNCHANGED <<errand, timely>>
           /\ \/ SearchSources \/ SearchSourceEntities \/ SearchConnected \/ ScanObservations \/ FollowLinks
              \/ Delete /\ UNCHANGED <<step, observant>>
  <2>1. step' \in {"sources", "entities", "fanout", "observations", "links", "raised"}
    BY <1>0, <1>3
    DEF StepInv, SearchSources, SearchSourceEntities, SearchConnected, ScanObservations, FollowLinks, Follow
  <2>2. ObsInv'
    BY <1>0, <1>3, ObservingSteps DEF RecallInv
  <2>3. StageInv' /\ FoundInv' /\ RestType'
    BY <1>0, <1>3, ObservingTypes, ReadsLeaveTypes DEF RecallInv
  <2>4. NearInv'
    BY <1>0, <1>3, <2>1, NearRests
  <2> QED
    BY <1>3, <2>1, <2>2, <2>3, <2>4 DEF LookupsInv, StepInv, RecallInv
<1>4. CASE LookupFails
  <2>1. step' = "raised" /\ UNCHANGED <<vars, errand, timely, observant>> /\ errand # "recall"
    BY <1>0, <1>4 DEF LookupFails, Ended, StepInv
  <2>2. StageInv' /\ FoundInv' /\ RestType'
    <3>1. GraphType'
      BY <1>0, <2>1 DEF RecallInv, RestType, GraphType, vars, graph
    <3> QED BY <1>0, <2>1, <3>1, ReadsLeaveTypes DEF RecallInv, vars, memories
  <2>3. NearInv' /\ ObsInv'
    BY <1>0, <2>1, NearRests, ObsRests
  <2>4. StepInv'
    BY <1>0, <2>1 DEF StepInv
  <2> QED BY <2>1, <2>2, <2>3, <2>4 DEF LookupsInv, RecallInv
<1>5. CASE UNCHANGED lookups
  <2>1. UNCHANGED <<vars, errand, step, timely, observant>>
    BY <1>5 DEF lookups
  <2>2. CASE errand = "recall"
    BY <1>1, <2>1, <2>2
  <2>3. CASE errand # "recall"
    <3>1. GraphType'
      BY <1>0, <2>1 DEF RecallInv, RestType, GraphType, vars, graph
    <3>2. StageInv' /\ FoundInv' /\ RestType'
      BY <1>0, <2>1, <3>1, ReadsLeaveTypes DEF RecallInv, vars, memories
    <3>3. NearInv'
      BY <1>0, <2>1, NearRests
    <3>4. ObsInv'
      <4>1. ObservationsByOverlap'
        BY <1>0, <2>1 DEF ObsInv, ObservationsByOverlap, Overlap, Reached, vars, memories, graph, observant
      <4>2. Reached' = Reached /\ SourceEntities' = SourceEntities
        BY <2>1 DEF Reached, SourceEntities, observant
      <4> QED BY <1>0, <2>1, <4>1, <4>2 DEF ObsInv, observant
    <3>5. StepInv'
      BY <1>0, <2>1 DEF StepInv
    <3> QED BY <2>1, <2>3, <3>2, <3>3, <3>4, <3>5 DEF LookupsInv, RecallInv
  <2> QED BY <2>2, <2>3
<1> QED BY <1>1, <1>2, <1>3, <1>4, <1>5 DEF LookupsNext

LEMMA LookupsInvariant == LookupsSpec => []LookupsInv
BY LookupsInvInit, LookupsSteps, PTL DEF LookupsSpec

\* Type correctness of the two reads and of the recall beside them.
THEOREM LookupsHaveTypes == LookupsSpec => []LookupsType
<1>1. LookupsInv => LookupsType
  <2> SUFFICES ASSUME LookupsInv PROVE LookupsType
    OBVIOUS
  <2>1. TypeOK
    BY TypeIs DEF LookupsInv, RecallInv
  <2>2. ASSUME NEW f \in NewFacts
        PROVE  DOMAIN scanned[f] \subseteq Facts \X Ways /\ DOMAIN neighbours[f] \subseteq Facts \X Ways
    BY DEF LookupsInv, NearInv, RowsFit
  <2> QED BY <2>1, <2>2 DEF LookupsInv, StepInv, NearInv, ObsInv, LookupsType
<1> QED BY <1>1, LookupsInvariant, PTL

\* A read of several searches misses nothing that was there throughout: neither
\* the nearest facts in time of an ingest (fetch_temporal_neighbors), nor the
\* observations made from what the seeds' facts share entities with
\* (expand_observations).
THEOREM LookupsMissNothingThere == LookupsSpec => []LookupsMissNothing
<1>1. LookupsInv => LookupsMissNothing
  BY NearestIs DEF LookupsInv, ObsInv, LookupsMissNothing
<1> QED BY <1>1, LookupsInvariant, PTL

\* A recall among the reads is a recall: what is proved of it holds beside them.
THEOREM LookupsKeepRecall == LookupsSpec /\ errand = "recall" => Spec
<1>1. LookupsInit => Init
  BY DEF LookupsInit
<1>2. LookupsInv /\ errand = "recall" /\ [LookupsNext]_lookups => (errand = "recall")' /\ [Next]_vars
  BY DEF LookupsInv, StepInv, LookupsNext, LookupFails, Ended, lookups
<1> QED BY <1>1, <1>2, LookupsInvariant, PTL DEF LookupsSpec, Spec

-----------------------------------------------------------------------------
(* Recursive functions, and the filters, whose groups nest to any depth *)

LEMMA LeastNatural ==
  ASSUME NEW S \in SUBSET Nat, S # {}
  PROVE  \E n \in S : \A m \in S : n <= m
BY LeastNumber

\* F is what the recursive definition of a function says: its value at x is given by
\* next and by its values below x.
Solved(S, D, below, next) ==
  \E F \in [S -> D] : \A x \in S : \E f \in [below[x] -> D] :
    (\A y \in below[x] : f[y] = F[y]) /\ F[x] = next[<<x, f>>]

\* A recursive function whose recursion is bounded by a depth exists.  Up to each
\* depth there is one solution and no other, or there were a least depth, or an
\* element of least depth, where that fails.
LEMMA RecursionExists ==
  ASSUME NEW S, NEW D, NEW depth \in [S -> Nat], NEW below \in [S -> SUBSET S], NEW next,
         \A x \in S : \A y \in below[x] : depth[y] < depth[x],
         \A x \in S : \A f \in [below[x] -> D] : next[<<x, f>>] \in D
  PROVE  Solved(S, D, below, next)
<1> DEFINE Low(n) == {x \in S : depth[x] < n}
           Given(F, x) == next[<<x, [y \in below[x] |-> F[y]]>>]
           Good(n, F) == F \in [Low(n) -> D] /\ \A x \in Low(n) : F[x] = Given(F, x)
<1>0. ASSUME NEW n \in Nat, NEW x \in Low(n) PROVE x \in S /\ below[x] \subseteq Low(n)
  BY <1>0
<1>1. ASSUME NEW n \in Nat, NEW m \in Nat, NEW F, NEW G, Good(n, F), Good(m, G), n <= m,
             NEW z \in Low(n), F[z] # G[z]
      PROVE  FALSE
  <2> DEFINE Bad == {x \in Low(n) : F[x] # G[x]}
             Depths == {depth[x] : x \in Bad}
  <2>1. Depths \in SUBSET Nat /\ Depths # {}
    BY <1>1
  <2>2. PICK x \in Bad : \A y \in Bad : depth[x] <= depth[y]
    <3>1. PICK d \in Depths : \A e \in Depths : d <= e
      <4> HIDE DEF Depths
      <4> QED BY <2>1, LeastNatural
    <3> QED BY <3>1
  <2>3. x \in Low(n) /\ x \in Low(m) /\ F[x] # G[x]
    BY <2>2, <1>1
  <2>4. ASSUME NEW y \in below[x] PROVE F[y] = G[y]
    BY <2>2, <2>3, <2>4, <1>0
  <2>5. [y \in below[x] |-> F[y]] = [y \in below[x] |-> G[y]]
    BY <2>4
  <2>6. F[x] = Given(F, x) /\ G[x] = Given(G, x)
    BY <2>3, <1>1
  <2> HIDE DEF Bad, Depths, Low
  <2> QED BY <2>3, <2>5, <2>6
<1>2. ASSUME NEW n \in Nat, NEW F, Good(n, F) PROVE \E G : Good(n + 1, G)
  <2> DEFINE G == [x \in Low(n + 1) |-> Given(F, x)]
  <2>1. ASSUME NEW x \in Low(n + 1) PROVE below[x] \subseteq Low(n) /\ x \in S
    BY <2>1
  <2>2. ASSUME NEW x \in Low(n + 1) PROVE Given(F, x) \in D
    <3>1. [y \in below[x] |-> F[y]] \in [below[x] -> D]
      BY <2>1, <1>2
    <3> QED BY <3>1, <2>1
  <2>3. ASSUME NEW x \in Low(n + 1) PROVE Given(G, x) = Given(F, x)
    <3>1. ASSUME NEW y \in below[x] PROVE G[y] = F[y]
      <4>1. y \in Low(n) /\ y \in Low(n + 1)
        BY <2>1
      <4>2. F[y] = Given(F, y)
        BY <4>1, <1>2
      <4> HIDE DEF Low, Given
      <4> QED BY <4>1, <4>2
    <3>2. [y \in below[x] |-> G[y]] = [y \in below[x] |-> F[y]]
      BY <3>1
    <3> HIDE DEF G
    <3> QED BY <3>2
  <2>4. G \in [Low(n + 1) -> D]
    BY <2>2
  <2>5. ASSUME NEW x \in Low(n + 1) PROVE G[x] = Given(G, x)
    <3> HIDE DEF Given, Low
    <3> QED BY <2>3
  <2> QED BY <2>4, <2>5
<1>3. ASSUME NEW n \in Nat PROVE \E F : Good(n, F)
  <2> DEFINE Bad == {i \in Nat : ~ \E F : Good(i, F)}
  <2>1. SUFFICES ASSUME Bad # {} PROVE FALSE
    BY <1>3
  <2>2. PICK i \in Bad : \A j \in Bad : i <= j
    <3>1. Bad \in SUBSET Nat
      OBVIOUS
    <3> HIDE DEF Bad
    <3> QED BY <2>1, <3>1, LeastNatural
  <2>3. Good(0, [x \in {} |-> x])
    <3>1. Low(0) = {}
      OBVIOUS
    <3> HIDE DEF Low, Given
    <3> QED BY <3>1
  <2>4. i # 0
    BY <2>3, <2>2
  <2>5. i - 1 \in Nat /\ i - 1 \notin Bad
    <3> HIDE DEF Good
    <3> QED BY <2>2, <2>4
  <2>6. PICK F : Good(i - 1, F)
    <3> HIDE DEF Good
    <3> QED BY <2>5
  <2>7. \E G : Good((i - 1) + 1, G)
    <3> HIDE DEF Good
    <3> QED BY <2>5, <2>6, <1>2
  <2> HIDE DEF Good
  <2> QED BY <2>2, <2>7
<1> DEFINE Upto(n) == CHOOSE F : Good(n, F)
           H == [x \in S |-> Upto(depth[x] + 1)[x]]
<1>4. ASSUME NEW n \in Nat PROVE Good(n, Upto(n))
  <2> HIDE DEF Good
  <2> QED BY <1>3
<1>5. ASSUME NEW x \in S PROVE H[x] \in D /\ H[x] = Given(H, x)
  <2> DEFINE n == depth[x] + 1
             F == Upto(n)
  <2>1. n \in Nat /\ x \in Low(n)
    OBVIOUS
  <2>2. Good(n, F)
    BY <1>4, <2>1
  <2>3. H[x] = F[x]
    OBVIOUS
  <2> HIDE DEF n, F, H, Upto
  <2>4. F[x] = Given(F, x) /\ F[x] \in D
    BY <2>1, <2>2
  <2>5. ASSUME NEW y \in below[x] PROVE H[y] = F[y]
    <3> DEFINE m == depth[y] + 1
    <3>1. y \in S /\ m \in Nat /\ m <= n /\ y \in Low(m)
      BY <2>1 DEF n
    <3>2. H[y] = Upto(m)[y]
      BY <3>1 DEF H
    <3>3. Good(m, Upto(m))
      BY <1>4, <3>1
    <3> HIDE DEF m, Good, Low
    <3> QED BY <3>1, <3>2, <3>3, <2>1, <2>2, <1>1
  <2>6. [y \in below[x] |-> H[y]] = [y \in below[x] |-> F[y]]
    BY <2>5
  <2> QED BY <2>3, <2>4, <2>6
<1>6. H \in [S -> D]
  <2> HIDE DEF Upto
  <2>1. \A x \in S : H[x] \in D
    BY <1>5
  <2> QED BY <2>1
<1>7. ASSUME NEW x \in S
      PROVE  \E f \in [below[x] -> D] : (\A y \in below[x] : f[y] = H[y]) /\ H[x] = next[<<x, f>>]
  <2> DEFINE f == [y \in below[x] |-> H[y]]
  <2> HIDE DEF H
  <2>1. f \in [below[x] -> D]
    BY <1>6
  <2>2. H[x] = next[<<x, f>>]
    BY <1>5
  <2>3. \A y \in below[x] : f[y] = H[y]
    OBVIOUS
  <2> HIDE DEF f
  <2> QED BY <2>1, <2>2, <2>3
<1> HIDE DEF H
<1> QED BY <1>6, <1>7 DEF Solved

\* The groups within a group, none of which is nested as deeply.
Inner == [g \in Groups |-> IF g.is = "leaf" THEN {} ELSE g.of]

LEMMA GroupsNest ==
  /\ Depth \in [Groups -> Nat] /\ Inner \in [Groups -> SUBSET Groups]
  /\ \A g \in Groups : \A h \in Inner[g] : Depth[h] < Depth[g]
BY GroupsAssumption DEF Inner

LEMMA QueriesAreUnits ==
  /\ \A tags, match : TagsQuery(tags, match) \in SUBSET SUBSET Units
  /\ \A a, b, c : Bool(a, b, c) \in SUBSET Units
<1>1. ASSUME NEW a, NEW b, NEW c PROVE Bool(a, b, c) \in SUBSET Units
  BY DEF Bool
<1>2. ASSUME NEW tags, NEW match PROVE TagsQuery(tags, match) \in SUBSET SUBSET Units
  BY <1>1 DEF TagsQuery, Untagged, EqualTags, Superset, Terms
<1> QED BY <1>1, <1>2

\* What _group_query returns for a group, by what it returns for those within.
LEMMA GroupQueryIs ==
  ASSUME NEW group \in Groups
  PROVE  IF group.is = "leaf" THEN GroupQuery[group] = TagsQuery(group.tags, group.match)
         ELSE LET children == UNION {GroupQuery[g] : g \in group.of}
              IN  IF children = {} THEN GroupQuery[group] = {}
                  ELSE /\ group.is = "and" => GroupQuery[group] = {Bool(children, {}, {})}
                       /\ group.is = "or" => GroupQuery[group] = {Bool({}, children, {})}
                       /\ group.is = "not" => GroupQuery[group] = {Bool({}, {}, children)}
<1> DEFINE Body(g, f) ==
             IF g.is = "leaf" THEN TagsQuery(g.tags, g.match)
             ELSE LET children == UNION {f[h] : h \in g.of}
                  IN  IF children = {} THEN {}
                      ELSE {CASE g.is = "and" -> Bool(children, {}, {})
                              [] g.is = "or" -> Bool({}, children, {})
                              [] g.is = "not" -> Bool({}, {}, children)}
           D == SUBSET SUBSET Units
           next == [p \in UNION {{g} \X [Inner[g] -> D] : g \in Groups} |-> Body(p[1], p[2])]
<1>1. ASSUME NEW g \in Groups, NEW f PROVE Body(g, f) \in D
  <2>1. CASE g.is = "leaf"
    BY <2>1, QueriesAreUnits
  <2>2. CASE g.is \in {"and", "or", "not"}
    BY <2>2, QueriesAreUnits
  <2> QED BY <2>1, <2>2, GroupsAssumption
<1>2. ASSUME NEW g \in Groups, NEW f, NEW e, \A h \in Inner[g] : f[h] = e[h]
      PROVE  Body(g, f) = Body(g, e)
  <2>1. CASE g.is = "leaf"
    BY <2>1
  <2>2. CASE g.is # "leaf"
    <3>1. (UNION {f[h] : h \in g.of}) = UNION {e[h] : h \in g.of}
      BY <1>2, <2>2 DEF Inner
    <3> QED BY <2>2, <3>1
  <2> QED BY <2>1, <2>2
<1> HIDE DEF Body, D
<1>3. ASSUME NEW g \in Groups, NEW f \in [Inner[g] -> D] PROVE next[<<g, f>>] = Body(g, f)
  OBVIOUS
<1> HIDE DEF next
<1>4. PICK F \in [Groups -> D] : \A g \in Groups : \E f \in [Inner[g] -> D] :
             (\A h \in Inner[g] : f[h] = F[h]) /\ F[g] = next[<<g, f>>]
  <2>1. Solved(Groups, D, Inner, next)
    <3>1. \A g \in Groups : \A f \in [Inner[g] -> D] : next[<<g, f>>] \in D
      BY <1>1, <1>3
    <3> QED BY <3>1, GroupsNest, RecursionExists
  <2> QED BY <2>1 DEF Solved
<1>5. F = [g \in Groups |-> Body(g, F)]
  <2>1. ASSUME NEW g \in Groups PROVE F[g] = Body(g, F)
    <3>1. PICK f \in [Inner[g] -> D] : (\A h \in Inner[g] : f[h] = F[h]) /\ F[g] = next[<<g, f>>]
      BY <1>4
    <3>2. F[g] = Body(g, f)
      BY <1>3, <3>1
    <3>3. Body(g, f) = Body(g, F)
      BY <1>2, <3>1
    <3> QED BY <3>2, <3>3
  <2> QED BY <2>1
<1>6. GroupQuery = [g \in Groups |-> Body(g, GroupQuery)]
  BY <1>5 DEF GroupQuery, Body
<1>7. GroupQuery[group] = Body(group, GroupQuery)
  BY <1>6
<1> QED BY <1>7 DEF Body

LEMMA SaysIs ==
  ASSUME NEW group \in Groups
  PROVE  /\ Says[group] \in BOOLEAN
         /\ Says[group] <=> IF group.is = "leaf" THEN group.tags # {} \/ group.match = "exact"
                            ELSE \E g \in group.of : Says[g]
<1> DEFINE Body(g, f) == IF g.is = "leaf" THEN g.tags # {} \/ g.match = "exact"
                         ELSE \E h \in g.of : f[h]
           next == [p \in UNION {{g} \X [Inner[g] -> BOOLEAN] : g \in Groups} |-> Body(p[1], p[2])]
<1>1. ASSUME NEW g \in Groups, NEW f PROVE Body(g, f) \in BOOLEAN
  OBVIOUS
<1>2. ASSUME NEW g \in Groups, NEW f, NEW e, \A h \in Inner[g] : f[h] = e[h]
      PROVE  Body(g, f) = Body(g, e)
  BY <1>2 DEF Inner
<1> HIDE DEF Body
<1>3. ASSUME NEW g \in Groups, NEW f \in [Inner[g] -> BOOLEAN] PROVE next[<<g, f>>] = Body(g, f)
  OBVIOUS
<1> HIDE DEF next
<1>4. PICK F \in [Groups -> BOOLEAN] : \A g \in Groups : \E f \in [Inner[g] -> BOOLEAN] :
             (\A h \in Inner[g] : f[h] = F[h]) /\ F[g] = next[<<g, f>>]
  <2>1. Solved(Groups, BOOLEAN, Inner, next)
    <3>1. \A g \in Groups : \A f \in [Inner[g] -> BOOLEAN] : next[<<g, f>>] \in BOOLEAN
      BY <1>1, <1>3
    <3> QED BY <3>1, GroupsNest, RecursionExists
  <2> QED BY <2>1 DEF Solved
<1>5. F = [g \in Groups |-> Body(g, F)]
  <2>1. ASSUME NEW g \in Groups PROVE F[g] = Body(g, F)
    <3>1. PICK f \in [Inner[g] -> BOOLEAN] : (\A h \in Inner[g] : f[h] = F[h]) /\ F[g] = next[<<g, f>>]
      BY <1>4
    <3>2. F[g] = Body(g, f)
      BY <1>3, <3>1
    <3>3. Body(g, f) = Body(g, F)
      BY <1>2, <3>1
    <3> QED BY <3>2, <3>3
  <2> QED BY <2>1
<1>6. Says = [g \in Groups |-> Body(g, Says)]
  BY <1>5 DEF Says, Body
<1>7. Says[group] = Body(group, Says)
  BY <1>6
<1> QED BY <1>1, <1>7 DEF Body

LEMMA PassingIs ==
  ASSUME NEW group \in Groups
  PROVE  LET of == {g \in group.of : Says[g]} IN
         /\ group.is = "leaf" =>
              Passing[group] = {u \in Units : Passes(u, group.tags, group.match)}
         /\ group.is = "and" => Passing[group] = {u \in Units : \A g \in of : u \in Passing[g]}
         /\ group.is = "or" => Passing[group] = {u \in Units : \E g \in of : u \in Passing[g]}
         /\ group.is = "not" => Passing[group] = {u \in Units : \A g \in of : u \notin Passing[g]}
<1> DEFINE Body(g, f) ==
             LET of == {h \in g.of : Says[h]}
             IN  {u \in Units : CASE g.is = "leaf" -> Passes(u, g.tags, g.match)
                                  [] g.is = "and" -> \A h \in of : u \in f[h]
                                  [] g.is = "or" -> \E h \in of : u \in f[h]
                                  [] g.is = "not" -> \A h \in of : u \notin f[h]}
           D == SUBSET Units
           next == [p \in UNION {{g} \X [Inner[g] -> D] : g \in Groups} |-> Body(p[1], p[2])]
<1>1. ASSUME NEW g \in Groups, NEW f PROVE Body(g, f) \in D
  OBVIOUS
<1>2. ASSUME NEW g \in Groups, NEW f, NEW e, \A h \in Inner[g] : f[h] = e[h]
      PROVE  Body(g, f) = Body(g, e)
  <2>1. CASE g.is = "leaf"
    BY <2>1
  <2>2. CASE g.is \in {"and", "or", "not"}
    <3>1. \A h \in g.of : f[h] = e[h]
      BY <1>2, <2>2 DEF Inner
    <3> QED BY <2>2, <3>1
  <2> QED BY <2>1, <2>2, GroupsAssumption
<1> HIDE DEF Body, D
<1>3. ASSUME NEW g \in Groups, NEW f \in [Inner[g] -> D] PROVE next[<<g, f>>] = Body(g, f)
  OBVIOUS
<1> HIDE DEF next
<1>4. PICK F \in [Groups -> D] : \A g \in Groups : \E f \in [Inner[g] -> D] :
             (\A h \in Inner[g] : f[h] = F[h]) /\ F[g] = next[<<g, f>>]
  <2>1. Solved(Groups, D, Inner, next)
    <3>1. \A g \in Groups : \A f \in [Inner[g] -> D] : next[<<g, f>>] \in D
      BY <1>1, <1>3
    <3> QED BY <3>1, GroupsNest, RecursionExists
  <2> QED BY <2>1 DEF Solved
<1>5. F = [g \in Groups |-> Body(g, F)]
  <2>1. ASSUME NEW g \in Groups PROVE F[g] = Body(g, F)
    <3>1. PICK f \in [Inner[g] -> D] : (\A h \in Inner[g] : f[h] = F[h]) /\ F[g] = next[<<g, f>>]
      BY <1>4
    <3>2. F[g] = Body(g, f)
      BY <1>3, <3>1
    <3>3. Body(g, f) = Body(g, F)
      BY <1>2, <3>1
    <3> QED BY <3>2, <3>3
  <2> QED BY <2>1
<1>6. Passing = [g \in Groups |-> Body(g, Passing)]
  BY <1>5 DEF Passing, Body
<1>7. Passing[group] = Body(group, Passing)
  BY <1>6
<1> QED BY <1>7 DEF Body

LEMMA LeafMeans ==
  ASSUME NEW tags, NEW match, IsFiniteSet(tags)
  PROVE  TagsQuery(tags, match) = IF tags # {} \/ match = "exact"
                                  THEN {{u \in Units : Passes(u, tags, match)}} ELSE {}
<1>1. HasTags = {u \in Units : TagsOf[u] # {}} /\ Untagged = {u \in Units : TagsOf[u] = {}}
  BY DEF HasTags, Untagged, Bool
<1>2. Superset(tags) = {u \in Units : tags \subseteq TagsOf[u]}
  <2>1. Superset(tags) = {u \in Units : \A p \in {Terms({t}) : t \in tags} : u \in p}
    BY DEF Superset, Bool
  <2>2. ASSUME NEW u \in Units, NEW t PROVE u \in Terms({t}) <=> t \in TagsOf[u]
    BY DEF Terms
  <2>3. ASSUME NEW u \in Units
        PROVE  (\A p \in {Terms({t}) : t \in tags} : u \in p) <=> tags \subseteq TagsOf[u]
    BY <2>2
  <2> QED BY <2>1, <2>3
<1>3. EqualTags(tags) = {u \in Units : tags = TagsOf[u]}
  <2>1. EqualTags(tags) =
          {u \in Units : tags \subseteq TagsOf[u] /\ Cardinality(TagsOf[u]) = Cardinality(tags)}
    <3>1. EqualTags(tags) = {u \in Superset(tags) : u \in SizeIs(Cardinality(tags))}
      BY DEF EqualTags, Superset, Bool
    <3>2. \A u \in Units : u \in SizeIs(Cardinality(tags)) <=> Cardinality(TagsOf[u]) = Cardinality(tags)
      BY DEF SizeIs
    <3> QED BY <3>1, <3>2, <1>2
  <2>2. ASSUME NEW u \in Units, tags \subseteq TagsOf[u], Cardinality(TagsOf[u]) = Cardinality(tags)
        PROVE  tags = TagsOf[u]
    BY <2>2, GroupsAssumption, FS_Subset
  <2> QED BY <2>1, <2>2
<1>4. CASE match = "exact"
  BY <1>1, <1>3, <1>4 DEF TagsQuery, Passes
<1>5. CASE match # "exact" /\ tags = {}
  BY <1>5 DEF TagsQuery
<1>6. CASE match \in {"any_strict", "all_strict"} /\ tags # {}
  BY <1>2, <1>6 DEF TagsQuery, Passes, Terms
<1>7. CASE match \notin {"exact", "any_strict", "all_strict"} /\ tags # {}
  BY <1>1, <1>2, <1>7 DEF TagsQuery, Passes, Terms, Bool
<1> QED BY <1>4, <1>5, <1>6, <1>7

\* A group is translated into the units that it lets pass, or into nothing if
\* nothing in it says anything.
LEMMA GroupMeans ==
  ASSUME NEW group \in Groups
  PROVE  GroupQuery[group] = IF Says[group] THEN {Passing[group]} ELSE {}
<1> DEFINE Right(g) == GroupQuery[g] = IF Says[g] THEN {Passing[g]} ELSE {}
           Wrong == {g \in Groups : ~Right(g)}
           Depths == {Depth[g] : g \in Wrong}
<1>1. SUFFICES ASSUME Wrong # {} PROVE FALSE
  OBVIOUS
<1>2. PICK g \in Wrong : \A h \in Wrong : Depth[g] <= Depth[h]
  <2>1. Depths \in SUBSET Nat /\ Depths # {}
    BY <1>1, GroupsNest
  <2>2. PICK d \in Depths : \A e \in Depths : d <= e
    <3> HIDE DEF Depths
    <3> QED BY <2>1, LeastNatural
  <2> QED BY <2>2
<1>3. g \in Groups /\ ~Right(g)
  BY <1>2
<1>4. \A h \in Inner[g] : h \in Groups /\ Right(h)
  BY <1>2, GroupsNest
<1> HIDE DEF Right, Wrong, Depths
<1>5. CASE g.is = "leaf"
  <2>1. IsFiniteSet(g.tags)
    BY <1>3, <1>5, GroupsAssumption
  <2>2. GroupQuery[g] = TagsQuery(g.tags, g.match)
    BY <1>3, <1>5, GroupQueryIs
  <2>3. Says[g] <=> g.tags # {} \/ g.match = "exact"
    BY <1>3, <1>5, SaysIs
  <2>4. Passing[g] = {u \in Units : Passes(u, g.tags, g.match)}
    BY <1>3, <1>5, PassingIs
  <2>5. GroupQuery[g] = IF g.tags # {} \/ g.match = "exact"
                        THEN {{u \in Units : Passes(u, g.tags, g.match)}} ELSE {}
    BY <2>1, <2>2, LeafMeans
  <2> QED BY <1>3, <2>3, <2>4, <2>5 DEF Right
<1>6. CASE g.is # "leaf"
  <2> DEFINE of == {h \in g.of : Says[h]}
             children == UNION {GroupQuery[h] : h \in g.of}
  <2>1. ASSUME NEW h \in g.of PROVE GroupQuery[h] = IF Says[h] THEN {Passing[h]} ELSE {}
    BY <1>4, <1>6, <1>3 DEF Inner, Right
  <2>2. children = {Passing[h] : h \in of}
    BY <2>1
  <2>3. Says[g] <=> of # {}
    BY <1>3, <1>6, SaysIs
  <2>4. children = {} <=> ~Says[g]
    BY <2>2, <2>3
  <2>5. g.is \in {"and", "or", "not"}
    BY <1>3, <1>6, GroupsAssumption
  <2>6. /\ Bool(children, {}, {}) = {u \in Units : \A h \in of : u \in Passing[h]}
        /\ children # {} => Bool({}, children, {}) = {u \in Units : \E h \in of : u \in Passing[h]}
        /\ Bool({}, {}, children) = {u \in Units : \A h \in of : u \notin Passing[h]}
    <3>1. \A u \in Units : (\A p \in children : u \in p) <=> (\A h \in of : u \in Passing[h])
      BY <2>2
    <3>2. \A u \in Units : (\E p \in children : u \in p) <=> (\E h \in of : u \in Passing[h])
      BY <2>2
    <3>3. \A u \in Units : (\A p \in children : u \notin p) <=> (\A h \in of : u \notin Passing[h])
      BY <2>2
    <3> HIDE DEF children, of
    <3> QED BY <3>1, <3>2, <3>3 DEF Bool
  <2>7. CASE ~Says[g]
    BY <1>3, <1>6, <2>4, <2>7, GroupQueryIs DEF Right
  <2>8. CASE Says[g]
    <3>1. children # {}
      BY <2>4, <2>8
    <3>2. CASE g.is = "and"
      <4>1. GroupQuery[g] = {Bool(children, {}, {})}
        BY <1>3, <3>1, <3>2, GroupQueryIs
      <4>2. Passing[g] = Bool(children, {}, {})
        BY <1>3, <2>6, <3>2, PassingIs
      <4> QED BY <4>1, <4>2, <1>3, <2>8 DEF Right
    <3>3. CASE g.is = "or"
      <4>1. GroupQuery[g] = {Bool({}, children, {})}
        BY <1>3, <3>1, <3>3, GroupQueryIs
      <4>2. Passing[g] = Bool({}, children, {})
        BY <1>3, <2>6, <3>1, <3>3, PassingIs
      <4> QED BY <4>1, <4>2, <1>3, <2>8 DEF Right
    <3>4. CASE g.is = "not"
      <4>1. GroupQuery[g] = {Bool({}, {}, children)}
        BY <1>3, <3>1, <3>4, GroupQueryIs
      <4>2. Passing[g] = Bool({}, {}, children)
        BY <1>3, <2>6, <3>4, PassingIs
      <4> QED BY <4>1, <4>2, <1>3, <2>8 DEF Right
    <3> QED BY <2>5, <3>2, <3>3, <3>4
  <2> QED BY <2>7, <2>8
<1> QED BY <1>5, <1>6

\* What the translation of a request finds is what the request means.
LEMMA TranslationMeans ==
  ASSUME request \in Requests \union {Served}, NEW u \in Units
  PROVE  (\A q \in Translation : u \in q) <=> IsTagged(u, request) /\ IsCreated(u, request)
<1> DEFINE own == TagsQuery(request.tags, request.match)
           among == UNION {GroupQuery[g] : g \in request.groups}
           created == CreatedBetween(request.after, request.before)
<1>1. IsFiniteSet(request.tags) /\ request.groups \subseteq Groups
  BY GroupsAssumption
<1>2. (\A q \in Translation : u \in q)
        <=> (\A q \in own : u \in q) /\ (\A q \in among : u \in q) /\ u \in created
  BY DEF Translation
<1>3. (\A q \in own : u \in q)
        <=> (request.tags # {} \/ request.match = "exact" => Passes(u, request.tags, request.match))
  <2>1. own = IF request.tags # {} \/ request.match = "exact"
              THEN {{v \in Units : Passes(v, request.tags, request.match)}} ELSE {}
    BY <1>1, LeafMeans
  <2> HIDE DEF own
  <2> QED BY <2>1
<1>4. (\A q \in among : u \in q) <=> \A g \in request.groups : Says[g] => u \in Passing[g]
  <2>1. (\A q \in among : u \in q) <=> \A g \in request.groups : \A q \in GroupQuery[g] : u \in q
    OBVIOUS
  <2>2. \A g \in request.groups : (\A q \in GroupQuery[g] : u \in q) <=> (Says[g] => u \in Passing[g])
    BY <1>1, GroupMeans
  <2> QED BY <2>1, <2>2
<1>5. u \in created <=> IsCreated(u, request)
  BY DEF CreatedBetween, IsCreated
<1> HIDE DEF own, among, created
<1> QED BY <1>2, <1>3, <1>4, <1>5 DEF IsTagged

FiltersInv ==
  /\ request \in Requests \union {Served}
  /\ translated => filters = Translation

LEMMA ReadsFiltersInv == ReadsSpec => []FiltersInv
<1>1. ReadsInit => FiltersInv
  BY DEF ReadsInit, FiltersInit, FiltersInv
<1>2. FiltersInv /\ [ReadsNext]_reads => FiltersInv'
  <2> SUFFICES ASSUME FiltersInv, [ReadsNext]_reads PROVE FiltersInv'
    OBVIOUS
  <2>1. request' = request /\ Translation' = Translation
    BY DEF ReadsNext, Translate, filtering, reads, Translation
  <2>2. CASE Translate
    BY <2>1, <2>2 DEF Translate, FiltersInv
  <2>3. CASE UNCHANGED filtering
    BY <2>1, <2>3 DEF filtering, FiltersInv
  <2> QED BY <2>2, <2>3 DEF ReadsNext, reads
<1> QED BY <1>1, <1>2, PTL DEF ReadsSpec

\* Whatever a recall filters by, groups nested to any depth included, the queries
\* that it is translated into find the units it means, and no others.
THEOREM ReadsFiltersMean == ReadsSpec => []FiltersMean
<1>1. FiltersInv => FiltersMean
  BY TranslationMeans DEF FiltersInv, FiltersMean
<1> QED BY <1>1, ReadsFiltersInv, PTL

\* The translation touches nothing that a recall or another read keeps: what is
\* proved of those holds of the reads that translate first.
THEOREM ReadsAreLookups == ReadsSpec => LookupsSpec
<1>1. ReadsInit => LookupsInit
  BY DEF ReadsInit
<1>2. [ReadsNext]_reads => [LookupsNext]_lookups
  <2>1. ASSUME UNCHANGED vars, UNCHANGED <<errand, step, timely, observant>>
        PROVE  UNCHANGED lookups
    BY <2>1 DEF lookups
  <2>2. UNCHANGED reads => UNCHANGED lookups
    BY DEF reads
  <2> QED BY <2>1, <2>2 DEF ReadsNext, Translate
<1> QED BY <1>1, <1>2, PTL DEF ReadsSpec, LookupsSpec
=============================================================================
