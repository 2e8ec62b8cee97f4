-------------------------------- MODULE MCRecall --------------------------------
(* An instance of Reads: six units, one of which the filters leave out, a window *)
(* of three slices, and dates within, across, at its ends, outside it, or none;  *)
(* tables with links of every type, shared entities; seven facts.                *)
EXTENDS Reads

MCRanked == <<"a", "b", "c", "d", "e", "f">>

At(start, end, mentioned) == [start |-> start, end |-> end, mentioned |-> mentioned]
Never == At(NoDate, NoDate, NoDate)
Around == At(-2, 11, NoDate)

MCDates ==
  {[a |-> At(0, NoDate, 0), b |-> d, c |-> e, d |-> At(NoDate, 9, 4), e |-> At(8, 9, NoDate),
    f |-> At(NoDate, NoDate, 9)] :
     d \in {Around, Never}, e \in {At(3, 4, 4), At(9, 12, NoDate), At(-4, -2, 12)}}

Link(from, to, weight, type) == [from |-> from, to |-> to, weight |-> weight, type |-> type]

MCTables ==
  {<<Link("a", t, 1000, "causes"), Link("b", u, 900, "temporal"), Link("a", "d", 800, "semantic"),
     Link("e", "b", 700, "semantic"), Link("f", u, 500, "semantic"), Link("c", "b", 300, "temporal"),
     Link("e", w, 300, "enables"),
     Link("a", IF w = "c" THEN "f" ELSE "c", 200, "temporal"), Link("f", "b", 90, "causes")>> :
       t \in {"b", "c", "e"}, u \in {"a", "d"}, w \in {"c", "f"}}

\* "a" has so many heavy links that none of "b" is found in a batch of both
MCCrowd ==
  [i \in 1..13 |-> IF i = 13 THEN Link("b", "c", 500, "temporal")
     ELSE Link("a", <<"b", "d", "e", "f">>[(i % 4) + 1], 1000 - i,
               <<"temporal", "causes", "enables">>[(i % 3) + 1])]

MCLinks == MCTables \union {MCCrowd}

Row(unit, entity) == [unit |-> unit, entity |-> entity]

MCMentions ==
  {{Row("a", 1), Row("f", 1), Row("b", 2), Row("e", 2), Row(u, 2)} : u \in {"c", "f"}}

MCTagsOf == [a |-> {"x"}, b |-> {"x", "y"}, c |-> {}, d |-> {"z"}, e |-> {"y"}, f |-> {"x", "y", "z"}]
MCCreatedAt == [a |-> 2, b |-> 3, c |-> 3, d |-> 4, e |-> 4, f |-> 5]

Request(tags, match, groups, after, before) ==
  [tags |-> tags, match |-> match, groups |-> groups, after |-> after, before |-> before]

MCServed == Request({"x", "y"}, "any", {}, 1, 5)

Leaves ==
  {[is |-> "leaf", tags |-> tags, match |-> match] :
     tags \in {{}, {"x"}, {"x", "y"}}, match \in {"any", "all", "any_strict", "all_strict", "exact"}}

Group(is, of) == [is |-> is, of |-> of]

Pairs == {Group(is, {l, m}) : is \in {"and", "or"}, l \in Leaves, m \in Leaves}

Negated == {Group("not", {g}) : g \in Leaves \union Pairs}

Deeper == {Group("or", {Group("not", {m}), n}) : m \in Leaves, n \in Leaves}

MCGroups == Leaves \union Pairs \union Negated \union Deeper

\* the pairs are of leaves, what is negated is a leaf or a pair
MCDepth ==
  [g \in MCGroups |-> IF g \in Leaves THEN 0 ELSE IF g \in Pairs THEN 1
                      ELSE IF g \in Negated THEN 2 ELSE 3]

MCRequests ==
  {Request(tags, match, {}, after, before) :
     tags \in SUBSET {"x", "y"}, match \in {"any", "all", "any_strict", "all_strict", "exact", "other"},
     after \in {Always, 2, 4}, before \in {Always, 3, 4}}
  \union {Request({}, "any", {g}, Always, Always) : g \in Leaves \union Pairs \union Negated}
  \union {Request({"y"}, "all_strict", {l, g}, Always, Always) : l \in Leaves, g \in Deeper}

\* facts as old as each other, at equal distances, and of another type or age
MCEventDate == <<3, 3, 5, 1, 4, NoDate, 3>>
MCFactType == <<"world", "world", "world", "world", "world", "world", "experience">>

\* the observations "a" to "e" were made from facts; an entity that has too many of
\* them hides "a" from "b"
MCMadeFrom ==
  [a |-> {1, 2}, b |-> {7}, c |-> {3, 4}, d |-> {2, 4, 6}, e |-> {5}, f |-> {}]

MCFactMentions ==
  {Row(f, 1) : f \in {1, 3, 4}} \union {Row(f, 2) : f \in {2, 5}}
    \union {Row(f, 3) : f \in {2, 4, 6, 7}}

MCSeeds == {{"a"}, {"a", "d"}, {"b"}, {"e", "f"}, {"f"}}
=================================================================================
