------------------------------ MODULE TagFilters ------------------------------
(***************************************************************************)
(* What a recall filters by: tags with a mode, groups of such leaves under *)
(* and, or and not, and a range of creation.  A recall on Elasticsearch    *)
(* translates them into queries, and filters by those.  A query is here    *)
(* the set of the units that the server finds by it.                       *)
(***************************************************************************)
EXTENDS Recall

CONSTANTS
  TagsOf,       \* the tags of each unit
  CreatedAt,    \* when it was created
  Groups,       \* the groups of requests and within them: [is, tags, match], [is, of]
  Depth,        \* how deep each of them is nested
  Requests,     \* what else calls may filter by: [tags, match, groups, after, before]
  Served,       \* the request that the recall goes on with, a bound
  Always        \* no end to the range

ASSUME GroupsAssumption ==
  /\ Depth \in [Groups -> Nat]
  /\ \A g \in Groups :
       \/ g.is = "leaf" /\ IsFiniteSet(g.tags)
       \/ /\ g.is \in {"and", "or", "not"}
          /\ \A h \in g.of : h \in Groups /\ Depth[h] < Depth[g]
  /\ \A r \in Requests \union {Served} : r.groups \subseteq Groups /\ IsFiniteSet(r.tags)
  /\ \A u \in Units : IsFiniteSet(TagsOf[u])

VARIABLES
  request,      \* what the call filters by, Served or one of Requests
  translated, filters

filtering == <<request, translated, filters>>

-----------------------------------------------------------------------------
(* The queries of the server *)

\* what no clause of "should" finds is not found, unless there is no such clause
Bool(filter, should, mustNot) ==
  {u \in Units : /\ \A p \in filter : u \in p
                 /\ should # {} => \E p \in should : u \in p
                 /\ \A p \in mustNot : u \notin p}

Terms(tags) == {u \in Units : tags \intersect TagsOf[u] # {}}

HasTags == {u \in Units : TagsOf[u] # {}}

SizeIs(n) == {u \in Units : Cardinality(TagsOf[u]) = n}

CreatedBetween(after, before) ==
  {u \in Units : /\ after # Always => CreatedAt[u] > after
                 /\ before # Always => CreatedAt[u] < before}

-----------------------------------------------------------------------------
(* The translation; a set of one query, or of none if nothing is filtered *)

Untagged == Bool({}, {}, {HasTags})

\* mutant: the tags are all there, and there may be more
Superset(tags) == Bool({Terms({t}) : t \in tags}, {}, {})

EqualTags(tags) == Bool({Terms({t}) : t \in tags} \union {SizeIs(Cardinality(tags))}, {}, {})

\* a mode that is not known counts as "any"
TagsQuery(tags, match) ==
  LET core == IF match \in {"all", "all_strict"} THEN Superset(tags) ELSE Terms(tags)
  IN  IF match = "exact" THEN {IF tags = {} THEN Untagged ELSE EqualTags(tags)}
      ELSE IF tags = {} THEN {}
      ELSE IF match \in {"any_strict", "all_strict"} THEN {core}
      ELSE {Bool({}, {Untagged, core}, {})}

GroupQuery[group \in Groups] ==
  IF group.is = "leaf" THEN TagsQuery(group.tags, group.match)
  ELSE LET children == UNION {GroupQuery[g] : g \in group.of}
       IN  IF children = {} THEN {}
           ELSE {CASE group.is = "and" -> Bool(children, {}, {})
                   [] group.is = "or" -> Bool({}, children, {})
                   [] group.is = "not" -> Bool({}, {}, children)}

Translation ==
  TagsQuery(request.tags, request.match)
    \union (UNION {GroupQuery[g] : g \in request.groups})
    \union {CreatedBetween(request.after, request.before)}

-----------------------------------------------------------------------------
(* The meaning *)

\* "any -> overlap OR untagged", and so on
Passes(u, tags, match) ==
  LET own == TagsOf[u] IN
  CASE match = "all" -> tags \subseteq own \/ own = {}
    [] match = "all_strict" -> tags \subseteq own
    [] match = "any_strict" -> tags \intersect own # {}
    [] match = "exact" -> tags = own
    [] OTHER -> tags \intersect own # {} \/ own = {}

\* a leaf without tags says nothing, unless it asks for units without tags
Says[group \in Groups] ==
  IF group.is = "leaf" THEN group.tags # {} \/ group.match = "exact"
  ELSE \E g \in group.of : Says[g]

\* the units that a group lets pass
Passing[group \in Groups] ==
  LET of == {g \in group.of : Says[g]}
  IN  {u \in Units :
         CASE group.is = "leaf" -> Passes(u, group.tags, group.match)
           [] group.is = "and" -> \A g \in of : u \in Passing[g]
           [] group.is = "or" -> \E g \in of : u \in Passing[g]
           [] group.is = "not" -> \A g \in of : u \notin Passing[g]}

IsTagged(u, r) ==
  /\ r.tags # {} \/ r.match = "exact" => Passes(u, r.tags, r.match)
  /\ \A g \in r.groups : Says[g] => u \in Passing[g]

IsCreated(u, r) ==
  /\ r.after # Always => CreatedAt[u] > r.after
  /\ r.before # Always => CreatedAt[u] < r.before

ASSUME TagFiltersAssumption ==
  /\ Tagged = {u \in Units : IsTagged(u, Served)}
  /\ Created = {u \in Units : IsCreated(u, Served)}

-----------------------------------------------------------------------------
FiltersInit == translated = FALSE /\ filters = {}

\* _tag_filters and _created_range_filters, before the first request
Translate ==
  /\ Native /\ ~translated
  /\ translated' = TRUE /\ filters' = Translation
  /\ UNCHANGED <<vars, request>>

-----------------------------------------------------------------------------
\* The query finds the units that the modes and groups of the request mean, and
\* no others: nothing is lost in the translation, at any depth.
FiltersMean ==
  translated /\ stage = "batch" =>
    \A u \in Units :
      (\A q \in filters : u \in q) <=> IsTagged(u, request) /\ IsCreated(u, request)
=============================================================================
