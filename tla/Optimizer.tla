----------------------------- MODULE Optimizer -----------------------------
(***************************************************************************)
(* From the text of a group { ... } to a plan: parseGraphPattern collects  *)
(* the items of a group into a GraphPattern, optimizeGraphPattern turns    *)
(* the pattern into a plan.  Next to it, what SPARQL says a group means.   *)
(*                                                                         *)
(* The text is a sequence of items, one for each thing the parser's loop   *)
(* recognises; a nested group is again such a sequence.                    *)
(***************************************************************************)
EXTENDS Algebra, SequencesExt

Triple(pat) == [kind |-> "triple", pat |-> pat]
Filter(e) == [kind |-> "filter", expr |-> e]
Bind(x, e) == [kind |-> "bind", var |-> x, expr |-> e]
Optional(group) == [kind |-> "optional", group |-> group]
Minus(group) == [kind |-> "minus", group |-> group]
Graph(graph, group) == [kind |-> "graph", graph |-> graph, group |-> group]
Group(group) == [kind |-> "group", group |-> group]
Union(left, right) == [kind |-> "union", left |-> left, right |-> right]
Subquery == [kind |-> "subquery"]

-----------------------------------------------------------------------------
(* The parser.                                                             *)

EmptyPattern ==
  [type |-> "basic", graph |-> Nil, patterns |-> <<>>, filters |-> <<>>, binds |-> <<>>,
   elements |-> <<>>, children |-> <<>>]

AddChild(pattern, child) == [pattern EXCEPT !.children = Append(@, child)]

AddElement(pattern, item) == [pattern EXCEPT !.elements = Append(@, item)]

(* One round of the loop in parseGraphPattern.  The pattern of GRAPH takes *)
(* over the lists of the group inside it, but not its binds and elements;  *)
(* a subquery is skipped.                                                  *)
RECURSIVE AddItem(_, _)
ParseGroup(group) == FoldLeft(AddItem, EmptyPattern, group)

AddItem(pattern, item) ==
  CASE item.kind = "triple" ->
         [AddElement(pattern, item) EXCEPT !.patterns = Append(@, item.pat)]
    [] item.kind = "filter" ->
         [AddElement(pattern, item) EXCEPT !.filters = Append(@, item)]
    [] item.kind = "bind" ->
         [AddElement(pattern, item) EXCEPT !.binds = Append(@, item)]
    [] item.kind \in {"optional", "minus"} ->
         AddChild(pattern, [ParseGroup(item.group) EXCEPT !.type = item.kind])
    [] item.kind = "group" -> AddChild(pattern, ParseGroup(item.group))
    [] item.kind = "union" ->
         AddChild(pattern, [EmptyPattern EXCEPT !.type = "union",
                              !.children = <<ParseGroup(item.left), ParseGroup(item.right)>>])
    [] item.kind = "graph" ->
         AddChild(pattern, [ParseGroup(item.group) EXCEPT !.type = "graph",
                              !.graph = item.graph, !.binds = <<>>, !.elements = <<>>])
    [] item.kind = "subquery" -> pattern

-----------------------------------------------------------------------------
(* The optimizer.                                                          *)

(* estimateSelectivity, as a rank: predicate and object together come to   *)
(* 0.1 * 0.1, in floating point a little more than the 0.01 of a subject.  *)
Selectivity(pat) ==
  LET bound == {pos \in TriplePosition : pat[pos] \notin VarName}
  IN  CASE bound = {"s", "p", "o"} -> 0
        [] bound \in {{"s", "p"}, {"s", "o"}} -> 1
        [] bound = {"s"} -> 2
        [] bound = {"p", "o"} -> 3
        [] bound \in {{"p"}, {"o"}} -> 4
        [] bound = {} -> 5

(* Mutant of ReorderBySelectivity: the place of a pattern is overwritten,  *)
(* not exchanged.                                                          *)
RECURSIVE ReorderOverwriting(_, _, _)
ReorderOverwriting(pats, i, j) ==
  IF i > Len(pats) THEN pats
  ELSE IF j > Len(pats) THEN ReorderOverwriting(pats, i + 1, i + 2)
  ELSE ReorderOverwriting(IF Selectivity(pats[j]) < Selectivity(pats[i])
                          THEN [pats EXCEPT ![i] = pats[j]] ELSE pats, i, j + 1)

RECURSIVE ReorderBySelectivity(_, _, _)
ReorderBySelectivity(pats, i, j) ==
  IF i > Len(pats) THEN pats
  ELSE IF j > Len(pats) THEN ReorderBySelectivity(pats, i + 1, i + 2)
  ELSE ReorderBySelectivity(IF Selectivity(pats[j]) < Selectivity(pats[i])
                            THEN [pats EXCEPT ![i] = pats[j], ![j] = pats[i]] ELSE pats,
                            i, j + 1)

(* Nothing filters, extends or joins an empty plan.                        *)
JoinTo(plan, pat) ==
  LET scan == Scan(pat.s, pat.p, pat.o)
  IN  IF plan = NoPlan THEN scan ELSE JoinPlan(plan, scan)

FilterOn(plan, item) == IF plan = NoPlan THEN plan ELSE FilterPlan(plan, item.expr)

BindOn(plan, item) == IF plan = NoPlan THEN plan ELSE BindPlan(plan, item.var, item.expr)

AddToPlan(plan, item) ==
  CASE item.kind = "triple" -> JoinTo(plan, item.pat)
    [] item.kind = "bind" -> BindOn(plan, item)
    [] item.kind = "filter" -> FilterOn(plan, item)

(* Elements are planned in the order of the text; without elements (in     *)
(* GRAPH) the patterns come first, by selectivity, then filters and binds. *)
PlanElements(pattern) ==
  IF pattern.elements # <<>>
  THEN FoldLeft(AddToPlan, NoPlan, pattern.elements)
  ELSE LET joins == FoldLeft(JoinTo, NoPlan, ReorderBySelectivity(pattern.patterns, 1, 2))
       IN  FoldLeft(BindOn, FoldLeft(FilterOn, joins, pattern.filters), pattern.binds)

(* A child is attached to the plan by its type; to no plan it is the plan. *)
Attach(plan, child, type) ==
  IF child = NoPlan THEN plan
  ELSE IF plan = NoPlan THEN child
  ELSE CASE type = "optional" -> OptionalPlan(plan, child)
         [] type = "union" -> UnionPlan(plan, child)
         [] type = "minus" -> MinusPlan(plan, child)
         [] type \in {"basic", "graph"} -> JoinPlan(plan, child)

(* optimizeGraphPattern: every type is planned as a basic pattern, GRAPH   *)
(* is wrapped around the result.                                           *)
RECURSIVE OptimizeGraphPattern(_)
OptimizeGraphPattern(pattern) ==
  LET attach(plan, child) == Attach(plan, OptimizeGraphPattern(child), child.type)
      basic == FoldLeft(attach, PlanElements(pattern), pattern.children)
  IN  IF pattern.type = "graph" THEN GraphPlan(basic, pattern.graph) ELSE basic

(* optimizeSelect: the modifiers around the plan of the WHERE clause; Nil  *)
(* where the query has none.                                               *)

(* Mutant of OptimizeSelect: LIMIT counts the rows that OFFSET skips.      *)
LimitBeforeOffset(pattern, mods) ==
  LET where == OptimizeGraphPattern(pattern)
      ordered == IF mods.orderBy # <<>> THEN OrderByPlan(where, mods.orderBy) ELSE where
      unique == IF mods.distinct THEN DistinctPlan(ordered) ELSE ordered
      projected == IF mods.vars # Nil THEN ProjectionPlan(unique, mods.vars) ELSE unique
      limited == IF mods.limit # Nil THEN LimitPlan(projected, mods.limit) ELSE projected
  IN  IF mods.offset # Nil THEN OffsetPlan(limited, mods.offset) ELSE limited

OptimizeSelect(pattern, mods) ==
  LET where == OptimizeGraphPattern(pattern)
      ordered == IF mods.orderBy # <<>> THEN OrderByPlan(where, mods.orderBy) ELSE where
      unique == IF mods.distinct THEN DistinctPlan(ordered) ELSE ordered
      projected == IF mods.vars # Nil THEN ProjectionPlan(unique, mods.vars) ELSE unique
      skipped == IF mods.offset # Nil THEN OffsetPlan(projected, mods.offset) ELSE projected
  IN  IF mods.limit # Nil THEN LimitPlan(skipped, mods.limit) ELSE skipped

OptimizeAsk(pattern) == LimitPlan(OptimizeGraphPattern(pattern), 1)

(* Mutant of ExtractVariables: nested groups are not visited.              *)
ExtractOwnVariables(pattern) ==
  UNION ({VarsOf(pat) : pat \in ToSet(pattern.patterns)}
         \cup {{bind.var} : bind \in ToSet(pattern.binds)})

(* The columns of SELECT *.                                                *)
RECURSIVE ExtractVariables(_)
ExtractVariables(pattern) ==
  LET ofElement(item) == CASE item.kind = "triple" -> VarsOf(item.pat)
                           [] item.kind = "bind" -> {item.var}
                           [] item.kind = "filter" -> {}
  IN  UNION ({ofElement(e) : e \in ToSet(pattern.elements)}
             \cup {VarsOf(pat) : pat \in ToSet(pattern.patterns)}
             \cup {{bind.var} : bind \in ToSet(pattern.binds)}
             \cup {ExtractVariables(child) : child \in ToSet(pattern.children)})

-----------------------------------------------------------------------------
(* What SPARQL 1.1 (section 18.2.2) says of a group: its items in their    *)
(* order, then its filters on what they give; the filters of an OPTIONAL   *)
(* group are the condition of the left join.                               *)

NoFilters(group) == SelectSeq(group, LAMBDA item : item.kind # "filter")

Conditions(group) == {item.expr : item \in {i \in ToSet(group) : i.kind = "filter"}}

Holds(conditions, row) ==
  \A e \in conditions : BooleanValue(Meaning(e, row)) = True

LeftJoin(left, right, conditions) ==
  LET joined == {l \in Joined(left, right) : Holds(conditions, l.row)}
      matched == {l.by.left : l \in joined}
  IN  joined \cup {[row |-> l.row, by |-> [left |-> l.by]] :
                     l \in {m \in left : m.by \notin matched}}

Unit == {[row |-> EmptyRow, by |-> <<>>]}

RECURSIVE GroupSolutions(_, _, _)
RECURSIVE ItemSolutions(_, _, _, _)

ItemSolutions(left, item, graph, quads) ==
  CASE item.kind = "triple" ->
         Joined(left, Solutions(Scan(item.pat.s, item.pat.p, item.pat.o), graph, quads))
    [] item.kind = "bind" ->
         {[l EXCEPT !.row = Extend(@, item.var, Meaning(item.expr, @))] : l \in left}
    [] item.kind = "optional" ->
         LeftJoin(left, GroupSolutions(NoFilters(item.group), graph, quads),
                  Conditions(item.group))
    [] item.kind = "minus" -> Without(left, GroupSolutions(item.group, graph, quads))
    [] item.kind = "graph" ->
         LET in(h) == GroupSolutions(item.group, h, quads)
             named(h) == {[row |-> item.graph :> h, by |-> h]}
         IN  Joined(left, IF item.graph \notin VarName THEN in(item.graph)
                          ELSE UNION {Joined(in(h), named(h)) : h \in NamedGraphs(quads)})
    [] item.kind = "group" -> Joined(left, GroupSolutions(item.group, graph, quads))
    [] item.kind = "union" ->
         Joined(left, Either(GroupSolutions(item.left, graph, quads),
                             GroupSolutions(item.right, graph, quads)))

GroupSolutions(group, graph, quads) ==
  LET add(left, item) == ItemSolutions(left, item, graph, quads)
  IN  {l \in FoldLeft(add, Unit, NoFilters(group)) : Holds(Conditions(group), l.row)}
=============================================================================
