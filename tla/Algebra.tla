------------------------------ MODULE Algebra ------------------------------
(***************************************************************************)
(* Rows of bindings, the plans the optimizer hands to the executor         *)
(* (pkg/sparql/optimizer: ScanPlan, JoinPlan, ...), and what a plan means  *)
(* on one set of quads.                                                    *)
(***************************************************************************)
EXTENDS Expressions, FiniteSets

EmptyRow == [x \in {} |-> True]

Compatible(r1, r2) == \A x \in DOMAIN r1 \cap DOMAIN r2 : r1[x] = r2[x]

Shares(r1, r2) == DOMAIN r1 \cap DOMAIN r2 # {}

Merge(r1, r2) ==
  [x \in DOMAIN r1 \cup DOMAIN r2 |-> IF x \in DOMAIN r1 THEN r1[x] ELSE r2[x]]

Project(row, vars) == [x \in DOMAIN row \cap vars |-> row[x]]

(* BIND: a row whose expression fails stays as it is. *)
Extend(row, x, value) ==
  IF value = Error THEN row
  ELSE [y \in DOMAIN row \cup {x} |-> IF y = x THEN value ELSE row[y]]

-----------------------------------------------------------------------------
(* Plans.  A position of a scan is a term or the name of a variable.       *)

Scan(s, p, o) == [op |-> "scan", s |-> s, p |-> p, o |-> o]
JoinPlan(l, r) == [op |-> "join", left |-> l, right |-> r]
OptionalPlan(l, r) == [op |-> "optional", left |-> l, right |-> r]
UnionPlan(l, r) == [op |-> "union", left |-> l, right |-> r]
MinusPlan(l, r) == [op |-> "minus", left |-> l, right |-> r]
FilterPlan(in, e) == [op |-> "filter", input |-> in, expr |-> e]
BindPlan(in, x, e) == [op |-> "bind", input |-> in, var |-> x, expr |-> e]
GraphPlan(in, graph) == [op |-> "graph", input |-> in, graph |-> graph]
ProjectionPlan(in, vars) == [op |-> "project", input |-> in, vars |-> vars]
DistinctPlan(in) == [op |-> "distinct", input |-> in]
OrderByPlan(in, keys) == [op |-> "order", input |-> in, keys |-> keys]
LimitPlan(in, n) == [op |-> "limit", input |-> in, n |-> n]
OffsetPlan(in, n) == [op |-> "offset", input |-> in, n |-> n]
NoPlan == [op |-> "none"]

TwoSided == {"join", "optional", "union", "minus"}
OneSided == {"filter", "bind", "graph", "project", "distinct", "order", "limit", "offset"}

TriplePosition == {"s", "p", "o"}

VarsOf(pat) == {pat[pos] : pos \in TriplePosition} \cap VarName

(* The pattern a scan hands to the store. *)
StorePattern(pat, graph) ==
  LET at(t) == IF t \in VarName THEN Var ELSE t
  IN  [s |-> at(pat.s), p |-> at(pat.p), o |-> at(pat.o), g |-> at(graph)]

(* A variable that occurs twice must meet the same term twice. *)
Consistent(pat, q) ==
  \A i, j \in TriplePosition : pat[i] = pat[j] /\ pat[i] \in VarName => q[i] = q[j]

ScanRow(pat, q) ==
  [x \in VarsOf(pat) |-> q[CHOOSE pos \in TriplePosition : pat[pos] = x]]

-----------------------------------------------------------------------------
(* The meaning of a plan: its solutions on a set of quads, each with the   *)
(* way it came about, so that a row has as many solutions as SPARQL gives  *)
(* it duplicates.  LIMIT and OFFSET are not part of it.                    *)

NamedGraphs(quads) == {q.g : q \in quads} \ {DefaultGraph}

Joined(left, right) ==
  {[row |-> Merge(lr[1].row, lr[2].row), by |-> [left |-> lr[1].by, right |-> lr[2].by]] :
     lr \in {pair \in left \X right : Compatible(pair[1].row, pair[2].row)}}

(* The solutions of OPTIONAL without a match keep the row of the left.     *)
LeftAlone(left, right) ==
  {[row |-> l.row, by |-> [left |-> l.by]] :
     l \in {m \in left : \A r \in right : ~Compatible(m.row, r.row)}}

Either(left, right) ==
  {[row |-> l.row, by |-> [left |-> l.by]] : l \in left}
  \cup {[row |-> r.row, by |-> [right |-> r.by]] : r \in right}

Without(left, right) ==
  {l \in left : \A r \in right : ~(Shares(l.row, r.row) /\ Compatible(l.row, r.row))}

RECURSIVE Solutions(_, _, _)
Solutions(plan, graph, quads) ==
  LET left == Solutions(plan.left, graph, quads)
      right == Solutions(plan.right, graph, quads)
      input == Solutions(plan.input, graph, quads)
      inGraph(h) == LET here == [x \in {plan.graph} |-> h]
                    IN  {[row |-> Merge(l.row, here), by |-> [left |-> l.by]] :
                           l \in {m \in Solutions(plan.input, h, quads) :
                                    Compatible(m.row, here)}}
  IN  CASE plan.op = "scan" ->
             {[row |-> ScanRow(plan, q), by |-> q] :
                q \in {m \in Answer(quads, StorePattern(plan, graph)) : Consistent(plan, m)}}
        [] plan.op = "join" -> Joined(left, right)
        [] plan.op = "optional" -> Joined(left, right) \cup LeftAlone(left, right)
        [] plan.op = "union" -> Either(left, right)
        [] plan.op = "minus" -> Without(left, right)
        [] plan.op = "filter" -> {l \in input : BooleanValue(Meaning(plan.expr, l.row)) = True}
        [] plan.op = "bind" ->
             {[l EXCEPT !.row = Extend(@, plan.var, Meaning(plan.expr, @))] : l \in input}
        [] plan.op = "project" -> {[l EXCEPT !.row = Project(@, plan.vars)] : l \in input}
        [] plan.op = "distinct" -> {[row |-> l.row, by |-> <<>>] : l \in input}
        [] plan.op = "order" -> input
        [] plan.op = "graph" ->
             IF plan.graph \in VarName
             THEN UNION {inGraph(h) : h \in NamedGraphs(quads)}
             ELSE Solutions(plan.input, plan.graph, quads)

Count(solutions, row) == Cardinality({l \in solutions : l.row = row})

RowsOf(solutions) == {l.row : l \in solutions}
=============================================================================
