------------------------------ MODULE MCEngine ------------------------------
(***************************************************************************)
(* Plans over every iterator, run beside up to two commits of others, and  *)
(* whole queries from their text, run alone: every modifier and form, over *)
(* clauses that join, filter, bind, subtract and nest.  Databases have up  *)
(* to three quads; ta is a literal with the text of the IRI a.             *)
(***************************************************************************)
EXTENDS Engine

CONSTANTS x, y, z, a, b, pr, ta, qt, tt, g, yes, no, dg, var, nil, none

MCTerm == {a, b, pr, ta, qt, tt, g, yes, no, dg}
MCStrOf == [t \in MCTerm |-> none]
MCHash == [s \in {} |-> s]
MCNumber == [t \in {} |-> 0]
MCRank == (a :> 0) @@ (b :> 1) @@ (pr :> 2) @@ (ta :> 3) @@ (tt :> 4)
          @@ (g :> 5) @@ (yes :> 6) @@ (no :> 7) @@ (dg :> 8) @@ (qt :> 9)
MCKind == [t \in MCTerm |-> IF t \in {ta, yes, no} THEN "literal" ELSE "iri"]
NotApplied(fn, values) == Error
MCText == [t \in MCTerm |-> IF t = ta THEN a ELSE t]

Q(s, o, graph) == [s |-> s, p |-> pr, o |-> o, g |-> graph]

Versions ==
  {{Q(a, b, dg), Q(b, a, dg), Q(a, ta, dg)}, {Q(a, b, dg), Q(a, a, dg), Q(b, b, g)},
   {Q(a, qt, dg), Q(b, a, dg)}}

S(s, o) == Scan(s, pr, o)

Select(plan) == [form |-> "select", plan |-> plan, distinct |-> FALSE, template |-> <<>>,
                 resources |-> {}]
SelectDistinct(plan) == [Select(plan) EXCEPT !.distinct = TRUE]
AskPlan(plan) == [Select(plan) EXCEPT !.form = "ask"]
ConstructPlan(plan, template) == [Select(plan) EXCEPT !.form = "construct", !.template = template]
DescribeQuery(plan, resources) ==
  [Select(plan) EXCEPT !.form = "describe", !.resources = resources]

Asc(v) == [op |-> "var", var |-> v, ascending |-> TRUE]
Desc(v) == [op |-> "var", var |-> v, ascending |-> FALSE]
Complex == [op |-> "other", var |-> x, ascending |-> TRUE]

XY == S(x, y)
Path == JoinPlan(XY, S(y, z))
Equal == BinaryExpr("=", VarExpr(x), VarExpr(y))

JoinQueries ==
  {Select(Path),
   Select(JoinPlan(Path, S(z, x))),
   Select(S(x, x)),
   Select(GraphPlan(JoinPlan(S(x, y), S(y, z)), g)),
   Select(FilterPlan(Path, Equal)),
   Select(BindPlan(XY, z, VarExpr(x))),
   Select(JoinPlan(BindPlan(XY, z, VarExpr(y)), S(z, x))),
   Select(UnionPlan(XY, S(y, x))),
   Select(JoinPlan(UnionPlan(S(x, a), S(a, x)), XY)),
   Select(JoinPlan(XY, UnionPlan(S(y, z), GraphPlan(S(y, z), g)))),
   Select(JoinPlan(XY, S(y, tt))),
   Select(UnionPlan(XY, S(x, tt))),
   Select(NoPlan)}

OuterQueries ==
  {Select(OptionalPlan(XY, S(y, z))),
   Select(OptionalPlan(OptionalPlan(XY, S(y, z)), S(z, x))),
   Select(OptionalPlan(XY, S(y, tt))),
   Select(OptionalPlan(XY, JoinPlan(S(y, z), S(z, x)))),
   Select(MinusPlan(XY, S(y, x))),
   Select(MinusPlan(Path, UnionPlan(S(z, z), S(x, b))))}

ResultQueries ==
  {Select(OrderByPlan(OptionalPlan(XY, S(y, z)), <<Desc(z), Asc(x)>>)),
   Select(OrderByPlan(Path, <<Asc(x), Desc(z)>>)),
   Select(OrderByPlan(XY, <<Complex>>)),
   Select(LimitPlan(OrderByPlan(XY, <<Desc(y), Asc(x)>>), 1)),
   Select(LimitPlan(OffsetPlan(ProjectionPlan(Path, {x}), 1), 2)),
   SelectDistinct(ProjectionPlan(DistinctPlan(Path), {x, y})),
   SelectDistinct(DistinctPlan(ProjectionPlan(UnionPlan(XY, S(y, x)), {x}))),
   AskPlan(LimitPlan(Path, 1)),
   AskPlan(LimitPlan(OptionalPlan(XY, S(y, z)), 1)),
   AskPlan(LimitPlan(S(x, yes), 1)),
   ConstructPlan(XY, <<S(y, x), S(y, z)>>),
   ConstructPlan(UnionPlan(XY, S(z, ta)), <<S(x, y), S(a, z)>>),
   DescribeQuery(NoPlan, {a, b}),
   DescribeQuery(S(a, y), {})}

AllQueries == JoinQueries \cup OuterQueries \cup ResultQueries

GraphQueries == {Select(GraphPlan(FilterPlan(S(x, y), Bound(x)), g))}

-----------------------------------------------------------------------------
(* Whole queries. *)

T(s, o) == Triple([s |-> s, p |-> pr, o |-> o])

Differ == BinaryExpr("!=", VarExpr(x), VarExpr(y))

Clauses ==
  {<<T(x, y)>>, <<T(x, y), T(y, z)>>,
   <<T(x, y), Filter(Differ), Optional(<<T(y, z)>>)>>,
   <<T(x, y), Bind(z, VarExpr(y)), Minus(<<T(y, x)>>)>>,
   <<T(x, y), Graph(g, <<T(z, y), T(z, b)>>)>>,
   <<T(x, y), Group(<<T(z, x), Optional(<<T(y, z)>>)>>)>>}

Key(v, up) == [op |-> "var", var |-> v, ascending |-> up]

NoModifiers ==
  [orderBy |-> <<>>, distinct |-> FALSE, vars |-> Nil, offset |-> Nil, limit |-> Nil]

OrderedSlices ==
  [orderBy : {<<>>, <<Key(z, FALSE), Key(x, FALSE), Key(y, TRUE)>>}, distinct : {FALSE},
   vars : {Nil, {x, z}}, offset : {Nil, 1}, limit : {Nil, 2}]

Distinct == [NoModifiers EXCEPT !.distinct = TRUE, !.vars = {x}]

Ask(form, text, mods, template) ==
  [form |-> form, text |-> text, mods |-> mods, template |-> template, resources |-> {}]

Template == <<[s |-> y, p |-> pr, o |-> x], [s |-> x, p |-> pr, o |-> z]>>

Requests ==
  {Ask("select", text, mods, <<>>) : text \in Clauses, mods \in OrderedSlices}
  \cup {Ask("select", text, Distinct, <<>>) : text \in {<<T(x, y)>>, <<T(x, y), Minus(<<T(y, x)>>)>>}}
  \cup {Ask(form, text, NoModifiers, Template) :
          form \in {"ask", "construct", "describe"}, text \in Clauses}

PlansAndTexts == AllQueries \cup Compiled

TwoBesidePlans(q) == IF "text" \in DOMAIN q THEN 0 ELSE 2

None(q) == 0
=============================================================================
