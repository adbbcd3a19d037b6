----------------------------- MODULE MCPlanning -----------------------------
(***************************************************************************)
(* WHERE clauses of up to four items over three variables, tried on three  *)
(* databases with a default and a named graph; clauses of one triple with  *)
(* a condition that nests two operators, on rows with a term of every      *)
(* kind: the two booleans, a number that is true, one that is false, and   *)
(* an IRI, which has no truth value, or a condition that is a function, on *)
(* numbers and strings of many types; and whole queries of every form.     *)
(***************************************************************************)
EXTENDS Planning

CONSTANTS x, y, z, dg, var, nil, none

Ex(name) == IRI(<<"http:", "ex/", name>>)
a == Ex("a")
b == Ex("b")
pr == Ex("pr")
g == Ex("g")
yes == Boolean(<<"true">>)
no == Boolean(<<"false">>)
zero == Integer(<<"0">>)
one == Integer(<<"1">>)

MCTerm == {a, b, pr, g, yes, no, zero, one, dg}
MCTruthy == {yes, one}
MCFalsy == {no, zero}
MCNumeric == {zero, one}
MCStrOf == [t \in MCTerm |-> none]
MCHash == [s \in {} |-> s]
MCNumber == (zero :> 0) @@ (one :> 1)
MCRank == (zero :> 0) @@ (one :> 1) @@ (no :> 2) @@ (yes :> 3) @@ (a :> 4) @@ (b :> 5)
          @@ (pr :> 6) @@ (g :> 7) @@ (dg :> 8)

Q(s, o, graph) == [s |-> s, p |-> pr, o |-> o, g |-> graph]

Versions ==
  {{Q(a, b, dg), Q(b, a, dg), Q(a, b, g)},
   {Q(a, b, dg), Q(a, a, dg), Q(b, b, g), Q(b, a, g)},
   {Q(b, a, dg), Q(b, b, dg), Q(a, a, g)}}

T(s, o) == Triple([s |-> s, p |-> pr, o |-> o])

Equal == BinaryExpr("=", VarExpr(x), VarExpr(y))
Differ == BinaryExpr("!=", VarExpr(y), VarExpr(z))

PlacedItems ==
  {T(x, y), T(y, z), T(z, a),
   Filter(Equal), Filter(Negation(Differ)), Bind(z, VarExpr(x)),
   Optional(<<T(y, z)>>), Optional(<<T(x, z), T(z, y), Filter(Differ)>>),
   Minus(<<T(y, z), Optional(<<T(z, x)>>)>>),
   Graph(g, <<T(x, z), T(b, z), Filter(Bound(z)), Optional(<<T(z, y)>>)>>),
   Group(<<T(x, z), Bind(y, VarExpr(z))>>)}

UnionItems == {T(x, y), Union(<<T(x, a)>>, <<T(a, x)>>)}

-----------------------------------------------------------------------------
Value == {yes, no, zero, one, a}

MixedRows == UNION {[bound -> Value] : bound \in SUBSET {x, y}}

Atoms ==
  {VarExpr(x), VarExpr(y), Lit(one), Bound(x), Bound(y)}

Comparisons ==
  {BinaryExpr(op, VarExpr(x), e) : op \in Comparison, e \in {VarExpr(y), Lit(one)}}

Level1 == Atoms \cup Comparisons

Level2 ==
  {Negation(e) : e \in Level1}
  \cup {BinaryExpr(op, e1, e2) : op \in Logical, e1 \in Level1, e2 \in Level1}

Level3 ==
  {Negation(e) : e \in {f \in Level2 : f.op \in Logical}}
  \cup {BinaryExpr(op, e1, e2) : op \in Logical,
          e1 \in {Negation(VarExpr(x)), BinaryExpr("or", VarExpr(x), VarExpr(y)),
                  BinaryExpr("and", VarExpr(y), Bound(x))},
          e2 \in {VarExpr(x), Negation(VarExpr(y)), Bound(y),
                  BinaryExpr("or", VarExpr(y), Bound(y))}}

Membership ==
  {InExpr(e, list, negated) :
     e \in {VarExpr(x), Lit(one)}, negated \in BOOLEAN,
     list \in {<<VarExpr(y)>>, <<VarExpr(y), Lit(one)>>, <<Lit(one), Lit(a)>>, <<>>,
              <<BinaryExpr("=", VarExpr(y), Lit(one))>>}}

(* Functions and arithmetic, on terms of every kind.                        *)
Numbers ==
  {Integer(<<"-", "1", "5">>), Integer(<<"2">>)}
  \cup {Literal(<<"3">>, <<>>, XSD(type)) : type \in {"int", "long", "byte", "float"}}
  \cup {Literal(<<"2", ".", "5">>, <<>>, XSD(type)) : type \in {"decimal", "double"}}
  \cup {Literal(<<"-", "0", ".", "5">>, <<>>, XSD("double"))}

Strings ==
  {PlainLiteral(chars) : chars \in {<<>>, <<"*">>, <<"a">>, <<"a", "B", "a">>, <<"en">>,
                                   <<"en", "-", "A">>, <<"deg", Continuation, "a">>}}
  \cup {Literal(<<"a">>, <<>>, XSD("string")), Literal(<<"a">>, <<"en">>, <<>>),
        Literal(<<"a", "B">>, <<"en">>, <<>>), Literal(<<"B">>, <<"EN">>, <<>>)}

WideTerms == {a, BlankNode("n"), yes, zero, one, Integer(<<"a">>)} \cup Numbers \cup Strings

WideRows == UNION {[bound -> WideTerms] : bound \in SUBSET {x, y}}

Calls ==
  {Call(fn, <<VarExpr(x)>>) :
     fn \in TestOfTerm \cup PartOfTerm \cup OneString \cup OneNumber \cup {"SUBSTR", "YEAR"}}
  \cup {Call(fn, <<VarExpr(x), VarExpr(y)>>) :
          fn \in TwoStrings \cup {"STRLEN", "CONCAT", "SUBSTR", "SAMETERM"}}
  \cup {BinaryExpr(op, VarExpr(x), VarExpr(y)) : op \in Arithmetic}
  \cup {Call("CONCAT", <<>>), Call("LANGMATCHES", <<Call("LANG", <<VarExpr(x)>>), VarExpr(y)>>),
        Call("SUBSTR", <<Lit(PlainLiteral(<<"a", "B", "en">>)), VarExpr(x), VarExpr(y)>>),
        Call("SUBSTR", <<VarExpr(x), VarExpr(y), Lit(one)>>),
        BinaryExpr("-", VarExpr(x), BinaryExpr("-", VarExpr(y), Lit(one))),
        BinaryExpr("/", BinaryExpr("*", VarExpr(x), Lit(one)), VarExpr(y))}

RowsFor(e) == IF e \in Calls THEN WideRows ELSE MixedRows

AllConditions == (Level1 \cup Level2 \cup Level3 \cup Membership) \ {Equal}

-----------------------------------------------------------------------------
(* The styles: clauses of every length are written in the plainest.        *)

PlainText ==
  [names |-> "full", sigil |-> "?", lists |-> FALSE, stops |-> FALSE, terse |-> FALSE,
   offset |-> FALSE]
Prefixed == [PlainText EXCEPT !.names = "prefixed", !.lists = TRUE, !.terse = TRUE]
Relative == [PlainText EXCEPT !.names = "relative", !.sigil = "$", !.stops = TRUE, !.offset = TRUE]
Both == [PlainText EXCEPT !.names = "both", !.lists = TRUE, !.stops = TRUE]
Bare == [PlainText EXCEPT !.terse = TRUE]

Styles == {PlainText, Prefixed, Relative, Both, Bare}

T3(s, p, o) == Triple([s |-> s, p |-> p, o |-> o])
Greeting == Literal(<<"hi">>, <<"en">>, <<>>)
Dated == Literal(<<"now">>, <<>>, XSD("date"))

ListItems ==
  {T(x, y), T3(x, RDFType, a), T3(x, pr, Greeting), T3(x, b, one), T3(a, pr, Dated),
   T3(x, b, Integer(<<"-", "1">>)), Filter(Bound(x)), Graph(y, <<T(x, y)>>),
   Bind(z, BinaryExpr("-", VarExpr(x), Lit(one))), Subquery}

WrittenItems == ListItems \cup PlacedItems \cup UnionItems

ItemsOf == [s \in Styles |-> IF s = PlainText THEN PlacedItems ELSE WrittenItems]
ConditionsOf ==
  [s \in Styles |-> IF s = PlainText THEN AllConditions \cup Calls ELSE (Level1 \cup Membership) \ {Equal}]
LengthOf == [s \in Styles |-> IF s = PlainText THEN 4 ELSE 2]

PlainStyle == {PlainText}
Unions == [s \in PlainStyle |-> UnionItems]
NoCondition == [s \in PlainStyle |-> {}]
TwoItems == [s \in PlainStyle |-> 2]

-----------------------------------------------------------------------------
(* What may stand around a clause.                                         *)

Sum == BinaryExpr("+", BinaryExpr("*", VarExpr(x), Lit(one)), VarExpr(y))

Select(field, values) == {[SelectStar EXCEPT ![field] = v] : v \in values}

Columned ==
  UNION {{[h EXCEPT !.distinct = TRUE], [h EXCEPT !.reduced = TRUE], h} :
           h \in Select("vars", {Nil, <<x, z>>, <<Computed(Bound(x), z)>>,
                                <<y, Computed(Sum, z), x>>})}

Modified ==
  {[SelectStar EXCEPT !.vars = <<x>>, !.groupBy = groups, !.having = conditions,
                      !.orderBy = keys, !.limit = limit, !.offset = offset] :
     groups \in {<<>>, <<x, y>>, <<Computed(Sum, z), x>>, <<Computed(Bound(x), Nil)>>},
     conditions \in {<<>>, <<Filter(Equal), Filter(Negation(Bound(z)))>>},
     keys \in {<<>>, <<Key(x, TRUE)>>, <<Key(x, TRUE), Key(y, TRUE)>>,
              <<Key(x, TRUE), Key(y, FALSE)>>},
     limit \in {Nil, 10}, offset \in {Nil, 5}}

Forms ==
  {[SelectStar EXCEPT !.form = "ask", !.limit = limit] : limit \in {Nil, 1}}
  \cup {[SelectStar EXCEPT !.form = "construct", !.template = template] :
          template \in {<<T(x, y)>>, <<T(x, y), T(x, z)>>, <<T(a, y), T3(a, b, x), T3(a, b, z)>>}}
  \cup {[SelectStar EXCEPT !.form = "describe", !.resources = resources, !.where = where] :
          resources \in {<<a>>, <<a, b>>, <<x>>, <<a, x, b>>}, where \in {Nil, <<>>}}

Headings == Columned \cup Modified \cup Forms

Clauses == {<<T(x, y)>>, <<T(x, y), T(y, z)>>, <<T(x, y), Filter(Bound(x))>>}
=============================================================================
