------------------------------ MODULE Planning ------------------------------
(***************************************************************************)
(* From the text of a query to its plan.  A query is made of its WHERE     *)
(* clause, item by item, and then of what stands around the clause; it is  *)
(* written in one of the styles, and the parser reads it each time.  What  *)
(* is read should be what was written, the plan of the clause should mean  *)
(* what SPARQL says of it, and its filters what SPARQL says of the rows    *)
(* that reach them (filterIterator, evaluator.go).                         *)
(***************************************************************************)
EXTENDS SPARQLText

CONSTANTS
  Style,     \* the ways to write a query
  Item,      \* the items a clause is made of, for each style
  MaxItems,  \* and how many it has
  Heading,   \* queries without their clause
  Finished,  \* the clauses these are put around
  Condition, \* the conditions that end a clause after its first triple, for each style
  Row(_),    \* the rows that reach a filter
  Version    \* the databases a plan is tried on

VARIABLES
  style,     \* how the query is written
  text,      \* the items of its clause
  heading,   \* the query without them
  parsed     \* what the parser returns

vars == <<style, text, heading, parsed>>

SelectStar == [SelectAll EXCEPT !.where = <<>>]

(* DESCRIBE may have no clause. *)
Around(clause, head) ==
  IF head.where = Nil THEN head ELSE [head EXCEPT !.where = clause]

query == Around(text, heading)

Parse(clause, head) ==
  /\ text' = clause
  /\ heading' = head
  /\ parsed' = ReadQuery(QueryWords(Around(clause, head), style))
  /\ UNCHANGED style

Init ==
  /\ style \in Style
  /\ text = <<>>
  /\ heading = SelectStar
  /\ parsed = ReadQuery(QueryWords(SelectStar, style))

RECURSIVE ExprVars(_)
ExprVars(e) ==
  CASE e.op = "var" -> {e.var}
    [] e.op \in {"lit", "exists"} -> {}
    [] e.op = "call" -> UNION {ExprVars(arg) : arg \in ToSet(e.args)}
    [] e.op = "not" -> ExprVars(e.arg)
    [] e.op = "in" -> ExprVars(e.arg) \cup UNION {ExprVars(f) : f \in ToSet(e.list)}
    [] e.op \in Logical \cup Comparison \cup Arithmetic ->
         ExprVars(e.left) \cup ExprVars(e.right)

Closed == text # <<>> /\ Last(text).kind = "filter" /\ Last(text).expr \in Condition[style]

Open == heading = SelectStar /\ ~Closed /\ Len(text) < MaxItems[style]

Write ==
  /\ Open
  /\ \E item \in Item[style] : Parse(Append(text, item), heading)

(* A condition on the variables of the triple before it. *)
WriteCondition ==
  /\ Open /\ Len(text) = 1 /\ text[1].kind = "triple"
  /\ \E e \in Condition[style] :
       /\ ExprVars(e) \subseteq VarsOf(text[1].pat)
       /\ Parse(Append(text, Filter(e)), heading)

Finish ==
  /\ text \in Finished /\ heading = SelectStar
  /\ \E head \in Heading : Parse(text, head)

Next == Write \/ WriteCondition \/ Finish

Spec == Init /\ [][Next]_vars

-----------------------------------------------------------------------------
(* A query is read as it was written, however it was, with the exceptions    *)
(* that Refused and Cut name, and no others: the texts the parser refuses    *)
(* are the first, those it reads otherwise the second.                       *)
ReadsItsQuery ==
  /\ parsed.ok <=> ~Refused(query, style)
  /\ parsed.ok => (parsed.v = query <=> ~Cut(query, style))

(* What the parser accepts, with exceptions and all, is the query with parts *)
(* of it missing: it never confuses a modifier, a term or a group with       *)
(* another, and the clause is there in whole or not at all.                  *)
OnlyLeavesOut ==
  parsed.ok =>
    LET read == parsed.v IN
    /\ <<read.form, read.distinct, read.reduced, read.template>> =
         <<query.form, query.distinct, query.reduced, query.template>>
    /\ read.where \in {query.where, Nil}
    /\ ToSet(read.resources) \subseteq ToSet(query.resources)
    /\ read.vars # Nil => read.vars = SelectSeq(query.vars, LAMBDA c : c \in VarName)
    /\ Len(read.groupBy) <= Len(query.groupBy)
    /\ \A i \in DOMAIN read.groupBy : read.groupBy[i] \in {query.groupBy[i], Nil}
    /\ read.having \in {query.having, <<>>}
    /\ IsPrefix(read.orderBy, query.orderBy)
    /\ read.limit \in {query.limit, Nil} /\ read.offset \in {query.offset, Nil}

-----------------------------------------------------------------------------
(* The plan of a clause that was read. *)
IsClause == heading = SelectStar /\ parsed.ok

pattern == ParseGroup(parsed.v.where)

Plan == OptimizeGraphPattern(pattern)

SameRows(solutions1, solutions2) ==
  /\ RowsOf(solutions1) = RowsOf(solutions2)
  /\ \A row \in RowsOf(solutions1) : Count(solutions1, row) = Count(solutions2, row)

(* The plan of the text gives the rows of the text, on every database.     *)
PlanMeansText ==
  /\ Plan # NoPlan
  /\ \A quads \in Version :
       SameRows(Solutions(Plan, Nil, quads), GroupSolutions(text, Nil, quads))

(* The variables that the triples and binds among the first n items bind.  *)
BoundBefore(group, n) ==
  UNION {CASE group[i].kind = "triple" -> VarsOf(group[i].pat)
           [] group[i].kind = "bind" -> {group[i].var}
           [] OTHER -> {} : i \in 1 .. n}

RECURSIVE WellPlaced(_)
(* A group the planner is up to: it starts with a triple; filters and      *)
(* binds come after the triples they speak of, triples before OPTIONAL and *)
(* MINUS; a bind sets a new variable and does not stand in GRAPH; there is *)
(* no UNION and no subquery.                                               *)
WellPlaced(group) ==
  /\ group # <<>> /\ group[1].kind = "triple"
  /\ \A i \in DOMAIN group :
       CASE group[i].kind = "triple" ->
              \A j \in 1 .. i - 1 : group[j].kind \notin {"optional", "minus"}
         [] group[i].kind = "filter" -> ExprVars(group[i].expr) \subseteq BoundBefore(group, i - 1)
         [] group[i].kind = "bind" ->
              /\ ExprVars(group[i].expr) \subseteq BoundBefore(group, i - 1)
              /\ group[i].var \notin ExtractVariables(ParseGroup(SubSeq(group, 1, i - 1)))
         [] group[i].kind \in {"optional", "minus", "group"} -> WellPlaced(group[i].group)
         [] group[i].kind = "graph" ->
              /\ WellPlaced(group[i].group)
              /\ \A j \in DOMAIN group[i].group : group[i].group[j].kind # "bind"
         [] group[i].kind \in {"union", "subquery"} -> FALSE

(* Splitting a group into elements and children, reordering the patterns   *)
(* of GRAPH and moving nested groups behind the triples does not change    *)
(* the answer of a well-placed query, nor how often it gives a row.        *)
WellPlacedTextKeepsMeaning == IsClause /\ WellPlaced(text) => PlanMeansText

(* SELECT * shows every variable that a triple or a BIND, in whatever group, *)
(* binds in some row of the answer.                                          *)
StarShowsEveryVariable ==
  IsClause /\ Plan # NoPlan =>
    \A quads \in Version : \A row \in RowsOf(Solutions(Plan, Nil, quads)) :
      DOMAIN row \subseteq ExtractVariables(pattern)

(* "UNION (pattern alternation)" (docs/testing.html:580).                  *)
UnionAlternates == IsClause /\ text # <<>> /\ (\E i \in DOMAIN text : text[i].kind = "union") => PlanMeansText

-----------------------------------------------------------------------------
(* Apart from IN with a value that fails, which the evaluator skips, and     *)
(* functions and arithmetic where they differ from SPARQL.                   *)
RECURSIVE Settled(_, _)
Settled(e, row) ==
  CASE e.op = "in" -> Settled(e.arg, row) /\ \A i \in DOMAIN e.list : Meaning(e.list[i], row) # Error
    [] e.op = "not" -> Settled(e.arg, row)
    [] e.op \in Logical \cup Comparison -> Settled(e.left, row) /\ Settled(e.right, row)
    [] e.op \in Arithmetic ->
         /\ Settled(e.left, row) /\ Settled(e.right, row)
         /\ Conforms(e.op, <<Meaning(e.left, row), Meaning(e.right, row)>>)
    [] e.op = "call" ->
         /\ \A i \in DOMAIN e.args : Settled(e.args[i], row)
         /\ e.fn = "BOUND" \/ Conforms(e.fn, [i \in DOMAIN e.args |-> Meaning(e.args[i], row)])
    [] e.op \in {"var", "lit"} -> TRUE

(* A function of variables; what SUBSTR gives outside the text may agree.    *)
IsDirect(e) ==
  CASE e.op = "call" -> e.fn # "SUBSTR" /\ \A i \in DOMAIN e.args : e.args[i].op = "var"
    [] e.op \in Arithmetic -> e.left.op = "var" /\ e.right.op = "var"
    [] OTHER -> FALSE

(* An expression, as the parser read it, has the value SPARQL gives to what  *)
(* is written or fails: precedence and association are kept, an unbound      *)
(* variable never turns into a truth value on the way up through nested      *)
(* connectives, and a function or an operator gives the term SPARQL says, so *)
(* that a row that passes a filter is one SPARQL keeps.  Where Conforms says *)
(* that a function differs, a value it gives does.                           *)
ValueOrError ==
  IsClause /\ Closed =>
    LET e == Last(text).expr
        read == Last(parsed.v.where).expr IN
    \A row \in Row(e) :
      Evaluate(read, row) # Error =>
        /\ Settled(e, row) => Evaluate(read, row) = Meaning(e, row)
        /\ IsDirect(e) /\ ~Settled(e, row) => Evaluate(read, row) # Meaning(e, row)
=============================================================================
