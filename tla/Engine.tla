------------------------------- MODULE Engine -------------------------------
(***************************************************************************)
(* A query from its text to its result: the parser collects the WHERE      *)
(* clause, the optimizer plans it, the executor runs the plan beside other *)
(* callers' commits (cmd/trigo and handlers.go call the three in a row).   *)
(***************************************************************************)
EXTENDS Executor, Optimizer

CONSTANT Request  \* the queries as texts: [form, text, mods]

(* Optimizer.Optimize: CONSTRUCT and DESCRIBE leave the plan of the clause *)
(* alone.                                                                  *)
Optimize(request) ==
  LET pattern == ParseGroup(request.text)
  IN  CASE request.form = "select" -> OptimizeSelect(pattern, request.mods)
        [] request.form = "ask" -> OptimizeAsk(pattern)
        [] request.form \in {"construct", "describe"} -> OptimizeGraphPattern(pattern)

Compile(request) ==
  [form |-> request.form, plan |-> Optimize(request), distinct |-> request.mods.distinct,
   template |-> request.template, resources |-> request.resources,
   text |-> request.text, mods |-> request.mods]

Compiled == {Compile(request) : request \in Request}

FromText == "text" \in DOMAIN query

-----------------------------------------------------------------------------
(* The solutions of the text, with the columns the query asks for.         *)
Wanted ==
  LET solutions == GroupSolutions(query.text, Nil, quads)
  IN  IF query.mods.vars = Nil THEN solutions
      ELSE {[l EXCEPT !.row = Project(@, query.mods.vars)] : l \in solutions}

Or(modifier, default) == IF modifier = Nil THEN default ELSE modifier

(* How many of n rows OFFSET and LIMIT leave. *)
Slice(n) ==
  LET rest == IF Or(query.mods.offset, 0) > n THEN 0 ELSE n - Or(query.mods.offset, 0)
      limit == Or(query.mods.limit, rest)
  IN  IF limit < rest THEN limit ELSE rest

(* Parser, optimizer and executor together: a query during which nothing   *)
(* was committed returns the solutions SPARQL gives its text, each as      *)
(* often as SPARQL does (once, under DISTINCT), cut by OFFSET and LIMIT.   *)
(* DISTINCT with LIMIT or OFFSET is left out: the code applies the limit   *)
(* first.                                                                  *)
ResultMeansText ==
  Undisturbed /\ FromText =>
    CASE query.form = "select" /\ ~query.distinct ->
           /\ \A row \in ToSet(result) : Copies(result, row) <= Count(Wanted, row)
           /\ Len(result) = Slice(Cardinality(Wanted))
      [] query.form = "select" /\ query.distinct ->
           /\ ToSet(result) = RowsOf(Wanted)
           /\ \A row \in ToSet(result) : Copies(result, row) = 1
      [] query.form = "ask" -> result[1] = (Wanted # {})
      [] query.form = "construct" ->
           TriplesExpected(UNION {ToSet(Instances(query.template, row)) : row \in RowsOf(Wanted)})
      [] query.form = "describe" ->
           TriplesExpected({Described(q) : q \in
             {m \in quads : /\ InDefaultGraph(m)
                            /\ m.s \in UNION {IRIsOf(row) : row \in RowsOf(Wanted)}}})

(* ORDER BY with OFFSET and LIMIT: the rows returned are those at the      *)
(* places OFFSET + 1 and on of a sorted list of all the solutions, where   *)
(* rows the conditions do not tell apart may stand in any order.           *)
SliceOfSortedRows ==
  Undisturbed /\ FromText /\ query.form = "select" /\ ~query.distinct
  /\ query.mods.orderBy # <<>> =>
    LET keys == query.mods.orderBy
        solutions == GroupSolutions(query.text, Nil, quads)
        before(l) == Cardinality({m \in solutions : StrictlyBefore(m.row, l.row, keys)})
        tied(l) == {m \in solutions : ~StrictlyBefore(m.row, l.row, keys)
                                      /\ ~StrictlyBefore(l.row, m.row, keys)}
        atPlace(i, l) == i \in before(l) + 1 .. before(l) + Cardinality(tied(l))
        shown(l) == Project(l.row, Or(query.mods.vars, VarName))
    IN  \A i \in DOMAIN result :
          \E l \in solutions :
            shown(l) = result[i] /\ atPlace(i + Or(query.mods.offset, 0), l)
=============================================================================
