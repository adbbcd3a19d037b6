------------------------------ MODULE Executor ------------------------------
(***************************************************************************)
(* The query executor (pkg/sparql/executor/executor.go): one query runs as *)
(* a tree of iterators while other callers commit to the store.  An        *)
(* iterator is the node of the plan with an iterator in place of each      *)
(* input that is open, and the fields of the Go struct: "left" and "input" *)
(* are open as long as the tree is, the right side of a join, OPTIONAL or  *)
(* MINUS is opened anew (inner) for each row of the left.  Every scan      *)
(* reads in a transaction of its own, begun when the scan is opened.       *)
(*                                                                         *)
(* Next() of an iterator is a sequence of small steps, so that a commit    *)
(* can come between any two of them: a step ends with a row, with the end  *)
(* of the iterator, or is "busy" and goes on.                              *)
(***************************************************************************)
EXTENDS Algebra, SequencesExt

CONSTANTS
  QueryForm,   \* the queries: optimized plans with the form they serve
  Version,     \* the sets of quads that are committed
  MaxCommits(_), \* how many commits happen while a query runs
  Kind,        \* "iri", "blank" or "literal"
  Text         \* the IRI, the ID or the Value (no language, no datatype)

VARIABLES
  quads,    \* the quads in the store
  query,    \* the query
  phase,    \* idle, pulling (the loop over Next), describing, done or failed
  iter,     \* the iterator tree
  open,     \* transactions begun for scans and not rolled back yet
  rows,     \* the rows collected
  result,   \* what the query returns: rows, triples, or a truth value
  pending,  \* the resources DESCRIBE has yet to look up
  commits,  \* how many commits have happened
  ever,     \* history: quads stored at some time since the query began
  always    \* history: quads stored all the time since then

vars == <<quads, query, phase, iter, open, rows, result, pending, commits, ever, always>>

NoIter == [op |-> "closed"]
NotOpened == [op |-> "unopened"]

-----------------------------------------------------------------------------
(* createIterator.  A scan fails for a term that has no encoding, and an   *)
(* empty plan is of no known type; a union whose right side fails closes   *)
(* its left side, every other plan opens one input, so a plan that cannot  *)
(* be opened leaves no transaction behind.                                 *)
RECURSIVE Openable(_)
Openable(plan) ==
  CASE plan.op = "scan" -> {plan.s, plan.p, plan.o} \cap Unencodable = {}
    [] plan.op = "union" -> Openable(plan.left) /\ Openable(plan.right)
    [] plan.op \in TwoSided \ {"union"} -> Openable(plan.left)
    [] plan.op \in OneSided -> Openable(plan.input)
    [] plan.op = "none" -> FALSE

(* The iterator tree of a plan.  GRAPH is no iterator: the graph executor  *)
(* passes its graph to a scan and to both sides of a join, any other plan  *)
(* goes back to the base executor, which has no graph.  The right side of  *)
(* a union is opened by the first step that reaches it.                    *)
RECURSIVE OpenIter(_, _, _)
OpenIter(plan, graph, db) ==
  CASE plan.op = "scan" ->
         [op |-> "scan", pat |-> plan, graph |-> graph, row |-> EmptyRow,
          left |-> Answer(db, StorePattern(plan, graph))]
    [] plan.op = "join" ->
         [op |-> "join", left |-> OpenIter(plan.left, graph, db), right |-> plan.right,
          graph |-> graph, inner |-> NoIter, cur |-> EmptyRow, row |-> EmptyRow]
    [] plan.op = "optional" ->
         [op |-> "optional", left |-> OpenIter(plan.left, Nil, db), right |-> plan.right,
          graph |-> Nil, inner |-> NoIter, cur |-> EmptyRow, row |-> EmptyRow,
          hasMatch |-> FALSE]
    [] plan.op = "minus" ->
         [op |-> "minus", left |-> OpenIter(plan.left, Nil, db), right |-> plan.right,
          graph |-> Nil, inner |-> NoIter]
    [] plan.op = "union" ->
         [op |-> "union", left |-> OpenIter(plan.left, Nil, db), right |-> NotOpened,
          plan |-> plan.right, leftDone |-> FALSE]
    [] plan.op = "graph" -> OpenIter(plan.input, plan.graph, db)
    [] plan.op = "limit" ->
         [op |-> "limit", input |-> OpenIter(plan.input, Nil, db), n |-> plan.n, count |-> 0]
    [] plan.op = "offset" ->
         [op |-> "offset", input |-> OpenIter(plan.input, Nil, db), n |-> plan.n, skipped |-> 0]
    [] plan.op = "distinct" ->
         [op |-> "distinct", input |-> OpenIter(plan.input, Nil, db), seen |-> {}]
    [] plan.op = "order" ->
         [op |-> "order", input |-> OpenIter(plan.input, Nil, db), keys |-> plan.keys,
          rows |-> <<>>, position |-> 0, sorted |-> FALSE]
    [] plan.op \in {"filter", "bind", "project"} ->
         [plan EXCEPT !.input = OpenIter(plan.input, Nil, db)]

(* Mutant of CloseIter: the right side in use is not closed.               *)
RECURSIVE CloseLeftOnly(_)
CloseLeftOnly(it) ==
  CASE it.op = "scan" -> 1
    [] it.op \in {"closed", "unopened"} -> 0
    [] it.op \in {"join", "optional", "minus"} -> CloseLeftOnly(it.left)
    [] it.op = "union" -> CloseLeftOnly(it.left) + CloseLeftOnly(it.right)
    [] it.op \in OneSided -> CloseLeftOnly(it.input)

(* Close: how many scans of the tree are closed.  minusIterator closes its *)
(* right side within Next.                                                 *)
RECURSIVE CloseIter(_)
CloseIter(it) ==
  CASE it.op = "scan" -> 1
    [] it.op \in {"closed", "unopened"} -> 0
    [] it.op \in {"join", "optional"} -> CloseIter(it.inner) + CloseIter(it.left)
    [] it.op = "minus" -> CloseIter(it.left)
    [] it.op = "union" -> CloseIter(it.left) + CloseIter(it.right)
    [] it.op \in OneSided -> CloseIter(it.input)

(* How many scans OpenIter opened. *)
RECURSIVE ScansIn(_)
ScansIn(it) ==
  CASE it.op = "scan" -> 1
    [] it.op \in {"closed", "unopened"} -> 0
    [] it.op \in {"join", "optional", "minus"} -> ScansIn(it.left)
    [] it.op = "union" -> ScansIn(it.left) + ScansIn(it.right)
    [] it.op \in OneSided -> ScansIn(it.input)

(* Binding().                                                              *)
RECURSIVE Binding(_)
Binding(it) ==
  CASE it.op \in {"scan", "join", "optional"} -> it.row
    [] it.op = "minus" -> Binding(it.left)
    [] it.op = "union" -> IF it.leftDone THEN Binding(it.right) ELSE Binding(it.left)
    [] it.op \in {"filter", "limit", "offset", "distinct"} -> Binding(it.input)
    [] it.op = "project" -> Project(Binding(it.input), it.vars)
    [] it.op = "bind" ->
         LET row == Binding(it.input) IN Extend(row, it.var, Evaluate(it.expr, row))
    [] it.op = "order" ->
         IF it.position \in DOMAIN it.rows THEN it.rows[it.position] ELSE EmptyRow

-----------------------------------------------------------------------------
(* ORDER BY: an unbound variable comes first, terms in string order; an    *)
(* expression that is not a variable makes all rows equal.                 *)
CompareByCondition(r1, r2, key) ==
  LET v == key.var
  IN  IF key.op # "var" \/ v \notin DOMAIN r1 \cup DOMAIN r2 THEN 0
      ELSE IF v \notin DOMAIN r1 THEN -1
      ELSE IF v \notin DOMAIN r2 THEN 1
      ELSE IF Rank[r1[v]] < Rank[r2[v]] THEN -1
      ELSE IF Rank[r1[v]] > Rank[r2[v]] THEN 1 ELSE 0

(* Mutant of ShouldSwap: only the first condition counts. *)
ShouldSwapByFirst(r1, r2, keys) ==
  LET sign == CompareByCondition(r1, r2, keys[1])
  IN  IF keys[1].ascending THEN sign > 0 ELSE sign < 0

ShouldSwap(r1, r2, keys) ==
  \E i \in DOMAIN keys :
    /\ \A j \in 1 .. i - 1 : CompareByCondition(r1, r2, keys[j]) = 0
    /\ LET sign == CompareByCondition(r1, r2, keys[i])
       IN  IF keys[i].ascending THEN sign > 0 ELSE sign < 0

(* sortBindings: i and j run over all pairs, out-of-order rows change      *)
(* places.                                                                 *)
SortBindings(list, keys) ==
  LET exchange[l \in Seq(ToSet(list)), i \in Nat, j \in Nat] ==
        IF i > Len(l) THEN l
        ELSE IF j > Len(l) THEN exchange[l, i + 1, i + 2]
        ELSE exchange[IF ShouldSwap(l[i], l[j], keys)
                      THEN [l EXCEPT ![i] = l[j], ![j] = l[i]] ELSE l, i, j + 1]
  IN  IF keys = <<>> THEN list ELSE exchange[list, 1, 2]

(* bindingKey lists the variables in the order of a Go map, which is a     *)
(* different one each time.                                                *)
BindingKeys(row) ==
  LET n == Cardinality(DOMAIN row)
  IN  {[row |-> row, order |-> order] :
         order \in {f \in [1 .. n -> DOMAIN row] :
                      \A i, j \in 1 .. n : f[i] = f[j] => i = j}}

-----------------------------------------------------------------------------
(* One step of Next(): the possible outcomes, with the change in the       *)
(* number of open transactions.                                            *)

Outcome(out, it, delta) == [out |-> out, it |-> it, delta |-> delta]

(* Mutant of ScanStep: after a row that does not fit the same quad is read *)
(* again.                                                                  *)
ScanStuck(it) ==
  IF it.left = {} THEN {Outcome("end", it, 0)}
  ELSE {IF Consistent(it.pat, q)
        THEN Outcome("row", [it EXCEPT !.left = @ \ {q}, !.row = ScanRow(it.pat, q)], 0)
        ELSE Outcome("busy", it, 0) : q \in it.left}

(* quadIterator in the order of its index.  A quad that cannot be decoded  *)
(* is taken for the end of the scan.                                       *)
ScanStep(it) ==
  IF it.left = {} THEN {Outcome("end", it, 0)}
  ELSE {LET rest == [it EXCEPT !.left = @ \ {q}]
        IN  IF ~Readable(q) THEN Outcome("end", rest, 0)
            ELSE IF Consistent(it.pat, q)
            THEN Outcome("row", [rest EXCEPT !.row = ScanRow(it.pat, q)], 0)
            ELSE Outcome("busy", rest, 0) : q \in it.left}

(* The left side delivered a row: the right side is opened for it, unless  *)
(* that fails.                                                             *)
OpenRight(it, delta, db, failed) ==
  IF ~Openable(it.right) THEN Outcome(failed, it, delta)
  ELSE LET inner == OpenIter(it.right, it.graph, db)
       IN  Outcome("busy", [it EXCEPT !.inner = inner], delta + ScansIn(inner))

CloseRight(out, it, delta) ==
  Outcome(out, [it EXCEPT !.inner = NoIter], delta - CloseIter(it.inner))

(* Mutant of JoinRow: only the first match on the right is delivered.      *)
JoinFirstRow(it, o) ==
  LET next == [it EXCEPT !.inner = o.it]
  IN  IF o.out = "end" THEN CloseRight("busy", next, o.delta)
      ELSE IF o.out = "row" /\ Compatible(it.cur, Binding(o.it))
      THEN CloseRight("row", [next EXCEPT !.row = Merge(it.cur, Binding(o.it))], o.delta)
      ELSE Outcome("busy", next, o.delta)

(* nestedLoopJoinIterator, graphJoinIterator: when the right side cannot   *)
(* be opened the join ends.                                                *)
JoinRow(it, o) ==
  LET next == [it EXCEPT !.inner = o.it]
  IN  IF o.out = "end" THEN CloseRight("busy", next, o.delta)
      ELSE IF o.out = "row" /\ Compatible(it.cur, Binding(o.it))
      THEN Outcome("row", [next EXCEPT !.row = Merge(it.cur, Binding(o.it))], o.delta)
      ELSE Outcome("busy", next, o.delta)

JoinLeft(it, o, db) ==
  LET next == [it EXCEPT !.left = o.it]
  IN  IF o.out # "row" THEN Outcome(o.out, next, o.delta)
      ELSE OpenRight([next EXCEPT !.cur = Binding(o.it)], o.delta, db, "end")

(* optionalIterator: a left row without a match, or without a right side,  *)
(* is delivered alone.                                                     *)
OptionalRow(it, o) ==
  LET next == [it EXCEPT !.inner = o.it]
  IN  IF o.out = "end"
      THEN IF it.hasMatch THEN CloseRight("busy", next, o.delta)
           ELSE CloseRight("row", [next EXCEPT !.row = it.cur], o.delta)
      ELSE IF o.out = "row" /\ Compatible(it.cur, Binding(o.it))
      THEN Outcome("row", [next EXCEPT !.row = Merge(it.cur, Binding(o.it)),
                                       !.hasMatch = TRUE], o.delta)
      ELSE Outcome("busy", next, o.delta)

(* Mutant of OptionalLeft: hasMatch is not reset for the next left row.    *)
OptionalLeftKept(it, o, db) ==
  LET next == [it EXCEPT !.left = o.it]
  IN  IF o.out # "row" THEN Outcome(o.out, next, o.delta)
      ELSE OpenRight([next EXCEPT !.cur = Binding(o.it), !.row = Binding(o.it)],
                     o.delta, db, "row")

OptionalLeft(it, o, db) ==
  LET next == [it EXCEPT !.left = o.it]
  IN  IF o.out # "row" THEN Outcome(o.out, next, o.delta)
      ELSE OpenRight([next EXCEPT !.cur = Binding(o.it), !.row = Binding(o.it),
                                  !.hasMatch = FALSE], o.delta, db, "row")

(* minusIterator: a compatible row on the right drops the row of the left, *)
(* whether or not the two share a variable.                                *)
MinusRow(it, o) ==
  LET next == [it EXCEPT !.inner = o.it]
  IN  IF o.out = "end" THEN CloseRight("row", next, o.delta)
      ELSE IF o.out = "row" /\ Compatible(Binding(it.left), Binding(o.it))
      THEN CloseRight("busy", next, o.delta)
      ELSE Outcome("busy", next, o.delta)

MinusLeft(it, o, db) ==
  LET next == [it EXCEPT !.left = o.it]
  IN  IF o.out # "row" THEN Outcome(o.out, next, o.delta)
      ELSE OpenRight(next, o.delta, db, "row")

(* distinctIterator: the key is one of those the map order may produce.    *)
DistinctRow(it, o) ==
  LET next == [it EXCEPT !.input = o.it]
  IN  IF o.out # "row" THEN {Outcome(o.out, next, o.delta)}
      ELSE {IF key \in it.seen THEN Outcome("busy", next, o.delta)
            ELSE Outcome("row", [next EXCEPT !.seen = @ \cup {key}], o.delta) :
              key \in BindingKeys(Binding(o.it))}

(* orderByIterator: everything is collected and sorted by the first call.  *)
OrderRow(it, o) ==
  LET next == [it EXCEPT !.input = o.it]
  IN  IF o.out = "row"
      THEN Outcome("busy", [next EXCEPT !.rows = Append(@, Binding(o.it))], o.delta)
      ELSE IF o.out = "end"
      THEN Outcome("busy", [next EXCEPT !.rows = SortBindings(@, it.keys),
                                        !.sorted = TRUE], o.delta)
      ELSE Outcome("busy", next, o.delta)

(* What an operator on one input makes of an outcome of that input.        *)
FilterRow(it, o) ==
  LET next == [it EXCEPT !.input = o.it]
  IN  CASE o.out # "row" \/ it.op \in {"project", "bind"} -> Outcome(o.out, next, o.delta)
        [] o.out = "row" /\ it.op = "filter" ->
             Outcome(IF Passes(it.expr, Binding(o.it)) THEN "row" ELSE "busy", next, o.delta)
        [] o.out = "row" /\ it.op = "limit" ->
             Outcome("row", [next EXCEPT !.count = @ + 1], o.delta)
        [] o.out = "row" /\ it.op = "offset" ->
             IF it.skipped < it.n
             THEN Outcome("busy", [next EXCEPT !.skipped = @ + 1], o.delta)
             ELSE Outcome("row", next, o.delta)

(* Left sides come first: is a union below still to open its right side?   *)
RECURSIVE HasUnopened(_)
HasUnopened(it) ==
  CASE it.op \in {"scan", "closed"} -> FALSE
    [] it.op = "union" -> HasUnopened(it.left) \/ it.right = NotOpened
    [] it.op \in {"join", "optional", "minus"} -> HasUnopened(it.left)
    [] it.op \in OneSided -> HasUnopened(it.input)

RECURSIVE Step(_, _)
Step(it, db) ==
  CASE it.op = "scan" -> ScanStep(it)
    [] it.op = "join" /\ it.inner # NoIter -> {JoinRow(it, o) : o \in Step(it.inner, db)}
    [] it.op = "join" /\ it.inner = NoIter -> {JoinLeft(it, o, db) : o \in Step(it.left, db)}
    [] it.op = "optional" /\ it.inner # NoIter ->
         {OptionalRow(it, o) : o \in Step(it.inner, db)}
    [] it.op = "optional" /\ it.inner = NoIter ->
         {OptionalLeft(it, o, db) : o \in Step(it.left, db)}
    [] it.op = "minus" /\ it.inner # NoIter -> {MinusRow(it, o) : o \in Step(it.inner, db)}
    [] it.op = "minus" /\ it.inner = NoIter -> {MinusLeft(it, o, db) : o \in Step(it.left, db)}
    [] it.op = "union" /\ it.right = NotOpened /\ ~HasUnopened(it.left) ->
         LET right == OpenIter(it.plan, Nil, db)
         IN  {Outcome("busy", [it EXCEPT !.right = right], ScansIn(right))}
    [] it.op = "union" /\ ~it.leftDone /\ (it.right # NotOpened \/ HasUnopened(it.left)) ->
         {Outcome(IF o.out = "end" THEN "busy" ELSE o.out,
                  [it EXCEPT !.left = o.it, !.leftDone = (o.out = "end")], o.delta) :
            o \in Step(it.left, db)}
    [] it.op = "union" /\ it.leftDone ->
         {Outcome(o.out, [it EXCEPT !.right = o.it], o.delta) : o \in Step(it.right, db)}
    [] it.op = "limit" /\ it.count >= it.n -> {Outcome("end", it, 0)}
    [] it.op = "order" /\ it.sorted ->
         IF it.position >= Len(it.rows) THEN {Outcome("end", it, 0)}
         ELSE {Outcome("row", [it EXCEPT !.position = @ + 1], 0)}
    [] it.op = "order" /\ ~it.sorted -> {OrderRow(it, o) : o \in Step(it.input, db)}
    [] it.op = "distinct" -> UNION {DistinctRow(it, o) : o \in Step(it.input, db)}
    [] it.op \in {"filter", "project", "bind", "offset"} \/ (it.op = "limit" /\ it.count < it.n) ->
         {FilterRow(it, o) : o \in Step(it.input, db)}

-----------------------------------------------------------------------------
(* Results.                                                                *)

ResultTerm(t) == [type |-> Kind[t], value |-> Text[t]]

(* DESCRIBE prints subject and predicate with String(), brackets included. *)
PrintedIRI(t) == [type |-> "iri", value |-> <<"<", Text[t], ">">>]

(* The first element of every key. *)
Deduplicate(list, key) ==
  LET add(kept, e) == IF \E f \in ToSet(kept) : key[f] = key[e] THEN kept ELSE Append(kept, e)
  IN  FoldLeft(add, <<>>, list)

ApplyDistinct(list) == Deduplicate(list, [row \in ToSet(list) |-> row])

(* The key of a triple is the text of its terms, whatever their kind.      *)
Texts(triple) == [i \in 1 .. 3 |-> triple[i].value]

UniqueTriples(list) == Deduplicate(list, [triple \in ToSet(list) |-> Texts(triple)])

(* instantiateTriplePattern; a triple with an unbound variable is skipped. *)
Instantiable(pat, row) == VarsOf(pat) \subseteq DOMAIN row

Instance(pat, row) ==
  LET term(t) == ResultTerm(IF t \in VarName THEN row[t] ELSE t)
  IN  <<term(pat.s), term(pat.p), term(pat.o)>>

Instances(template, row) ==
  LET patterns == SelectSeq(template, LAMBDA pat : Instantiable(pat, row))
  IN  [i \in DOMAIN patterns |-> Instance(patterns[i], row)]

Constructed(template, list) ==
  UniqueTriples(FlattenSeq([i \in DOMAIN list |-> Instances(template, list[i])]))

IRIsOf(row) == {t \in {row[x] : x \in DOMAIN row} : Kind[t] = "iri"}

Described(q) == <<PrintedIRI(q.s), PrintedIRI(q.p), ResultTerm(q.o)>>

-----------------------------------------------------------------------------
(* Execute.                                                                *)

Init ==
  /\ quads \in Version
  /\ query \in QueryForm
  /\ phase = "idle"
  /\ iter = NoIter
  /\ open = 0
  /\ rows = <<>>
  /\ result = <<>>
  /\ pending = {}
  /\ commits = 0
  /\ ever = quads
  /\ always = quads

(* A DESCRIBE without a pattern starts with the resources it names.        *)
Execute ==
  /\ phase = "idle"
  /\ \/ /\ query.form = "describe" /\ query.plan = NoPlan
        /\ phase' = "describing" /\ pending' = query.resources
        /\ UNCHANGED <<iter, open>>
     \/ /\ Openable(query.plan)
        /\ phase' = "pulling"
        /\ iter' = OpenIter(query.plan, Nil, quads)
        /\ open' = open + ScansIn(iter')
        /\ UNCHANGED pending
     \/ /\ ~Openable(query.plan) /\ ~(query.form = "describe" /\ query.plan = NoPlan)
        /\ phase' = "failed"
        /\ UNCHANGED <<iter, open, pending>>
  /\ UNCHANGED <<quads, query, rows, result, commits, ever, always>>

(* The loop over Next().  ASK calls it once.                               *)
Pull ==
  /\ phase = "pulling"
  /\ \E o \in Step(iter, quads) :
       /\ iter' = o.it
       /\ open' = open + o.delta
       /\ IF o.out = "row"
          THEN /\ rows' = Append(rows, Binding(o.it))
               /\ pending' = IF query.form = "describe"
                             THEN pending \cup IRIsOf(Binding(o.it)) ELSE pending
          ELSE UNCHANGED <<rows, pending>>
       /\ phase' = IF o.out = "end" /\ query.form = "describe" THEN "describing"
                   ELSE IF o.out = "end" \/ (o.out = "row" /\ query.form = "ask")
                   THEN "closing" ELSE phase
  /\ UNCHANGED <<quads, query, result, commits, ever, always>>

(* DESCRIBE looks up one resource, in a transaction of its own; a quad     *)
(* that cannot be decoded fails the query.                                 *)
Describe(r) ==
  /\ phase = "describing" /\ r \in pending
  /\ LET found == Answer(quads, [s |-> r, p |-> Var, o |-> Var, g |-> Var])
         list == SetToSeq(found)
     IN  IF r \in Unencodable \/ \E q \in found : ~Readable(q)
         THEN phase' = "failing" /\ UNCHANGED <<pending, result>>
         ELSE /\ pending' = pending \ {r}
              /\ result' = UniqueTriples(result \o [i \in DOMAIN list |-> Described(list[i])])
              /\ UNCHANGED phase
  /\ UNCHANGED <<quads, query, iter, open, rows, commits, ever, always>>

(* The deferred Close, and the result.                                     *)
Finish ==
  /\ \/ phase \in {"closing", "failing"}
     \/ phase = "describing" /\ pending = {}
  /\ open' = open - CloseIter(iter)
  /\ iter' = NoIter
  /\ phase' = IF phase = "failing" THEN "failed" ELSE "done"
  /\ result' = CASE phase = "failing" -> <<>>
                 [] query.form = "select" -> IF query.distinct THEN ApplyDistinct(rows) ELSE rows
                 [] query.form = "ask" -> <<rows # <<>>>>
                 [] query.form = "construct" -> Constructed(query.template, rows)
                 [] phase = "describing" -> result
  /\ UNCHANGED <<quads, query, rows, pending, commits, ever, always>>

(* The caller takes the result; the query may be executed again.           *)
Return ==
  /\ phase \in {"done", "failed"}
  /\ phase' = "idle"
  /\ rows' = <<>> /\ result' = <<>> /\ pending' = {}
  /\ commits' = 0 /\ ever' = quads /\ always' = quads
  /\ UNCHANGED <<quads, query, iter, open>>

(* Another caller commits while the query runs.                            *)
Commit(version) ==
  /\ phase \in {"pulling", "describing"}
  /\ version # quads /\ commits < MaxCommits(query)
  /\ quads' = version
  /\ commits' = commits + 1
  /\ ever' = ever \cup version
  /\ always' = always \cap version
  /\ UNCHANGED <<query, phase, iter, open, rows, result, pending>>

Work == Pull \/ (\E r \in pending : Describe(r)) \/ Finish

Next ==
  \/ Execute
  \/ Work
  \/ Return
  \/ \E version \in Version : Commit(version)

Spec == Init /\ [][Next]_vars

(* There is work left, and a step of it changes something.                 *)
CanWork ==
  \/ phase = "pulling" /\ Step(iter, quads) \ {Outcome("busy", iter, 0)} # {}
  \/ phase \in {"describing", "closing", "failing"}

(* The goroutine of the query is scheduled fairly: WF_vars(Work), with     *)
(* CanWork for ENABLED <<Work>>_vars.                                      *)
FairSpec == Spec /\ ([]<>~CanWork \/ []<><<Work>>_vars)

-----------------------------------------------------------------------------
(* Properties.                                                             *)

(* The plan without LIMIT and OFFSET, and how many of n rows these leave.  *)
RECURSIVE Core(_)
Core(plan) == IF plan.op \in {"limit", "offset"} THEN Core(plan.input) ELSE plan

RECURSIVE Clip(_, _)
Clip(plan, n) ==
  CASE plan.op = "limit" -> LET m == Clip(plan.input, n) IN IF m < plan.n THEN m ELSE plan.n
    [] plan.op = "offset" -> LET m == Clip(plan.input, n) IN IF m < plan.n THEN 0 ELSE m - plan.n
    [] OTHER -> n

Copies(list, row) == Cardinality({i \in DOMAIN list : list[i] = row})

(* A query during which nothing was committed, over quads that can be read *)
(* back.                                                                   *)
Undisturbed == phase = "done" /\ commits = 0 /\ \A q \in quads : Readable(q)

RowsExpected(plan) ==
  LET solutions == Solutions(Core(plan), Nil, quads)
  IN  /\ \A row \in ToSet(result) : Copies(result, row) <= Count(solutions, row)
      /\ Len(result) = Clip(plan, Cardinality(solutions))

DistinctRowsExpected(plan) ==
  /\ ToSet(result) = RowsOf(Solutions(plan, Nil, quads))
  /\ \A row \in ToSet(result) : Copies(result, row) = 1

(* The triples of a CONSTRUCT or DESCRIBE, one for each text.              *)
TriplesExpected(wanted) ==
  /\ ToSet(result) \subseteq wanted
  /\ {Texts(triple) : triple \in ToSet(result)} = {Texts(triple) : triple \in wanted}
  /\ \A i, j \in DOMAIN result : Texts(result[i]) = Texts(result[j]) => i = j

DescriptionExpected ==
  LET resources == IF query.plan = NoPlan THEN query.resources
                   ELSE UNION {IRIsOf(row) : row \in RowsOf(Solutions(query.plan, Nil, quads))}
  IN  TriplesExpected({Described(q) : q \in {m \in quads : m.s \in resources /\ InDefaultGraph(m)}})

(* Whatever way the iterators take the rows apart and put them together    *)
(* again, the result of an undisturbed query is what its plan means, with  *)
(* the right number of duplicates; LIMIT and OFFSET only cut it.           *)
AnswerWhenQuiet ==
  Undisturbed =>
    CASE query.form = "select" /\ ~query.distinct -> RowsExpected(query.plan)
      [] query.form = "select" /\ query.distinct -> DistinctRowsExpected(query.plan)
      [] query.form = "ask" ->
           result[1] = (Clip(query.plan,
                             Cardinality(Solutions(Core(query.plan), Nil, quads))) > 0)
      [] query.form = "construct" ->
           TriplesExpected(UNION {ToSet(Instances(query.template, row)) :
                                    row \in RowsOf(Solutions(query.plan, Nil, quads))})
      [] query.form = "describe" -> DescriptionExpected

RECURSIVE Monotone(_)
Monotone(plan) ==
  CASE plan.op = "scan" -> TRUE
    [] plan.op \in {"join", "union"} -> Monotone(plan.left) /\ Monotone(plan.right)
    [] plan.op \in {"filter", "bind", "project", "order", "graph"} -> Monotone(plan.input)
    [] OTHER -> FALSE

(* Every scan of a query reads a snapshot of its own, so a query that runs *)
(* beside commits need not answer from any one state of the store; but it  *)
(* loses no row that the quads stored all along give, and invents none     *)
(* that the quads stored at some time cannot give.                         *)
AnswerBetween ==
  phase = "done" /\ query.form = "select" /\ ~query.distinct /\ Monotone(query.plan)
  /\ (\A q \in ever : Readable(q)) =>
    LET least == Solutions(query.plan, Nil, always)
        most == Solutions(query.plan, Nil, ever)
    IN  \A row \in RowsOf(least) \cup ToSet(result) :
          Copies(result, row) \in Count(least, row) .. Count(most, row)

SortRank(row, x) == IF x \in DOMAIN row THEN Rank[row[x]] + 1 ELSE 0

StrictlyBefore(r1, r2, keys) ==
  \E i \in DOMAIN keys :
    /\ \A j \in 1 .. i - 1 : SortRank(r1, keys[j].var) = SortRank(r2, keys[j].var)
    /\ IF keys[i].ascending THEN SortRank(r1, keys[i].var) < SortRank(r2, keys[i].var)
       ELSE SortRank(r1, keys[i].var) > SortRank(r2, keys[i].var)

(* However a query ends, every transaction it began is rolled back, the    *)
(* right sides that were in use included.                                  *)
AllClosed == phase \in {"idle", "done", "failed"} => open = 0

(* Every query comes to an end, whatever is committed beside it.           *)
QueryReturns == phase \in {"pulling", "describing"} ~> phase \in {"done", "failed"}

(* "constrains all scans to a specific graph" (executor.go:823).           *)
GraphConstrainsScans ==
  Undisturbed /\ query.form = "select" /\ query.plan.op = "graph" => RowsExpected(query.plan)
=============================================================================
