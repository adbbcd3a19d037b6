---------------------------- MODULE SPARQLParser ----------------------------
(***************************************************************************)
(* The SPARQL parser (pkg/sparql/parser) over tokens: recursive descent,   *)
(* each function reading from the tokens that are left.  A function        *)
(* returns a value and the rest, or Failure, which has no rest, so that    *)
(* whatever is tried on it fails as well.                                  *)
(*                                                                         *)
(* Tokens are words, which are keywords, names of functions and prefixes;  *)
(* locals, a colon with what follows it; variables, IRIs, strings, numbers *)
(* without sign, language tags, blank nodes; and marks.  The parser looks  *)
(* at characters: where that makes a difference (a prefix named like a     *)
(* keyword, an IRI that begins with "less than") it is said below.         *)
(* An IRI is a sequence of fragments.                                      *)
(***************************************************************************)
EXTENDS Optimizer

IRI(text) == [kind |-> "iri", text |-> text]
BlankNode(label) == [kind |-> "blank", label |-> label]
Literal(text, lang, type) == [kind |-> "literal", text |-> text, lang |-> lang, type |-> type]

XSD(name) == <<"http:", "xsd#", name>>
Integer(text) == Literal(text, <<>>, XSD("integer"))
Boolean(text) == Literal(text, <<>>, XSD("boolean"))
RDFType == IRI(<<"http:", "rdf#", "type">>)

-----------------------------------------------------------------------------
Parsed(v, rest) == [ok |-> TRUE, v |-> v, rest |-> rest]
Failure == [ok |-> FALSE, v |-> Nil, rest |-> <<>>]

(* What was read, made into something else. *)
Give(r, Make(_)) == IF r.ok THEN Parsed(Make(r.v), r.rest) ELSE Failure

Add(r, read) == Give(read, LAMBDA v : Append(r.v, v))

(* peek and matchKeyword. *)
Type(ts) == IF ts = <<>> THEN "end" ELSE Head(ts).t
Keyword(ts, word) == Type(ts) = "word" /\ Head(ts).w = word

Expect(r, mark) == IF Type(r.rest) = mark THEN Parsed(r.v, Tail(r.rest)) ELSE Failure
SkipMark(r, mark) == IF Type(r.rest) = mark THEN Parsed(r.v, Tail(r.rest)) ELSE r

-----------------------------------------------------------------------------
(* Terms.  env holds the prefixes and the base.                            *)

NoPrefixes == [prefixes |-> [p \in {} |-> <<>>], base |-> <<>>]

Absolute(text) == text # <<>> /\ Head(text) = "http:"

(* resolveIRI, at once when an IRI is read. *)
Resolve(text, env) == IF env.base = <<>> \/ Absolute(text) THEN text ELSE env.base \o text

PrefixAt(ts) == IF Type(ts) = "word" THEN Head(ts).w ELSE ""
AfterPrefix(ts) == IF Type(ts) = "word" THEN Tail(ts) ELSE ts

ReadPrefixedName(ts, env) ==
  LET local == AfterPrefix(ts)
  IN  IF Type(local) = "local" /\ PrefixAt(ts) \in DOMAIN env.prefixes
      THEN Parsed(env.prefixes[PrefixAt(ts)] \o Head(local).text, Tail(local)) ELSE Failure

ReadIRI(ts, env) == Parsed(Resolve(Head(ts).text, env), Tail(ts))

ReadString(ts, env) ==
  LET text == Head(ts).text
      after == Tail(ts)
      type == IF Type(Tail(after)) = "iri" THEN ReadIRI(Tail(after), env)
              ELSE ReadPrefixedName(Tail(after), env)
  IN  CASE Type(after) = "lang" -> Parsed(Literal(text, Head(after).w, <<>>), Tail(after))
        [] Type(after) = "^^" -> Give(type, LAMBDA iri : Literal(text, <<>>, iri))
        [] Type(after) \notin {"lang", "^^"} -> Parsed(Literal(text, <<>>, <<>>), after)

(* parseTermOrVariable; a variable is its name. *)
ReadTerm(ts, env) ==
  CASE Type(ts) = "var" -> Parsed(Head(ts).name, Tail(ts))
    [] Type(ts) = "iri" -> Give(ReadIRI(ts, env), IRI)
    [] Type(ts) = "string" -> ReadString(ts, env)
    [] Type(ts) = "blank" -> Parsed(BlankNode(Head(ts).label), Tail(ts))
    [] Type(ts) = "number" -> Parsed(Literal(Head(ts).text, <<>>, Head(ts).type), Tail(ts))
    [] Type(ts) \in {"+", "-"} ->
         IF Type(Tail(ts)) = "number"
         THEN Parsed(Literal(<<Type(ts)>> \o ts[2].text, <<>>, ts[2].type), Tail(Tail(ts)))
         ELSE Failure
    [] Keyword(ts, "true") \/ Keyword(ts, "false") -> Parsed(Boolean(<<Head(ts).w>>), Tail(ts))
    [] Keyword(ts, "a") /\ Type(Tail(ts)) # "local" -> Parsed(RDFType, Tail(ts))
    [] OTHER -> Give(ReadPrefixedName(ts, env), IRI)

-----------------------------------------------------------------------------
(* Expressions.  The grammar has a level for each precedence: ||, &&,      *)
(* comparisons, sums, products, unary operators.                           *)

LevelSigns == <<{"||"}, {"&&"}, Comparison, {"+", "-"}, {"*", "/"}>>

OperatorOf(sign) == IF sign = "||" THEN "or" ELSE IF sign = "&&" THEN "and" ELSE sign

Combine(left, sign, r) ==
  Give(r, LAMBDA right : BinaryExpr(OperatorOf(sign), left, right))

RECURSIVE ReadExpr(_, _, _), ReadOperands(_, _, _), ReadList(_, _, _, _), ReadGroup(_, _)

(* The loops over operators of one level: what was read is the left        *)
(* operand of the next.                                                    *)
ReadOperands(level, r, env) ==
  IF Type(r.rest) \in LevelSigns[level]
  THEN ReadOperands(level, Combine(r.v, Type(r.rest), ReadExpr(level + 1, Tail(r.rest), env)), env)
  ELSE r

(* The arguments of a function, or the values of IN, up to the parenthesis *)
(* that closes them.  The values of IN are sums.                           *)
ReadMore(fn, r, env) ==
  IF Type(r.rest) = "," THEN ReadList(fn, r.v, Tail(r.rest), env) ELSE Expect(r, ")")

ReadList(fn, list, ts, env) ==
  LET star == fn = "COUNT" /\ Type(ts) = "*"
      item == IF star THEN Parsed(VarExpr("*"), Tail(ts))
              ELSE ReadExpr(IF fn = "IN" THEN 4 ELSE 1, ts, env)
  IN  IF list = <<>> /\ Type(ts) = ")" THEN Parsed(<<>>, Tail(ts))
      ELSE ReadMore(fn, Add(Parsed(list, ts), item), env)

ReadCall(fn, ts, env) ==
  IF Type(ts) = "(" THEN ReadList(fn, <<>>, Tail(ts), env) ELSE Failure

(* One comparison at most.  The parser takes the first character of an IRI *)
(* for a comparison, and NOT must be followed by IN.                       *)
ReadComparison(r, env) ==
  LET negated == Keyword(r.rest, "NOT") /\ Keyword(Tail(r.rest), "IN")
      values == ReadCall("IN", IF negated THEN Tail(Tail(r.rest)) ELSE Tail(r.rest), env)
  IN  CASE negated \/ Keyword(r.rest, "IN") ->
             Give(values, LAMBDA list : InExpr(r.v, list, negated))
        [] Type(r.rest) \in Comparison ->
             Combine(r.v, Type(r.rest), ReadExpr(4, Tail(r.rest), env))
        [] Type(r.rest) = "iri" \/ (Keyword(r.rest, "NOT") /\ ~negated) -> Failure
        [] OTHER -> r

ReadExists(ts, env) ==
  IF Keyword(ts, "EXISTS") THEN Give(ReadGroup(Tail(ts), env), LAMBDA group : Exists)
  ELSE Failure

AfterNot(ts) == IF Keyword(ts, "NOT") THEN Tail(ts) ELSE ts

(* parsePrimaryExpression.  A name with a colon is never taken for that of *)
(* a function.                                                             *)
ReadPrimary(ts, env) ==
  CASE Keyword(ts, "true") \/ Keyword(ts, "false") ->
         Parsed(Lit(Boolean(<<Head(ts).w>>)), Tail(ts))
    [] Keyword(AfterNot(ts), "EXISTS") -> ReadExists(AfterNot(ts), env)
    [] Type(ts) = "(" -> Expect(ReadExpr(1, Tail(ts), env), ")")
    [] Type(ts) = "var" -> Parsed(VarExpr(Head(ts).name), Tail(ts))
    [] Type(ts) = "word" /\ Type(Tail(ts)) = "(" ->
         Give(ReadCall(Head(ts).w, Tail(ts), env), LAMBDA args : Call(Head(ts).w, args))
    [] OTHER -> Give(ReadTerm(ts, env), Lit)

(* Mutant of ReadUnary: the operand is a whole expression. *)
ReadUnaryLoosely(ts, env) ==
  LET operand == ReadExpr(1, Tail(ts), env)
  IN  CASE Type(ts) = "!" -> Give(operand, Negation)
        [] Type(ts) = "+" -> operand
        [] Type(ts) = "-" -> Combine(Lit(Integer(<<"0">>)), "-", operand)
        [] Type(ts) \notin {"!", "+", "-"} -> ReadPrimary(ts, env)

(* Minus is a subtraction from zero. *)
ReadUnary(ts, env) ==
  LET operand == ReadExpr(6, Tail(ts), env)
  IN  CASE Type(ts) = "!" -> Give(operand, Negation)
        [] Type(ts) = "+" -> operand
        [] Type(ts) = "-" -> Combine(Lit(Integer(<<"0">>)), "-", operand)
        [] Type(ts) \notin {"!", "+", "-"} -> ReadPrimary(ts, env)

ReadExpr(level, ts, env) ==
  CASE level \in {1, 2, 4, 5} -> ReadOperands(level, ReadExpr(level + 1, ts, env), env)
    [] level = 3 -> ReadComparison(ReadExpr(4, ts, env), env)
    [] level = 6 -> ReadUnary(ts, env)

-----------------------------------------------------------------------------
(* Group graph patterns.                                                   *)

TripleOf(s, p, o) == Triple([s |-> s, p |-> p, o |-> o])

(* n terms more. *)
RECURSIVE ReadTerms(_, _, _)
ReadTerms(r, n, env) ==
  IF n = 0 THEN r ELSE ReadTerms(Add(r, ReadTerm(r.rest, env)), n - 1, env)

AddTriple(r, terms) == Give(terms, LAMBDA t : Append(r.v, TripleOf(t[1], t[2], t[3])))

(* Mutant of ReadPropertyList: a comma takes the predicate of the first    *)
(* triple.                                                                 *)
RECURSIVE ReadPropertyListOfFirst(_, _)
ReadPropertyListOfFirst(r, env) ==
  LET first == Head(r.v).pat
      more(known, n) ==
        ReadPropertyListOfFirst(AddTriple(r, ReadTerms(Parsed(known, Tail(r.rest)), n, env)), env)
  IN  CASE Type(r.rest) = "," -> more(<<first.s, first.p>>, 1)
        [] Type(r.rest) = ";" /\ Type(Tail(r.rest)) \in {".", "}"} -> Expect(r, ";")
        [] Type(r.rest) = ";" /\ Type(Tail(r.rest)) \notin {".", "}"} -> more(<<first.s>>, 2)
        [] Type(r.rest) \notin {",", ";"} -> r

(* What follows a triple: a comma repeats the subject and predicate of the *)
(* triple before it, a semicolon the subject.                              *)
RECURSIVE ReadPropertyList(_, _)
ReadPropertyList(r, env) ==
  LET last == Last(r.v).pat
      more(known, n) ==
        ReadPropertyList(AddTriple(r, ReadTerms(Parsed(known, Tail(r.rest)), n, env)), env)
  IN  CASE Type(r.rest) = "," -> more(<<last.s, last.p>>, 1)
        [] Type(r.rest) = ";" /\ Type(Tail(r.rest)) \in {".", "}"} -> Expect(r, ";")
        [] Type(r.rest) = ";" /\ Type(Tail(r.rest)) \notin {".", "}"} -> more(<<last.s>>, 2)
        [] Type(r.rest) \notin {",", ";"} -> r

ReadTriples(ts, env) ==
  ReadPropertyList(AddTriple(Parsed(<<>>, ts), ReadTerms(Parsed(<<>>, ts), 3, env)), env)

(* An expression, in parentheses or as it stands; of EXISTS nothing is     *)
(* left, and a NOT before anything else is dropped.                        *)
ReadFilter(ts, env) ==
  LET positive == AfterNot(ts)
      expr == IF Type(positive) = "(" THEN Expect(ReadExpr(1, Tail(positive), env), ")")
              ELSE ReadExpr(1, positive, env)
  IN  IF Keyword(positive, "EXISTS")
      THEN Give(ReadExists(positive, env), LAMBDA exists : Filter(NoExpression))
      ELSE Give(expr, Filter)

(* AS ?variable ) after the expression of a BIND. *)
ReadName(expr) ==
  IF Keyword(expr.rest, "AS") /\ Type(Tail(expr.rest)) = "var"
  THEN Expect(Parsed(Bind(expr.rest[2].name, expr.v), Tail(Tail(expr.rest))), ")")
  ELSE Failure

ReadBind(ts, env) ==
  IF Type(ts) = "(" THEN ReadName(ReadExpr(1, Tail(ts), env)) ELSE Failure

(* A variable after GRAPH is written with a question mark. *)
ReadGraph(ts, env) ==
  LET of(name) == Give(ReadGroup(Tail(ts), env), LAMBDA group : Graph(name, group))
  IN  CASE Type(ts) = "var" /\ Head(ts).sigil = "?" -> of(Head(ts).name)
        [] Type(ts) = "iri" -> of(IRI(ReadIRI(ts, env).v))
        [] OTHER -> Failure

RECURSIVE SkipBraces(_, _)
SkipBraces(ts, depth) ==
  IF ts = <<>> \/ depth = 0 THEN ts
  ELSE SkipBraces(Tail(ts), CASE Type(ts) = "{" -> depth + 1
                              [] Type(ts) = "}" -> depth - 1
                              [] Type(ts) \notin {"{", "}"} -> depth)

(* A group in a group, a subquery, which is skipped, or a UNION of two. *)
ReadUnion(left, env) ==
  IF Keyword(left.rest, "UNION")
  THEN Give(ReadGroup(Tail(left.rest), env), LAMBDA right : Union(left.v, right))
  ELSE Give(left, Group)

ReadNested(ts, env) ==
  IF \E form \in {"SELECT", "ASK", "CONSTRUCT", "DESCRIBE"} : Keyword(Tail(ts), form)
  THEN Parsed(Subquery, SkipBraces(Tail(ts), 1))
  ELSE ReadUnion(ReadGroup(ts, env), env)

(* One round of the loop of parseGraphPattern.  A full stop is skipped     *)
(* after all but a nested group.                                           *)
ReadItem(ts, env) ==
  LET one(item) == Add(Parsed(<<>>, ts), item)
  IN  CASE Keyword(ts, "GRAPH") -> SkipMark(one(ReadGraph(Tail(ts), env)), ".")
        [] Keyword(ts, "FILTER") -> SkipMark(one(ReadFilter(Tail(ts), env)), ".")
        [] Keyword(ts, "BIND") -> SkipMark(one(ReadBind(Tail(ts), env)), ".")
        [] Keyword(ts, "OPTIONAL") ->
             SkipMark(one(Give(ReadGroup(Tail(ts), env), Optional)), ".")
        [] Keyword(ts, "MINUS") -> SkipMark(one(Give(ReadGroup(Tail(ts), env), Minus)), ".")
        [] Type(ts) = "{" -> one(ReadNested(ts, env))
        [] OTHER -> SkipMark(ReadTriples(ts, env), ".")

AddAll(r, read) == Give(read, LAMBDA v : r.v \o v)

RECURSIVE ReadItems(_, _)
ReadItems(r, env) ==
  CASE r.rest = <<>> -> Failure
    [] Type(r.rest) = "}" -> Expect(r, "}")
    [] Type(r.rest) \notin {"end", "}"} -> ReadItems(AddAll(r, ReadItem(r.rest, env)), env)

ReadGroup(ts, env) ==
  IF Type(ts) = "{" THEN ReadItems(Parsed(<<>>, Tail(ts)), env) ELSE Failure

-----------------------------------------------------------------------------
(* Queries.  The functions below take what was read of the query so far.   *)

Keep(r, field, read) == Give(read, LAMBDA v : [r.v EXCEPT ![field] = v])

SkipWord(ts, word) == IF Keyword(ts, word) THEN Tail(ts) ELSE ts

(* PREFIX and BASE.  An IRI after PREFIX is resolved, one after BASE is    *)
(* not.                                                                    *)
RECURSIVE ReadPrologue(_, _)
ReadPrologue(ts, env) ==
  LET colon == AfterPrefix(Tail(ts))
      declared == Type(colon) = "local" /\ Head(colon).text = <<>> /\ Type(Tail(colon)) = "iri"
  IN  CASE Keyword(ts, "PREFIX") /\ declared ->
             ReadPrologue(Tail(Tail(colon)), [env EXCEPT !.prefixes =
                            (PrefixAt(Tail(ts)) :> Resolve(colon[2].text, env)) @@ @])
        [] Keyword(ts, "BASE") /\ Type(Tail(ts)) = "iri" ->
             ReadPrologue(Tail(Tail(ts)), [env EXCEPT !.base = ts[2].text])
        [] ~Keyword(ts, "PREFIX") /\ ~Keyword(ts, "BASE") -> Parsed(env, ts)
        [] OTHER -> Failure

(* The tokens after (expression AS ?variable).  Without AS, GROUP BY stops *)
(* in front of the closing parenthesis.                                    *)
RECURSIVE SkipExpression(_, _, _)
SkipExpression(ts, depth, grouping) ==
  LET named == IF Type(Tail(ts)) = "var" THEN Tail(Tail(ts)) ELSE Tail(ts)
  IN  CASE ts = <<>> -> ts
        [] Type(ts) = "(" -> SkipExpression(Tail(ts), depth + 1, grouping)
        [] Type(ts) = ")" /\ depth > 1 -> SkipExpression(Tail(ts), depth - 1, grouping)
        [] Type(ts) = ")" /\ depth = 1 -> IF grouping THEN ts ELSE Tail(ts)
        [] depth = 1 /\ Keyword(ts, "AS") ->
             IF Type(named) = ")" THEN Tail(named) ELSE SkipExpression(named, depth, grouping)
        [] OTHER -> SkipExpression(Tail(ts), depth, grouping)

(* The variables of SELECT or of GROUP BY.  A computed column leaves none, *)
(* a computed group an empty condition.                                    *)
RECURSIVE ReadVariables(_, _)
ReadVariables(r, grouping) ==
  LET after == SkipExpression(Tail(r.rest), 1, grouping)
  IN  CASE Type(r.rest) = "var" ->
             ReadVariables(Parsed(Append(r.v, Head(r.rest).name), Tail(r.rest)), grouping)
        [] Type(r.rest) = "(" ->
             ReadVariables(Parsed(IF grouping THEN Append(r.v, Nil) ELSE r.v, after), grouping)
        [] Type(r.rest) \notin {"var", "("} -> r

(* Nil, as for *, also when there are only computed columns. *)
ReadProjection(ts) ==
  LET variables == ReadVariables(Parsed(<<>>, ts), FALSE)
  IN  CASE Type(ts) = "*" -> Parsed(Nil, Tail(ts))
        [] Type(ts) \in {"var", "("} ->
             Give(variables, LAMBDA names : IF names = <<>> THEN Nil ELSE names)
        [] Type(ts) \notin {"*", "var", "("} -> Failure

ReadGroupBy(r) ==
  CASE Keyword(r.rest, "GROUP") /\ Keyword(Tail(r.rest), "BY") ->
         Keep(r, "groupBy", ReadVariables(Parsed(<<>>, Tail(Tail(r.rest))), TRUE))
    [] Keyword(r.rest, "GROUP") /\ ~Keyword(Tail(r.rest), "BY") -> Failure
    [] ~Keyword(r.rest, "GROUP") -> r

RECURSIVE ReadConditions(_, _)
ReadConditions(r, env) ==
  IF Type(r.rest) = "(" \/ Keyword(r.rest, "EXISTS") \/ Keyword(r.rest, "NOT")
  THEN ReadConditions(Add(r, ReadFilter(r.rest, env)), env) ELSE r

NonEmpty(r) == IF r.v = <<>> THEN Failure ELSE r

ReadHaving(r, env) ==
  IF Keyword(r.rest, "HAVING")
  THEN Keep(r, "having", NonEmpty(ReadConditions(Parsed(<<>>, Tail(r.rest)), env))) ELSE r

Key(x, ascending) == [op |-> "var", var |-> x, ascending |-> ascending]

(* A condition is a variable, with or without ASC or DESC before it.  The  *)
(* loop looks whether LIMIT or OFFSET comes next, and takes the word.      *)
RECURSIVE ReadOrderConditions(_)
ReadOrderConditions(r) ==
  LET descending == Keyword(r.rest, "DESC")
      ts == IF descending \/ Keyword(r.rest, "ASC") THEN Tail(r.rest) ELSE r.rest
      read == Parsed(Append(r.v, Key(Head(ts).name, ~descending)), Tail(ts))
  IN  CASE Type(ts) # "var" -> Parsed(r.v, ts)
        [] Type(ts) = "var" /\ (Keyword(read.rest, "LIMIT") \/ Keyword(read.rest, "OFFSET")) ->
             Parsed(read.v, Tail(read.rest))
        [] OTHER -> ReadOrderConditions(read)

ReadOrderBy(r) ==
  CASE Keyword(r.rest, "ORDER") /\ Keyword(Tail(r.rest), "BY") ->
         Keep(r, "orderBy", ReadOrderConditions(Parsed(<<>>, Tail(Tail(r.rest)))))
    [] Keyword(r.rest, "ORDER") /\ ~Keyword(Tail(r.rest), "BY") -> Failure
    [] ~Keyword(r.rest, "ORDER") -> r

Digit == <<"0", "1", "2", "3", "4", "5", "6", "7", "8", "9">>

(* The number a sequence of digits writes. *)
NumberOf(text) ==
  FoldLeft(LAMBDA n, digit : 10 * n + (CHOOSE i \in DOMAIN Digit : Digit[i] = digit) - 1, 0, text)

(* LIMIT and OFFSET. *)
ReadCount(r, word, field) ==
  CASE Keyword(r.rest, word) /\ Type(Tail(r.rest)) = "number" ->
         Keep(r, field, Parsed(NumberOf(r.rest[2].text), Tail(Tail(r.rest))))
    [] Keyword(r.rest, word) /\ Type(Tail(r.rest)) # "number" -> Failure
    [] ~Keyword(r.rest, word) -> r

SelectAll ==
  [form |-> "select", distinct |-> FALSE, reduced |-> FALSE, vars |-> Nil, template |-> <<>>,
   resources |-> <<>>, where |-> Nil, groupBy |-> <<>>, having |-> <<>>, orderBy |-> <<>>,
   limit |-> Nil, offset |-> Nil]

ReadWhere(r, env) == Keep(r, "where", ReadGroup(SkipWord(r.rest, "WHERE"), env))

(* parseSelect, after the word.  What comes after the last clause that is  *)
(* recognised is not looked at.                                            *)
ReadSelect(ts, env) ==
  LET distinct == Keyword(ts, "DISTINCT")
      reduced == Keyword(ts, "REDUCED")
      columns == Keep(Parsed([SelectAll EXCEPT !.distinct = distinct, !.reduced = reduced], ts),
                      "vars", ReadProjection(IF distinct \/ reduced THEN Tail(ts) ELSE ts))
      ordered == ReadOrderBy(ReadHaving(ReadGroupBy(ReadWhere(columns, env)), env))
  IN  ReadCount(ReadCount(ordered, "LIMIT", "limit"), "OFFSET", "offset")

ReadAsk(ts, env) == ReadWhere(Parsed([SelectAll EXCEPT !.form = "ask"], ts), env)

RECURSIVE ReadTemplate(_, _)
ReadTemplate(r, env) ==
  CASE r.rest = <<>> -> Failure
    [] Type(r.rest) = "}" -> Expect(r, "}")
    [] Type(r.rest) \notin {"end", "}"} ->
         ReadTemplate(AddAll(r, SkipMark(ReadTriples(r.rest, env), ".")), env)

ConstructQuery == [SelectAll EXCEPT !.form = "construct"]

(* CONSTRUCT WHERE takes the triples of the clause, outside of its groups, *)
(* as the template, and refuses filters.                                   *)
ReadShort(where) ==
  LET of(kind) == SelectSeq(where.v, LAMBDA item : item.kind = kind)
  IN  IF where.ok /\ of("filter") = <<>>
      THEN Parsed([ConstructQuery EXCEPT !.template = of("triple"), !.where = where.v], where.rest)
      ELSE Failure

ReadAfterTemplate(r, env) == IF Keyword(r.rest, "WHERE") THEN ReadWhere(r, env) ELSE Failure

ReadConstruct(ts, env) ==
  CASE Keyword(ts, "WHERE") -> ReadShort(ReadGroup(Tail(ts), env))
    [] Type(ts) = "{" ->
         ReadAfterTemplate(Keep(Parsed(ConstructQuery, ts), "template",
                                ReadTemplate(Parsed(<<>>, Tail(ts)), env)), env)
    [] OTHER -> Failure

(* The IRIs to describe, up to the first token that is neither an IRI nor  *)
(* a variable; variables are passed over.                                  *)
RECURSIVE ReadResources(_, _)
ReadResources(r, env) ==
  CASE Type(r.rest) = "iri" ->
         ReadResources(Parsed(Append(r.v, IRI(ReadIRI(r.rest, env).v)), Tail(r.rest)), env)
    [] Type(r.rest) = "var" -> ReadResources(Parsed(r.v, Tail(r.rest)), env)
    [] Type(r.rest) \notin {"iri", "var"} -> r

ReadDescribe(ts, env) ==
  LET query == Keep(Parsed([SelectAll EXCEPT !.form = "describe"], ts), "resources",
                    ReadResources(Parsed(<<>>, ts), env))
  IN  IF Keyword(query.rest, "WHERE") THEN ReadWhere(query, env) ELSE query

(* Parse: the form after the prologue. *)
ReadForm(r) ==
  CASE Keyword(r.rest, "SELECT") -> ReadSelect(Tail(r.rest), r.v)
    [] Keyword(r.rest, "CONSTRUCT") -> ReadConstruct(Tail(r.rest), r.v)
    [] Keyword(r.rest, "ASK") -> ReadAsk(Tail(r.rest), r.v)
    [] Keyword(r.rest, "DESCRIBE") -> ReadDescribe(Tail(r.rest), r.v)
    [] OTHER -> Failure

ReadQuery(ts) == ReadForm(ReadPrologue(ts, NoPrefixes))
=============================================================================
