----------------------------- MODULE SPARQLText -----------------------------
(***************************************************************************)
(* How the SPARQL 1.1 grammar (section 19.8) writes a query in tokens, and *)
(* which texts the parser does not take or does not take in whole.         *)
(*                                                                         *)
(* A query is a record like the parser's, but its columns and groups may   *)
(* be computed, its resources variables.  A style says which of the ways   *)
(* to write it is used:                                                    *)
(*   names   IRIs in full, with a prefix, relative to BASE, or with a      *)
(*           prefix declared relative to BASE;                             *)
(*   sigil   the mark before a variable;                                   *)
(*   lists   with ; and , for repeated subjects and predicates;            *)
(*   stops   a full stop wherever it may stand, or only between triples;   *)
(*   terse   without what may be left out: the word WHERE, parentheses     *)
(*           around a call in FILTER, the template of CONSTRUCT WHERE;     *)
(*   offset  OFFSET before LIMIT.                                          *)
(***************************************************************************)
EXTENDS BuiltIns

Word(w) == [t |-> "word", w |-> w]
Mark(m) == [t |-> m]
Local(text) == [t |-> "local", text |-> text]
IRIToken(text) == [t |-> "iri", text |-> text]
NumberToken(text, type) == [t |-> "number", text |-> text, type |-> type]

Words(ws) == [i \in DOMAIN ws |-> Word(ws[i])]

Between(left, words, right) == <<Mark(left)>> \o words \o <<Mark(right)>>

(* The lists of tokens, with a comma between them. *)
Listed(lists) ==
  FlattenSeq([i \in DOMAIN lists |-> (IF i > 1 THEN <<Mark(",")>> ELSE <<>>) \o lists[i]])

-----------------------------------------------------------------------------
(* Terms and expressions.                                                  *)

Namespace == <<"http:", "ex/">>
InNamespace(text) == Len(text) = 3 /\ SubSeq(text, 1, 2) = Namespace

IRIWords(text, style) ==
  CASE ~InNamespace(text) \/ style.names = "full" -> <<IRIToken(text)>>
    [] InNamespace(text) /\ style.names \in {"prefixed", "both"} ->
         <<Word("ex"), Local(<<text[3]>>)>>
    [] InNamespace(text) /\ style.names = "relative" -> <<IRIToken(<<text[3]>>)>>

LiteralWords(t, style) ==
  LET string == <<[t |-> "string", text |-> t.text]>>
  IN  CASE t.type = XSD("integer") -> <<NumberToken(t.text, t.type)>>
        [] t.type = XSD("boolean") -> Words(t.text)
        [] t.lang # <<>> -> string \o <<[t |-> "lang", w |-> t.lang]>>
        [] t.lang = <<>> /\ t.type = <<>> -> string
        [] OTHER -> string \o <<Mark("^^")>> \o IRIWords(t.type, style)

VarToken(x, style) == [t |-> "var", name |-> x, sigil |-> style.sigil]

TermWords(t, style) ==
  CASE t \in VarName -> <<VarToken(t, style)>>
    [] t \notin VarName /\ t = RDFType /\ style.lists -> <<Word("a")>>
    [] t \notin VarName /\ t.kind = "iri" /\ ~(t = RDFType /\ style.lists) ->
         IRIWords(t.text, style)
    [] t \notin VarName /\ t.kind = "literal" -> LiteralWords(t, style)

LevelOf(e) ==
  CASE e.op = "or" -> 1 [] e.op = "and" -> 2 [] e.op \in Comparison \cup {"in"} -> 3
    [] e.op \in {"+", "-"} -> 4 [] e.op \in {"*", "/"} -> 5 [] e.op = "not" -> 6
    [] e.op \in {"var", "lit", "call"} -> 7

MarkOf(op) == IF op = "or" THEN "||" ELSE IF op = "and" THEN "&&" ELSE op

(* An operand of a level below the one that may stand here needs           *)
(* parentheses.  Comparisons do not associate, the others to the left.     *)
RECURSIVE ExprWords(_, _, _)
ExprWords(e, level, style) ==
  LET own == LevelOf(e)
      list(es) == Between("(", Listed([i \in DOMAIN es |-> ExprWords(es[i], 1, style)]), ")")
      words ==
        CASE e.op = "var" -> <<VarToken(e.var, style)>>
          [] e.op = "lit" -> TermWords(e.term, style)
          [] e.op = "call" -> <<Word(e.fn)>> \o list(e.args)
          [] e.op = "not" -> <<Mark("!")>> \o ExprWords(e.arg, 7, style)
          [] e.op = "in" -> ExprWords(e.arg, 4, style)
               \o Words(IF e.negated THEN <<"NOT", "IN">> ELSE <<"IN">>) \o list(e.list)
          [] e.op \in Logical \cup Comparison \cup Arithmetic ->
               ExprWords(e.left, IF own = 3 THEN 4 ELSE own, style)
                 \o <<Mark(MarkOf(e.op))>> \o ExprWords(e.right, own + 1, style)
  IN  IF own < level THEN Between("(", words, ")") ELSE words

(* A column or a group: a variable or an expression, which may be named.   *)
Computed(e, x) == [expr |-> e, as |-> x]

ColumnWords(column, style) ==
  IF column \in VarName THEN <<VarToken(column, style)>>
  ELSE Between("(", ExprWords(column.expr, 1, style)
                      \o (IF column.as = Nil THEN <<>>
                          ELSE <<Word("AS"), VarToken(column.as, style)>>), ")")

-----------------------------------------------------------------------------
(* Groups.                                                                 *)

IsTriple(group, i) == i \in DOMAIN group /\ group[i].kind = "triple"

Repeats(group, i, pos) ==
  IsTriple(group, i) /\ IsTriple(group, i - 1) /\ group[i].pat[pos] = group[i - 1].pat[pos]

Continues(group, i, style) == style.lists /\ Repeats(group, i, "s")

TripleWords(group, i, style) ==
  LET at(pos) == TermWords(group[i].pat[pos], style)
  IN  CASE ~Continues(group, i, style) -> at("s") \o at("p") \o at("o")
        [] Continues(group, i, style) /\ ~Repeats(group, i, "p") ->
             <<Mark(";")>> \o at("p") \o at("o")
        [] Continues(group, i, style) /\ Repeats(group, i, "p") -> <<Mark(",")>> \o at("o")

Stopped(group, i, style) ==
  /\ ~Continues(group, i + 1, style)
  /\ style.stops \/ (IsTriple(group, i) /\ IsTriple(group, i + 1))

IsBareCall(item, style) == item.kind = "filter" /\ style.terse /\ item.expr.op = "call"

RECURSIVE GroupWords(_, _)
GroupWords(group, style) ==
  LET words(i) ==
        CASE group[i].kind = "triple" -> TripleWords(group, i, style)
          [] group[i].kind = "filter" ->
               <<Word("FILTER")>> \o (IF IsBareCall(group[i], style)
                                      THEN ExprWords(group[i].expr, 1, style)
                                      ELSE Between("(", ExprWords(group[i].expr, 1, style), ")"))
          [] group[i].kind = "bind" ->
               <<Word("BIND")>> \o ColumnWords(Computed(group[i].expr, group[i].var), style)
          [] group[i].kind = "optional" -> <<Word("OPTIONAL")>> \o GroupWords(group[i].group, style)
          [] group[i].kind = "minus" -> <<Word("MINUS")>> \o GroupWords(group[i].group, style)
          [] group[i].kind = "graph" ->
               <<Word("GRAPH")>> \o TermWords(group[i].graph, style)
                 \o GroupWords(group[i].group, style)
          [] group[i].kind = "group" -> GroupWords(group[i].group, style)
          [] group[i].kind = "union" ->
               GroupWords(group[i].left, style) \o <<Word("UNION")>>
                 \o GroupWords(group[i].right, style)
          [] group[i].kind = "subquery" ->
               Between("{", <<Word("SELECT"), Mark("*")>> \o Between("{", <<>>, "}"), "}")
      stop(i) == IF Stopped(group, i, style) THEN <<Mark(".")>> ELSE <<>>
  IN  Between("{", FlattenSeq([i \in DOMAIN group |-> words(i) \o stop(i)]), "}")

-----------------------------------------------------------------------------
(* Queries.                                                                *)

Prologue(style) ==
  LET prefix(iri) == <<Word("PREFIX"), Word("ex"), Local(<<>>), IRIToken(iri)>>
      base(iri) == <<Word("BASE"), IRIToken(iri)>>
  IN  CASE style.names = "full" -> <<>>
        [] style.names = "prefixed" -> prefix(Namespace)
        [] style.names = "relative" -> base(Namespace)
        [] style.names = "both" -> base(<<"http:">>) \o prefix(<<"ex/">>)

IsShort(query, style) ==
  style.terse /\ query.template = query.where

WhereWords(query, style) ==
  CASE query.where = Nil -> <<>>
    [] query.where # Nil /\ style.terse /\ ~IsShort(query, style) -> GroupWords(query.where, style)
    [] query.where # Nil /\ ~(style.terse /\ ~IsShort(query, style)) ->
         <<Word("WHERE")>> \o GroupWords(query.where, style)

Columns(columns, style) ==
  FlattenSeq([i \in DOMAIN columns |-> ColumnWords(columns[i], style)])

HeadWords(query, style) ==
  CASE query.form = "select" ->
         Words(IF query.distinct THEN <<"SELECT", "DISTINCT">>
               ELSE IF query.reduced THEN <<"SELECT", "REDUCED">> ELSE <<"SELECT">>)
           \o (IF query.vars = Nil THEN <<Mark("*")>> ELSE Columns(query.vars, style))
    [] query.form = "ask" -> <<Word("ASK")>>
    [] query.form = "construct" ->
         <<Word("CONSTRUCT")>> \o (IF IsShort(query, style) THEN <<>>
                                   ELSE GroupWords(query.template, style))
    [] query.form = "describe" ->
         <<Word("DESCRIBE")>>
           \o FlattenSeq([i \in DOMAIN query.resources |-> TermWords(query.resources[i], style)])

CountWords(word, count) ==
  IF count = Nil THEN <<>>
  ELSE <<Word(word), NumberToken(Numeral(count), XSD("integer"))>>

(* Only an expression in parentheses can follow ASC or DESC. *)
KeyWords(key, style) ==
  IF key.ascending THEN <<VarToken(key.var, style)>>
  ELSE <<Word("DESC")>> \o Between("(", <<VarToken(key.var, style)>>, ")")

ModifierWords(query, style) ==
  LET clause(word, words) == IF words = <<>> THEN <<>> ELSE Words(<<word, "BY">>) \o words
      each(list, write(_)) == FlattenSeq([i \in DOMAIN list |-> write(list[i])])
      condition(item) == Between("(", ExprWords(item.expr, 1, style), ")")
      key(k) == KeyWords(k, style)
      limit == CountWords("LIMIT", query.limit)
      offset == CountWords("OFFSET", query.offset)
  IN  clause("GROUP", Columns(query.groupBy, style))
        \o (IF query.having = <<>> THEN <<>> ELSE <<Word("HAVING")>> \o each(query.having, condition))
        \o clause("ORDER", each(query.orderBy, key))
        \o (IF style.offset THEN offset \o limit ELSE limit \o offset)

QueryWords(query, style) ==
  Prologue(style) \o HeadWords(query, style) \o WhereWords(query, style)
    \o ModifierWords(query, style)

-----------------------------------------------------------------------------
(* What the parser refuses although SPARQL has it: a value of IN below the *)
(* level of sums; a full stop after a nested group; a graph named with a   *)
(* prefix or by a variable with $; an IRI after a FILTER that ends in a    *)
(* call; CONSTRUCT with a template and without WHERE.                      *)

RECURSIVE HasLooseValue(_)
HasLooseValue(e) ==
  CASE e.op \in {"var", "lit"} -> FALSE
    [] e.op = "call" -> \E i \in DOMAIN e.args : HasLooseValue(e.args[i])
    [] e.op = "not" -> HasLooseValue(e.arg)
    [] e.op = "in" -> \/ HasLooseValue(e.arg)
                      \/ \E i \in DOMAIN e.list : LevelOf(e.list[i]) < 4 \/ HasLooseValue(e.list[i])
    [] e.op \in Logical \cup Comparison \cup Arithmetic ->
         HasLooseValue(e.left) \/ HasLooseValue(e.right)

RECURSIVE IsRefused(_, _)
IsRefused(group, style) ==
  \E i \in DOMAIN group :
    \/ group[i].kind \in {"filter", "bind"} /\ HasLooseValue(group[i].expr)
    \/ group[i].kind \in {"group", "union", "subquery"} /\ style.stops
    \/ /\ group[i].kind = "graph"
       /\ IF group[i].graph \in VarName THEN style.sigil = "$"
          ELSE style.names \in {"prefixed", "both"} /\ InNamespace(group[i].graph.text)
    \/ /\ IsBareCall(group[i], style) /\ ~style.stops /\ IsTriple(group, i + 1)
       /\ TermWords(group[i + 1].pat.s, style)[1].t = "iri"
    \/ group[i].kind \in {"optional", "minus", "graph", "group"} /\ IsRefused(group[i].group, style)
    \/ group[i].kind = "union" /\ (IsRefused(group[i].left, style) \/ IsRefused(group[i].right, style))

Refused(query, style) ==
  \/ query.where # Nil /\ IsRefused(query.where, style)
  \/ query.form = "construct" /\ style.terse /\ ~IsShort(query, style)

(* What it accepts and drops a part of: computed columns and groups; what  *)
(* follows them, DESC or, in ORDER BY, LIMIT; LIMIT after OFFSET; resources *)
(* of DESCRIBE that are not IRIs in angle brackets, and its clause without *)
(* WHERE; the modifiers of any form but SELECT.                            *)
OnlyVariables(columns) == \A i \in DOMAIN columns : columns[i] \in VarName

Cut(query, style) ==
  \/ query.vars # Nil /\ ~OnlyVariables(query.vars)
  \/ ~OnlyVariables(query.groupBy)
  \/ query.orderBy # <<>> /\ {query.limit, query.offset} # {Nil}
  \/ \E i \in DOMAIN query.orderBy : ~query.orderBy[i].ascending
  \/ style.offset /\ Nil \notin {query.limit, query.offset}
  \/ query.form = "describe" /\ style.terse /\ query.where # Nil
  \/ \E i \in DOMAIN query.resources :
       query.resources[i] \in VarName \/ TermWords(query.resources[i], style)[1].t # "iri"
  \/ query.form # "select" /\ (query.orderBy # <<>> \/ {query.limit, query.offset} # {Nil})
=============================================================================
