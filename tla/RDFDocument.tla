---------------------------- MODULE RDFDocument ----------------------------
(***************************************************************************)
(* A document as its author means it, beside what the parsers make of its  *)
(* text: how a document is written, the quads it stands for, and which     *)
(* documents the parsers handle.                                           *)
(*                                                                         *)
(* A document is a sequence of directives, statements and graph blocks.    *)
(* Terms are those of Turtle that are one token, and besides: names,       *)
(* property lists, collections, quoted triples and triple terms.  A        *)
(* property list is a sequence of predicates and objects, each object with *)
(* its annotations and reifiers.                                           *)
(***************************************************************************)
EXTENDS Reading, RDFGraph, SequencesExt, TLC

CONSTANTS Document, Scrap

(* The document the upload was written from, or NoDocument for a scrap. *)
VARIABLE document

NoDocument == <<>>

Name(prefix, local) == [kind |-> "name", prefix |-> prefix, local |-> local]

Relative(local) == [kind |-> "relative", local |-> local]

A == [kind |-> "a"]

Anonymous(list) == [kind |-> "anonymous", list |-> list]

Collection(items) == [kind |-> "collection", items |-> items]

Quote(s, p, o, id) == [kind |-> "quote", s |-> s, p |-> p, o |-> o, id |-> id]

QuotedTerm(s, p, o) == [kind |-> "tripleterm", s |-> s, p |-> p, o |-> o]

(* A reifier or an identifier that is left empty. *)
Empty == [kind |-> "empty"]

Has(p, o, tails) == [p |-> p, o |-> o, tails |-> tails]

Annotation(list) == [kind |-> "annotation", list |-> list]

Reifier(id, list) == [kind |-> "reifier", id |-> id, list |-> list]

Statement(s, list, semicolon) ==
  [item |-> "statement", s |-> s, list |-> list, semicolon |-> semicolon]

Block(keyword, graph, statements, stopped) ==
  [item |-> "block", keyword |-> keyword, graph |-> graph, statements |-> statements,
   stopped |-> stopped]

(* A statement of N-Quads with its graph. *)
Quad(s, p, o, graph) == [item |-> "quad", s |-> s, p |-> p, o |-> o, graph |-> graph]

Prefix(prefix, ns) == [item |-> "prefix", prefix |-> prefix, ns |-> ns]

Base(ns, turtleStyle) == [item |-> "base", ns |-> ns, turtleStyle |-> turtleStyle]

Version == [item |-> "version"]

-----------------------------------------------------------------------------
(* How a document is written. *)

Mark(t) == <<[t |-> t]>>

MarkIf(condition, t) == IF condition THEN Mark(t) ELSE <<>>

IRIToken(ns, local) == <<[t |-> "iri", ns |-> ns, local |-> local]>>

NumberToken(value) == <<[t |-> "number", value |-> value]>>

RECURSIVE Words(_), ListWords(_), TailWords(_)

Words(term) ==
  CASE term.kind = "iri" -> IRIToken(term.ns, term.local)
    [] term.kind = "relative" -> <<[t |-> "relative", local |-> term.local]>>
    [] term.kind = "name" -> <<[t |-> "name", prefix |-> term.prefix, local |-> term.local]>>
    [] term.kind = "blank" -> <<[t |-> "label", label |-> term.label]>>
    [] term.kind = "literal" -> <<[t |-> "string", value |-> term.value]>>
    [] term.kind = "decimal" -> NumberToken(term.whole) \o Mark("point") \o NumberToken(term.fraction)
    [] term.kind = "a" -> Mark("a")
    [] term.kind = "anonymous" ->
         Mark("[") \o ListWords(term.list) \o MarkIf(Len(term.list) > 1, ";") \o Mark("]")
    [] term.kind = "collection" ->
         Mark("(") \o FlattenSeq([i \in 1 .. Len(term.items) |-> Words(term.items[i])]) \o Mark(")")
    [] term.kind = "tripleterm" ->
         Mark("<<(") \o Words(term.s) \o Words(term.p) \o Words(term.o) \o Mark(")>>")
    [] term.kind = "quote" ->
         Mark("<<") \o Words(term.s) \o Words(term.p) \o Words(term.o)
           \o MarkIf(term.id # None, "~") \o Words(term.id) \o Mark(">>")
    [] OTHER -> <<>>

(* Equal predicates in a row are written once, with commas; lists of more  *)
(* than one inside brackets end with a semicolon.                          *)
ListWords(list) ==
  FlattenSeq([i \in 1 .. Len(list) |->
    (IF i > 1 /\ list[i].p = list[i - 1].p
     THEN Mark(",")
     ELSE MarkIf(i > 1, ";") \o Words(list[i].p))
    \o Words(list[i].o)
    \o FlattenSeq([j \in 1 .. Len(list[i].tails) |-> TailWords(list[i].tails[j])])])

TailWords(tail) ==
  IF tail.kind = "annotation"
  THEN Mark("{|") \o ListWords(tail.list) \o MarkIf(Len(tail.list) > 1, ";") \o Mark("|}")
  ELSE Mark("~") \o Words(tail.id)
         \o (IF tail.list = <<>> THEN <<>>
             ELSE Mark("{|") \o ListWords(tail.list) \o Mark("|}"))

StatementWords(s) ==
  Words(s.s) \o ListWords(s.list) \o MarkIf(s.semicolon, ";") \o MarkIf(s.semicolon, ";")

BlockWords(b) ==
  FlattenSeq([i \in 1 .. Len(b.statements) |->
    StatementWords(b.statements[i]) \o MarkIf(b.stopped \/ i < Len(b.statements), ".")])

ItemWords(item) ==
  CASE item.item = "prefix" ->
         Mark("prefix") \o <<[t |-> "prefixname", prefix |-> item.prefix]>> \o IRIToken(item.ns, "")
           \o Mark(".")
    [] item.item = "base" ->
         Mark(IF item.turtleStyle THEN "@base" ELSE "base") \o IRIToken(item.ns, "")
           \o MarkIf(item.turtleStyle, ".")
    [] item.item = "version" -> Mark("version") \o <<[t |-> "string", value |-> "1.2"]>>
    [] item.item = "statement" -> StatementWords(item) \o Mark(".")
    [] item.item = "quad" ->
         Words(item.s) \o Words(item.p) \o Words(item.o) \o Words(item.graph) \o Mark(".")
    [] item.item = "block" ->
         MarkIf(item.keyword, "graph") \o Words(item.graph)
           \o Mark("{") \o BlockWords(item) \o Mark("}")

TextOf(items) == FlattenSeq([i \in 1 .. Len(items) |-> ItemWords(items[i])])

-----------------------------------------------------------------------------
(* What a document stands for.  A blank node without a label is named by   *)
(* its place in the document; env holds the prefixes and the base.         *)

Bindings(items) ==
  LET Bound(x) == {i \in DOMAIN items : items[i].item = "prefix" /\ items[i].prefix = x}
  IN [x \in {items[i].prefix : i \in {j \in DOMAIN items : items[j].item = "prefix"}} |->
        items[Max(Bound(x))].ns]

Env(items) ==
  LET bases == {i \in DOMAIN items : items[i].item = "base"}
  IN [prefixes |-> Bindings(items),
      base |-> IF bases = {} THEN NoBase ELSE items[Max(bases)].ns]

RECURSIVE Node(_, _, _)

Node(term, env, place) ==
  CASE term.kind = "name" -> Named(env.prefixes[term.prefix], term.local)
    [] term.kind = "relative" -> Named(env.base, term.local)
    [] term.kind = "a" -> RDF("type")
    [] term.kind = "anonymous" -> Blank(place)
    [] term.kind = "collection" ->
         IF term.items = <<>> THEN RDF("nil") ELSE Blank(place \o <<1, 0>>)
    [] term.kind = "quote" ->
         IF term.id \in {None, Empty} THEN Blank(place) ELSE Node(term.id, env, place \o <<4>>)
    [] term.kind = "tripleterm" ->
         TripleTerm(Node(term.s, env, place \o <<1>>), Node(term.p, env, place),
                    Node(term.o, env, place \o <<3>>))
    [] OTHER -> term

RECURSIVE Graph(_, _, _), ListGraph(_, _, _, _), TailGraph(_, _, _, _)

(* The triples a term brings with it. *)
Graph(term, env, place) ==
  CASE term.kind = "anonymous" -> ListGraph(Blank(place), term.list, env, place)
    [] term.kind = "collection" ->
         LET n == Len(term.items)
             Cell(i) == IF i > n THEN RDF("nil") ELSE Blank(place \o <<i, 0>>)
         IN UNION {{Triple(Cell(i), RDF("first"), Node(term.items[i], env, place \o <<i, 1>>)),
                    Triple(Cell(i), RDF("rest"), Cell(i + 1))}
                     \cup Graph(term.items[i], env, place \o <<i, 1>>) : i \in 1 .. n}
    [] term.kind = "quote" ->
         {Reifies(Node(term, env, place), Node(term.s, env, place \o <<1>>),
                  Node(term.p, env, place), Node(term.o, env, place \o <<3>>))}
           \cup Graph(term.s, env, place \o <<1>>) \cup Graph(term.o, env, place \o <<3>>)
    [] OTHER -> {}

ListGraph(s, list, env, place) ==
  UNION {LET here == place \o <<i>>
             object == here \o <<0>>
             triple == Triple(s, Node(list[i].p, env, place), Node(list[i].o, env, object))
         IN {triple} \cup Graph(list[i].o, env, object)
              \cup UNION {TailGraph(triple, list[i].tails[j], env, here \o <<j>>) :
                          j \in 1 .. Len(list[i].tails)} :
         i \in 1 .. Len(list)}

TailGraph(triple, tail, env, place) ==
  LET reifier == IF tail.kind = "annotation" \/ tail.id = Empty
                 THEN Blank(place)
                 ELSE Node(tail.id, env, place)
  IN {Reifies(reifier, triple.s, triple.p, triple.o)} \cup ListGraph(reifier, tail.list, env, place)

StatementGraph(s, env, place) ==
  Graph(s.s, env, place \o <<0>>)
    \cup ListGraph(Node(s.s, env, place \o <<0>>), s.list, env, place)

ItemQuads(items, i) ==
  LET item == items[i]
      env == Env(SubSeq(items, 1, i))
      In(graph, triples) == {[triple |-> triple, g |-> graph] : triple \in triples}
  IN CASE item.item = "statement" -> In(DefaultGraph, StatementGraph(item, env, <<i>>))
       [] item.item = "quad" -> In(item.graph, {Triple(item.s, item.p, Node(item.o, env, <<i>>))})
       [] item.item = "block" ->
            In(IF item.graph = None THEN DefaultGraph ELSE Node(item.graph, env, <<i>>),
               UNION {StatementGraph(item.statements[j], env, <<i, j>>) :
                      j \in 1 .. Len(item.statements)})
       [] OTHER -> {}

Meaning(items) == UNION {ItemQuads(items, i) : i \in DOMAIN items}

-----------------------------------------------------------------------------
Written(items) == document = items /\ \E f \in Format : upload = Uploaded(TextOf(items), f)

DocumentInit ==
  /\ parser = Idle
  /\ \/ \E items \in Document : Written(items)
     \/ document = NoDocument /\ \E text \in Scrap, f \in Format : upload = Uploaded(text, f)

DocumentNext == ReadingNext /\ UNCHANGED document

documentVars == <<parser, upload, document>>

DocumentSpec ==
  DocumentInit /\ [][DocumentNext]_documentVars /\ WF_documentVars(DocumentNext)

-----------------------------------------------------------------------------
(* The documents the parsers handle.  A quoted triple is given its reifier *)
(* only as a subject, an object, or the object of an annotation; a         *)
(* property list in brackets has no annotations.                           *)

RECURSIVE NeedsReifier(_)

NeedsReifier(term) ==
  CASE term.kind = "quote" -> TRUE
    [] term.kind = "anonymous" ->
         \E i \in DOMAIN term.list : term.list[i].tails # <<>> \/ NeedsReifier(term.list[i].o)
    [] term.kind = "collection" -> \E i \in DOMAIN term.items : NeedsReifier(term.items[i])
    [] OTHER -> FALSE

QuotesOutside(term) ==
  IF term.kind = "quote" THEN ~NeedsReifier(term.s) /\ ~NeedsReifier(term.o) ELSE ~NeedsReifier(term)

RECURSIVE HandledTail(_)

(* An annotation may have one of its own; a reifier's may not, and its     *)
(* objects are taken as they are.                                          *)
HandledTail(tail) ==
  \A i \in DOMAIN tail.list :
    LET has == tail.list[i] IN
    IF tail.kind = "annotation"
    THEN /\ QuotesOutside(has.o) /\ Len(has.tails) <= 1
         /\ \A j \in DOMAIN has.tails : has.tails[j].kind = "annotation" /\ HandledTail(has.tails[j])
    ELSE ~NeedsReifier(has.o) /\ has.tails = <<>>

(* A quoted triple that names its reifier is not taken for a statement. *)
HandledStatement(s) ==
  /\ QuotesOutside(s.s)
  /\ s.list = <<>> => s.s.kind = "anonymous" \/ s.s.id = None
  /\ \A i \in DOMAIN s.list :
       /\ QuotesOutside(s.list[i].o)
       /\ \A j \in DOMAIN s.list[i].tails : HandledTail(s.list[i].tails[j])

HasTailWithin(list) ==
  \E i \in DOMAIN list : \E j \in DOMAIN list[i].tails :
    \E k \in DOMAIN list[i].tails[j].list : list[i].tails[j].list[k].tails # <<>>

HasPointIn(words) == \E i \in DOMAIN words : words[i].t = "point"

(* In TriG the end of a statement outside a block is the first point, or a *)
(* brace behind the first |}; a block without its last full stop must have *)
(* no other point; VERSION is read with the statement behind it.           *)
HandledTriG(items, i) ==
  LET item == items[i] IN
  CASE item.item = "statement" ->
         HandledStatement(item) /\ ~HasTailWithin(item.list) /\ ~HasPointIn(StatementWords(item))
    [] item.item = "block" ->
         /\ \A j \in DOMAIN item.statements : HandledStatement(item.statements[j])
         /\ item.stopped \/ (Len(item.statements) <= 1 /\ ~HasPointIn(BlockWords(item)))
    [] item.item = "version" -> i < Len(items) /\ items[i + 1].item = "statement"
    [] item.item = "quad" -> FALSE
    [] OTHER -> TRUE

HandledTurtle(item) ==
  CASE item.item = "statement" -> HandledStatement(item)
    [] OTHER -> item.item \notin {"block", "quad"}

NTriples(item) ==
  /\ item.item = "statement" /\ ~item.semicolon /\ Len(item.list) = 1
  /\ item.s.kind \in {"iri", "blank"} /\ item.list[1].p.kind = "iri"
  /\ item.list[1].o.kind \in {"iri", "blank", "literal", "tripleterm"}
  /\ item.list[1].tails = <<>>

Handled(items) ==
  /\ items # NoDocument
  /\ \A i \in DOMAIN items :
       CASE upload.format = "turtle" -> HandledTurtle(items[i])
         [] upload.format = "trig" -> HandledTriG(items, i)
         [] upload.format = "strict" -> NTriples(items[i])
         [] upload.format = "nquads" -> NTriples(items[i]) \/ items[i].item = "quad"

-----------------------------------------------------------------------------
(* A document the parsers handle is read as the quads it stands for, up to *)
(* the names of its unlabelled blank nodes: generated labels are unique    *)
(* across terms, statements and graph blocks, no triple of a collection or *)
(* property list is lost or gets into another graph, and prefixes hold     *)
(* from where they are bound.                                              *)
MeansItsGraph ==
  upload.status = "done" /\ Handled(document) => SameGraph(upload.quads, Meaning(document))

(* The parsers report no error in a document they handle. *)
HandledAccepted == upload.status \in {"failed", "panicked"} => ~Handled(document)

(* No text keeps a parser busy for ever. *)
ReadingEnds == <>(upload.status \in {"done", "failed", "panicked"})
=============================================================================
