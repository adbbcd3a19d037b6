------------------------------- MODULE Turtle -------------------------------
(***************************************************************************)
(* TurtleParser of pkg/rdf/turtle.go.  The text is a sequence of tokens;   *)
(* the parser's calls of one another are a stack, and a step is one call   *)
(* of parseTerm, one return from it, or one mark of punctuation.  A token  *)
(* is a record with its kind in t; a namespace stands for the text of an   *)
(* IRI up to its local name, the whole of it in a directive.  A number is  *)
(* one token, or three where it has a point, which code that looks for a   *)
(* full stop takes for one.  A name that ends with its colon is a          *)
(* "prefixname" where it is the first colon behind PREFIX; comments are no *)
(* tokens, and strings have no colons and no angle brackets.               *)
(***************************************************************************)
EXTENDS RDFTerms, Naturals, Sequences

(* The base before any is declared, and the relative IRIs that do without  *)
(* one: two characters at most, or a fragment.                             *)
CONSTANTS NoBase, Bare

VARIABLE parser

-----------------------------------------------------------------------------
(* The parser: the fields of the struct, then the triples of Parse, the    *)
(* calls under way, innermost first, and the term parseTerm returned.      *)

NewTurtleParser(input, prefixes, base, counter, strict) ==
  [input |-> input, pos |-> 1, prefixes |-> prefixes, base |-> base,
   blankNodeCounter |-> counter, strictNTriples |-> strict, extraTriples |-> {},
   lastTermWasPropertyList |-> FALSE,
   triples |-> {}, stack |-> <<>>, term |-> None, status |-> "reading"]

Frame(in, at, s) == [in |-> in, at |-> at, s |-> s, p |-> None, o |-> None, items |-> <<>>]

TypeAt(text, i) == IF i \in 1 .. Len(text) THEN text[i].t ELSE "end"

Ahead(k) == TypeAt(parser.input, parser.pos + k)

Here == Ahead(0)

FullStop == {".", "point"}

Top == Head(parser.stack)

Callers == Tail(parser.stack)

OnTop(frame) == <<frame>> \o Callers

Reading == parser.status = "reading"

(* parseTerm has returned to a call. *)
Returned(in, at) ==
  Reading /\ parser.term # None /\ parser.stack # <<>> /\ Top.in = in /\ Top.at = at

(* A call looks at the next token. *)
Expecting(in, at) ==
  Reading /\ parser.term = None /\ parser.stack # <<>> /\ Top.in = in /\ Top.at = at

Fail == parser' = [parser EXCEPT !.status = "failed"]

-----------------------------------------------------------------------------
(* Parse: directives and statements. *)

BetweenStatements == Reading /\ parser.stack = <<>>

SkipEnding(i, endings) == IF TypeAt(parser.input, i) \in endings THEN i + 1 ELSE i

(* parseIRI on the token at i; most relative IRIs need a base. *)
IRIAt(q, i) ==
  LET type == TypeAt(q.input, i) IN
  CASE type = "iri" -> Named(q.input[i].ns, q.input[i].local)
    [] type = "relative" /\ ~q.strictNTriples /\ (q.base # NoBase \/ q.input[i].local \in Bare) ->
         Named(q.base, q.input[i].local)
    [] OTHER -> None

ParseVersion ==
  /\ BetweenStatements /\ Here = "version"
  /\ IF parser.strictNTriples \/ Ahead(1) # "string"
     THEN Fail
     ELSE parser' = [parser EXCEPT !.pos = SkipEnding(@ + 2, {".", ";"})]

First(set) == CHOOSE i \in set : \A j \in set : i <= j

(* The tokens with a colon from i on. *)
HasColon == {"prefixname", "name", "iri", "label"}

Colons(text, i) == {j \in i .. Len(text) : text[j].t \in HasColon}

(* The name is whatever comes before the first colon; one of more than a   *)
(* token is the prefix of no name.                                         *)
ParsePrefix ==
  /\ BetweenStatements /\ Here = "prefix"
  /\ LET colons == Colons(parser.input, parser.pos + 1)
         name == First(colons)
         iri == IRIAt(parser, name + 1)
         prefix == parser.input[name].prefix
     IN IF parser.strictNTriples \/ colons = {} \/ TypeAt(parser.input, name) # "prefixname" \/ iri = None
        THEN Fail
        ELSE parser' = [parser EXCEPT
               !.prefixes = IF name # parser.pos + 1 THEN @
                            ELSE [x \in DOMAIN @ \cup {prefix} |-> IF x = prefix THEN iri.ns ELSE @[x]],
               !.pos = SkipEnding(name + 2, {".", ";"})]

ParseBase ==
  /\ BetweenStatements /\ Here \in {"@base", "base"}
  /\ LET iri == IRIAt(parser, parser.pos + 1) IN
     IF parser.strictNTriples \/ iri = None \/ (Here = "base" /\ Ahead(2) = ".")
     THEN Fail
     ELSE parser' = [parser EXCEPT !.base = iri.ns, !.pos = SkipEnding(@ + 2, {".", ";"})]

BeginTripleBlock ==
  /\ BetweenStatements
  /\ Here \notin {"version", "prefix", "@base", "base", "end"}
  /\ parser' = [parser EXCEPT !.stack = <<Frame("block", "subject", None)>>]

(* A list of triples with repetitions becomes the set of them. *)
ReturnTriples ==
  /\ BetweenStatements /\ Here = "end"
  /\ parser' = [parser EXCEPT !.status = "done"]

-----------------------------------------------------------------------------
(* parseTerm. *)

HasPoint(q) ==
  TypeAt(q.input, q.pos + 1) = "point" /\ TypeAt(q.input, q.pos + 2) = "number"

ParseNumber(q) ==
  IF HasPoint(q) THEN Decimal(q.input[q.pos].value, q.input[q.pos + 2].value)
                 ELSE Literal(q.input[q.pos].value)

ParseLiteral(q) == Literal(q.input[q.pos].value)

ParseBlankNode(q) == Blank(q.input[q.pos].label)

(* An undefined prefix is an error. *)
ParsePrefixedName(q) ==
  LET token == q.input[q.pos] IN
  IF token.prefix \in DOMAIN q.prefixes
  THEN Named(q.prefixes[token.prefix], token.local)
  ELSE None

(* A term of one token, or None where parseTerm fails. *)
SimpleTerm(q) ==
  LET type == TypeAt(q.input, q.pos)
  IN CASE type \in {"iri", "relative"} -> IRIAt(q, q.pos)
       [] type = "name" -> ParsePrefixedName(q)
       [] type = "label" -> ParseBlankNode(q)
       [] type = "string" -> ParseLiteral(q)
       [] type = "boolean" /\ ~q.strictNTriples -> ParseLiteral(q)
       [] type = "number" /\ ~q.strictNTriples -> ParseNumber(q)
       [] type = "a" /\ ~q.strictNTriples -> RDF("type")
       [] OTHER -> None

SimpleLength(q) == IF TypeAt(q.input, q.pos) = "number" /\ HasPoint(q) THEN 3 ELSE 1

(* A call that is about to call parseTerm.  A list is done at its bracket. *)
WantsTerm ==
  /\ Reading /\ parser.term = None /\ parser.stack # <<>>
  /\ Top.at \in {"subject", "predicate", "object", "item", "reifier", "identifier"}
  /\ ~(Top.in = "list" /\ Here = ")")

ParseSimpleTerm ==
  /\ WantsTerm /\ Here \notin {"[", "(", "<<", "<<("}
  /\ IF SimpleTerm(parser) = None
     THEN Fail
     ELSE parser' = [parser EXCEPT
            !.lastTermWasPropertyList = FALSE,
            !.pos = @ + SimpleLength(parser),
            !.term = SimpleTerm(parser)]

BeginAnonymousBlankNode ==
  /\ WantsTerm /\ Here = "["
  /\ LET node == Blank(parser.blankNodeCounter + 1)
         next == [parser EXCEPT !.blankNodeCounter = @ + 1, !.lastTermWasPropertyList = FALSE]
     IN parser' = IF Ahead(1) = "]"
                  THEN [next EXCEPT !.pos = @ + 2, !.term = node]
                  ELSE [next EXCEPT !.pos = @ + 1,
                                    !.stack = <<Frame("anonymous", "predicate", node)>> \o @]

BeginCollection ==
  /\ WantsTerm /\ Here = "("
  /\ LET next == [parser EXCEPT !.lastTermWasPropertyList = FALSE]
     IN parser' = IF Ahead(1) = ")"
                  THEN [next EXCEPT !.pos = @ + 2, !.term = RDF("nil")]
                  ELSE [next EXCEPT !.pos = @ + 1,
                                    !.stack = <<Frame("list", "item", None)>> \o @]

BeginQuotedTriple ==
  /\ WantsTerm /\ Here \in {"<<", "<<("}
  /\ parser' = [parser EXCEPT
       !.lastTermWasPropertyList = FALSE,
       !.pos = @ + 1,
       !.stack = <<Frame(IF Here = "<<" THEN "quoted" ELSE "tripleterm", "subject", None)>> \o @]

-----------------------------------------------------------------------------
(* What a subject or an object stands for: a quoted triple gets a reifier, *)
(* one that names its reifier stands for it.                               *)

Denoted(term) ==
  CASE term.kind = "quoted" -> Blank(parser.blankNodeCounter + 1)
    [] term.kind = "reified" -> term.id
    [] OTHER -> term

Reification(term) ==
  IF term.kind = "quoted" THEN {Reifies(Denoted(term), term.s, term.p, term.o)} ELSE {}

CounterAfter(term) == parser.blankNodeCounter + (IF term.kind = "quoted" THEN 1 ELSE 0)

-----------------------------------------------------------------------------
(* parseTripleBlock. *)

(* A property list or a quoted triple may be a statement of its own. *)
TakeSubject ==
  /\ Returned("block", "subject")
  /\ LET term == parser.term
         subject == Denoted(term)
         sole == (parser.lastTermWasPropertyList \/ term.kind = "quoted") /\ Here \in FullStop
     IN IF \/ term.kind = "triple" \/ IsLiteral(term) \/ subject = RDF("type")
           \/ parser.strictNTriples /\ term.kind \in {"quoted", "reified"}
        THEN Fail
        ELSE parser' = [parser EXCEPT
               !.term = None, !.extraTriples = {},
               !.triples = @ \cup parser.extraTriples \cup Reification(term),
               !.blankNodeCounter = CounterAfter(term),
               !.pos = IF sole THEN @ + 1 ELSE @,
               !.stack = IF sole THEN <<>> ELSE OnTop([Top EXCEPT !.at = "predicate", !.s = subject])]

TakePredicate ==
  /\ Returned("block", "predicate")
  /\ IF parser.term.kind # "iri"
     THEN Fail
     ELSE parser' = [parser EXCEPT
            !.term = None, !.extraTriples = {},
            !.triples = @ \cup parser.extraTriples,
            !.stack = OnTop([Top EXCEPT !.at = "object", !.p = parser.term])]

TakeObject ==
  /\ Returned("block", "object")
  /\ LET term == parser.term
         object == Denoted(term)
     IN IF \/ object = RDF("type")
           \/ parser.strictNTriples /\ term.kind \in {"quoted", "reified"}
        THEN Fail
        ELSE parser' = [parser EXCEPT
               !.term = None, !.extraTriples = {},
               !.triples = @ \cup parser.extraTriples \cup Reification(term)
                             \cup {Triple(Top.s, Top.p, object)},
               !.blankNodeCounter = CounterAfter(term),
               !.stack = OnTop([Top EXCEPT !.at = "tail", !.o = object])]

(* An empty reifier is a new blank node. *)
Reify(reifier) ==
  [parser EXCEPT
     !.term = None,
     !.triples = @ \cup {Reifies(reifier, Top.s, Top.p, Top.o)},
     !.stack = OnTop([Top EXCEPT !.at = "reified", !.items = <<reifier>>])]

(* Mutant: the strict parser takes a reifier. *)
ParseReifierAlways ==
  /\ Expecting("block", "tail") \/ Expecting("block", "reified")
  /\ Here = "~"
  /\ parser' = IF Ahead(1) \in {".", "point", ",", ";", "{", "{|", "end"}
               THEN [Reify(Blank(parser.blankNodeCounter + 1)) EXCEPT
                       !.pos = @ + 1, !.blankNodeCounter = @ + 1]
               ELSE [parser EXCEPT !.pos = @ + 1, !.stack = OnTop([Top EXCEPT !.at = "reifier"])]

ParseReifier ==
  /\ Expecting("block", "tail") \/ Expecting("block", "reified")
  /\ Here = "~"
  /\ IF parser.strictNTriples
     THEN Fail
     ELSE parser' = IF Ahead(1) \in {".", "point", ",", ";", "{", "{|", "end"}
                    THEN [Reify(Blank(parser.blankNodeCounter + 1)) EXCEPT
                            !.pos = @ + 1, !.blankNodeCounter = @ + 1]
                    ELSE [parser EXCEPT !.pos = @ + 1, !.stack = OnTop([Top EXCEPT !.at = "reifier"])]

TakeReifier ==
  /\ Returned("block", "reifier")
  /\ IF parser.term.kind \in {"iri", "blank"} THEN parser' = Reify(parser.term) ELSE Fail

(* Mutant: the empty annotation behind a reifier is not skipped. *)
ParseReifierAnnotationInPlace ==
  /\ Expecting("block", "reified") /\ Here = "{|"
  /\ parser' = IF Ahead(1) = "|}"
               THEN parser
               ELSE [parser EXCEPT
                       !.pos = @ + 1,
                       !.stack = <<Frame("properties", "predicate", Top.items[1])>> \o @]

(* {| |} behind a reifier: more triples about it; it may be empty. *)
ParseReifierAnnotation ==
  /\ Expecting("block", "reified") /\ Here = "{|"
  /\ parser' = IF Ahead(1) = "|}"
               THEN [parser EXCEPT !.pos = @ + 2]
               ELSE [parser EXCEPT
                       !.pos = @ + 1,
                       !.stack = <<Frame("properties", "predicate", Top.items[1])>> \o @]

(* The first token behind a run of semicolons. *)
BehindSemicolons ==
  CHOOSE i \in parser.pos .. Len(parser.input) + 1 :
    /\ TypeAt(parser.input, i) # ";"
    /\ \A j \in parser.pos .. i - 1 : TypeAt(parser.input, j) = ";"

(* The next object, the next predicate, or the end of a list of predicates *)
(* and objects; close is called with the position of its closing token.    *)
NextObject == parser' = [parser EXCEPT !.pos = @ + 1, !.stack = OnTop([Top EXCEPT !.at = "object"])]

NextPredicate ==
  parser' = [parser EXCEPT !.pos = BehindSemicolons,
                           !.stack = OnTop([Top EXCEPT !.at = "predicate"])]

(* Mutant: a predicate is read behind every semicolon. *)
NextInBlockEager ==
  /\ \/ Expecting("block", "tail")
     \/ Expecting("block", "reified")
  /\ Here \notin {"{|", "~"}
  /\ IF Here \in {",", ";"} /\ parser.strictNTriples THEN Fail
     ELSE IF Here = "," THEN NextObject
     ELSE IF Here = ";" THEN NextPredicate
     ELSE IF Here \in FullStop
          THEN parser' = [parser EXCEPT !.pos = @ + 1, !.stack = <<>>]
          ELSE Fail

NextInBlock ==
  /\ \/ Expecting("block", "tail")
     \/ Expecting("block", "reified")
  /\ Here \notin {"{|", "~"}
  /\ LET ending == BehindSemicolons
         type == TypeAt(parser.input, ending)
     IN IF Here \in {",", ";"} /\ parser.strictNTriples THEN Fail
        ELSE IF Here = "," THEN NextObject
        ELSE IF Here = ";" /\ type \notin FullStop \cup {"end"} THEN NextPredicate
        ELSE IF type \in FullStop
             THEN parser' = [parser EXCEPT !.pos = ending + 1, !.stack = <<>>]
             ELSE Fail

-----------------------------------------------------------------------------
(* parseAnnotation, for the triple of the call below, which may be an      *)
(* annotation itself; the annotation behind a reifier, read in             *)
(* parseTripleBlock, takes any term as it is.                              *)

BeginAnnotation ==
  /\ Expecting("block", "tail") \/ Expecting("annotation", "tail")
  /\ Here = "{|"
  /\ IF parser.strictNTriples \/ Ahead(1) = "|}"
     THEN Fail
     ELSE LET reifier == Blank(parser.blankNodeCounter + 1)
              caller == [Top EXCEPT !.at = IF Top.in = "block" THEN "tail" ELSE "annotated"]
          IN parser' = [parser EXCEPT
               !.pos = @ + 1,
               !.blankNodeCounter = @ + 1,
               !.triples = @ \cup {Reifies(reifier, Top.s, Top.p, Top.o)},
               !.stack = <<Frame("annotation", "predicate", reifier), caller>> \o Callers]

TakeAnnotationPredicate ==
  /\ Returned("annotation", "predicate") \/ Returned("properties", "predicate")
  /\ IF Top.in = "annotation" /\ parser.term.kind # "iri"
     THEN Fail
     ELSE parser' = [parser EXCEPT !.term = None,
                                   !.stack = OnTop([Top EXCEPT !.at = "object", !.p = parser.term])]

TakeAnnotationObject ==
  /\ Returned("annotation", "object")
  /\ LET term == parser.term
         object == Denoted(term)
     IN parser' = [parser EXCEPT
          !.term = None, !.extraTriples = {},
          !.triples = @ \cup parser.extraTriples \cup Reification(term)
                        \cup {Triple(Top.s, Top.p, object)},
          !.blankNodeCounter = CounterAfter(term),
          !.stack = OnTop([Top EXCEPT !.at = "tail", !.o = object])]

TakeReifierProperty ==
  /\ Returned("properties", "object")
  /\ parser' = [parser EXCEPT
       !.term = None, !.extraTriples = {},
       !.triples = @ \cup parser.extraTriples \cup {Triple(Top.s, Top.p, parser.term)},
       !.stack = OnTop([Top EXCEPT !.at = "tail"])]

NextInAnnotation ==
  /\ \/ Expecting("annotation", "tail") /\ Here # "{|"
     \/ Expecting("annotation", "annotated")
     \/ Expecting("properties", "tail")
  /\ LET ending == BehindSemicolons
         type == TypeAt(parser.input, ending)
     IN IF Here = "," THEN NextObject
        ELSE IF Here = ";" /\ type # "|}" THEN NextPredicate
        ELSE IF type = "|}" THEN parser' = [parser EXCEPT !.pos = ending + 1, !.stack = Callers]
        ELSE Fail

-----------------------------------------------------------------------------
(* parseAnonymousBlankNode: its triples wait in extraTriples. *)

TakeProperty ==
  /\ Returned("anonymous", "predicate")
  /\ IF IsLiteral(parser.term) \/ parser.term.kind = "blank"
     THEN Fail
     ELSE parser' = [parser EXCEPT !.term = None,
                                   !.stack = OnTop([Top EXCEPT !.at = "object", !.p = parser.term])]

TakeValue ==
  /\ Returned("anonymous", "object")
  /\ IF parser.term = RDF("type")
     THEN Fail
     ELSE parser' = [parser EXCEPT
            !.term = None,
            !.extraTriples = @ \cup {Triple(Top.s, Top.p, parser.term)},
            !.stack = OnTop([Top EXCEPT !.at = "tail"])]

(* Mutant: the closing bracket is not asked for. *)
NextInAnonymousLenient ==
  /\ Expecting("anonymous", "tail")
  /\ LET ending == BehindSemicolons
         type == TypeAt(parser.input, ending)
     IN IF Here = "," THEN NextObject
        ELSE IF Here = ";" /\ type \notin {"]", "end"} THEN NextPredicate
        ELSE parser' = [parser EXCEPT !.pos = IF type = "]" THEN ending + 1 ELSE ending,
                                      !.stack = Callers, !.term = Top.s,
                                      !.lastTermWasPropertyList = TRUE]

(* The flag is set after the terms inside have cleared it. *)
NextInAnonymous ==
  /\ Expecting("anonymous", "tail")
  /\ LET ending == BehindSemicolons
         type == TypeAt(parser.input, ending)
     IN IF Here = "," THEN NextObject
        ELSE IF Here = ";" /\ type \notin {"]", "end"} THEN NextPredicate
        ELSE IF type = "]"
             THEN parser' = [parser EXCEPT !.pos = ending + 1, !.stack = Callers, !.term = Top.s,
                                           !.lastTermWasPropertyList = TRUE]
             ELSE Fail

-----------------------------------------------------------------------------
(* parseCollection: the nodes of the list are numbered at its end. *)

TakeItem ==
  /\ Returned("list", "item")
  /\ parser' = [parser EXCEPT !.term = None,
                              !.stack = OnTop([Top EXCEPT !.items = Append(@, parser.term)])]

ListNode(i) == Blank(parser.blankNodeCounter + i)

ListTriples(items) ==
  UNION {{Triple(ListNode(i), RDF("first"), items[i]),
          Triple(ListNode(i), RDF("rest"), IF i = Len(items) THEN RDF("nil") ELSE ListNode(i + 1))} :
         i \in 1 .. Len(items)}

EndCollection ==
  /\ Expecting("list", "item") /\ Here = ")"
  /\ parser' = [parser EXCEPT
       !.pos = @ + 1, !.stack = Callers, !.term = ListNode(1),
       !.extraTriples = @ \cup ListTriples(Top.items),
       !.blankNodeCounter = @ + Len(Top.items)]

-----------------------------------------------------------------------------
(* parseQuotedTriple: << s p o >>, << s p o ~ id >> and <<( s p o )>>. *)

TakeQuotedPart(at, next, refused) ==
  /\ Returned("quoted", at) \/ Returned("tripleterm", at)
  /\ IF refused
     THEN Fail
     ELSE parser' = [parser EXCEPT !.term = None, !.stack = OnTop(next)]

(* No collection or property list inside: they leave extra triples, but so *)
(* does a list that was read before the quoted triple.                     *)
TakeQuotedSubject ==
  TakeQuotedPart("subject", [Top EXCEPT !.at = "predicate", !.s = parser.term],
                 IsLiteral(parser.term) \/ parser.extraTriples # {})

TakeQuotedPredicate ==
  TakeQuotedPart("predicate", [Top EXCEPT !.at = "object", !.p = parser.term],
                 parser.term.kind # "iri")

TakeQuotedObject ==
  TakeQuotedPart("object", [Top EXCEPT !.at = "close", !.o = parser.term],
                 parser.extraTriples # {})

(* NewQuotedTriple, and the return of the term. *)
ReturnQuoted(caller, term, extra) ==
  IF Top.s.kind \notin {"iri", "blank", "quoted"}
  THEN Fail
  ELSE parser' = [caller EXCEPT !.pos = @ + 1, !.stack = Callers, !.term = term,
                                !.extraTriples = @ \cup extra]

ReturnReified(caller, id) ==
  ReturnQuoted(caller, ReifiedTriple(id), {Reifies(id, Top.s, Top.p, Top.o)})

EndTripleTerm ==
  /\ Expecting("tripleterm", "close")
  /\ IF Here = ")>>"
     THEN parser' = [parser EXCEPT !.pos = @ + 1, !.stack = Callers,
                                   !.term = TripleTerm(Top.s, Top.p, Top.o)]
     ELSE Fail

EndQuotedTriple ==
  /\ Expecting("quoted", "close") /\ Here # "~"
  /\ IF Here = ">>" THEN ReturnQuoted(parser, QuotedTriple(Top.s, Top.p, Top.o), {}) ELSE Fail

ParseIdentifier ==
  /\ Expecting("quoted", "close") /\ Here = "~" /\ Ahead(1) # ">>"
  /\ parser' = [parser EXCEPT !.pos = @ + 1, !.stack = OnTop([Top EXCEPT !.at = "identifier"])]

NewIdentifier ==
  /\ Expecting("quoted", "close") /\ Here = "~" /\ Ahead(1) = ">>"
  /\ ReturnReified([parser EXCEPT !.pos = @ + 1, !.blankNodeCounter = @ + 1],
                   Blank(parser.blankNodeCounter + 1))

TakeIdentifier ==
  /\ Returned("quoted", "identifier")
  /\ IF parser.term.kind \in {"iri", "blank"} /\ Here = ">>"
     THEN ReturnReified(parser, parser.term)
     ELSE Fail

-----------------------------------------------------------------------------
ReadDirective == ParseVersion \/ ParsePrefix \/ ParseBase

ParseTerm ==
  \/ ParseSimpleTerm \/ BeginAnonymousBlankNode \/ BeginCollection \/ BeginQuotedTriple

InTripleBlock ==
  \/ TakeSubject \/ TakePredicate \/ TakeObject \/ NextInBlock
  \/ ParseReifier \/ TakeReifier \/ ParseReifierAnnotation

InAnnotation ==
  \/ BeginAnnotation \/ TakeAnnotationPredicate \/ TakeAnnotationObject
  \/ TakeReifierProperty \/ NextInAnnotation

InAnonymousBlankNode == TakeProperty \/ TakeValue \/ NextInAnonymous

InCollection == TakeItem \/ EndCollection

InQuotedTriple ==
  \/ TakeQuotedSubject \/ TakeQuotedPredicate \/ TakeQuotedObject
  \/ EndTripleTerm \/ EndQuotedTriple
  \/ ParseIdentifier \/ NewIdentifier \/ TakeIdentifier

ParseStep ==
  \/ ReadDirective \/ BeginTripleBlock \/ ReturnTriples
  \/ ParseTerm \/ InTripleBlock \/ InAnnotation
  \/ InAnonymousBlankNode \/ InCollection \/ InQuotedTriple
=============================================================================
