-------------------------------- MODULE TriG --------------------------------
(***************************************************************************)
(* Reading an upload: the parsers of pkg/rdf/io.go over TurtleParser, and  *)
(* TriGParser of pkg/rdf/trig.go, which finds the end of a graph block or  *)
(* of a statement by itself and hands the text up to there to a            *)
(* TurtleParser of its own, with copies of its prefixes and its counter.   *)
(***************************************************************************)
EXTENDS Turtle, FiniteSets

(* Runaway is the namespace of an IRI of TriG with a < inside. *)
CONSTANTS Text, Runaway

(* No token is what TypeAt says of the end of the input. *)
ASSUME TextAssumption ==
  \A text \in Text :
    /\ text \in Seq({text[i] : i \in DOMAIN text})
    /\ \A i \in DOMAIN text : text[i].t # "end"

(* "strict" is NewNTriplesParser; the N-Triples of io.go is read as Turtle. *)
Format == {"turtle", "strict", "trig", "nquads"}

(* The upload: its text and format, the fields of the TriGParser struct,   *)
(* the graph of the block under way, and the quads so far.                 *)
VARIABLE upload

vars == <<parser, upload>>

NoPrefixes == [x \in {} |-> NoBase]

Uploaded(text, format) ==
  [text |-> text, format |-> format, pos |-> 1, prefixes |-> NoPrefixes, base |-> NoBase,
   blankNodeCounter |-> 0, graph |-> DefaultGraph, quads |-> {}, status |-> "open"]

Idle == [NewTurtleParser(<<>>, NoPrefixes, NoBase, 0, FALSE) EXCEPT !.status = "idle"]

Init == parser = Idle /\ \E text \in Text, format \in Format : upload = Uploaded(text, format)

-----------------------------------------------------------------------------
(* Where a block or a statement ends. *)

Token(i) == TypeAt(upload.text, i)

NextToken == Token(upload.pos)

(* An angle bracket opens what passes for an IRI, the first of << too. *)
InIRI(text, first, i) ==
  \E j \in first .. i :
    /\ TypeAt(text, j) \in {"<<", "<<("}
    /\ \A k \in j + 1 .. i : TypeAt(text, k) \notin {">>", ")>>", "iri", "relative"}

(* parseTriplesBlock counts every brace, those of annotations too. *)
Braces(first, i, kinds) == Cardinality({j \in first .. i : Token(j) \in kinds})

ClosingBraces(first) ==
  {i \in first .. Len(upload.text) :
     Braces(first, i, {"}", "|}"}) = Braces(first, i, {"{", "{|"}) + 1}

(* ensureProperTermination looks for one full stop anywhere in the block. *)
HasFullStop(text) == \E i \in DOMAIN text : text[i].t \in FullStop /\ ~InIRI(text, 1, i)

EnsureProperTermination(text) ==
  IF text = <<>> \/ HasFullStop(text) THEN text ELSE Append(text, [t |-> "."])

(* findTripleBlockEnd skips from {| to the first |}. *)
InAnnotationBlock(first, i) ==
  \E j \in first .. i : Token(j) = "{|" /\ \A k \in j .. i - 1 : Token(k) # "|}"

StatementStops(first) ==
  {i \in first .. Len(upload.text) :
     /\ Token(i) \in FullStop \cup {"{", "}", "|}"}
     /\ ~InIRI(upload.text, first, i) /\ ~InAnnotationBlock(first, i)}

-----------------------------------------------------------------------------
(* TriGParser.parseIRI on the tokens at i: whatever comes before the first *)
(* > is the IRI.  The second > of a closing bracket is left over; nothing  *)
(* takes it.  It does not mind a missing base.                             *)
IsAngle(i) == Token(i) \in {"iri", "relative", "<<", "<<("}

TriGIRIEnds(text, i) == {j \in i .. Len(text) : text[j].t \in {"iri", "relative", ">>", ")>>"}}

TriGIRI(i) ==
  LET ends == TriGIRIEnds(upload.text, i)
      end == First(ends)
  IN IF ~IsAngle(i) \/ ends = {} \/ Token(end) \in {">>", ")>>"}
     THEN None
     ELSE IF end # i THEN Named(Runaway, upload.text[end].local)
     ELSE IF Token(i) = "relative" THEN Named(upload.base, upload.text[i].local)
     ELSE Named(upload.text[i].ns, upload.text[i].local)

(* TriGParser.parseTerm on the tokens at i, and how many it takes. *)
Unread(i) ==
  [input |-> upload.text, pos |-> i, prefixes |-> upload.prefixes, base |-> upload.base,
   strictNTriples |-> FALSE]

GraphTerm(i) == IF IsAngle(i) THEN TriGIRI(i) ELSE SimpleTerm(Unread(i))

GraphTermLength(i) ==
  IF IsAngle(i) THEN First(TriGIRIEnds(upload.text, i)) + 1 - i ELSE SimpleLength(Unread(i))

AnonymousAt(i) == Token(i) = "[" /\ Token(i + 1) = "]"

Outside == upload.status = "open" /\ upload.format = "trig"

GiveUp == upload' = [upload EXCEPT !.status = "failed"] /\ UNCHANGED parser

Delegate(content, graph, pos, counter) ==
  /\ parser' = NewTurtleParser(content, upload.prefixes, upload.base, counter, FALSE)
  /\ upload' = [upload EXCEPT !.status = "inside", !.graph = graph, !.pos = pos]

(* parseTriplesBlock: the content of the block that opens at the brace. *)
ParseTriplesBlock(brace, graph, counter) ==
  LET ends == ClosingBraces(brace + 1)
      content == SubSeq(upload.text, brace + 1, First(ends) - 1)
  IN IF \/ ends = {} \/ Token(First(ends)) = "|}"
        \/ Token(brace + 1) \in {"prefix", "@base", "base"}
     THEN GiveUp
     ELSE Delegate(EnsureProperTermination(content), graph, First(ends) + 1, counter)

-----------------------------------------------------------------------------
ReadWhole ==
  /\ upload.status = "open" /\ upload.format \in {"turtle", "strict"}
  /\ parser' = NewTurtleParser(upload.text, NoPrefixes, NoBase, 0, upload.format = "strict")
  /\ upload' = [upload EXCEPT !.status = "inside"]

ParseTriGPrefix ==
  /\ Outside /\ NextToken = "prefix"
  /\ LET colons == Colons(upload.text, upload.pos + 1)
         name == First(colons)
         iri == TriGIRI(name + 1)
         prefix == upload.text[name].prefix
         next == name + 1 + GraphTermLength(name + 1)
     IN IF colons = {} \/ Token(name) # "prefixname" \/ iri = None
        THEN GiveUp
        ELSE /\ upload' = [upload EXCEPT
                  !.prefixes = IF name # upload.pos + 1 THEN @
                               ELSE [x \in DOMAIN @ \cup {prefix} |-> IF x = prefix THEN iri.ns ELSE @[x]],
                  !.pos = IF Token(next) = "." THEN next + 1 ELSE next]
             /\ UNCHANGED parser

(* @base must end with a full stop, BASE must not. *)
ParseTriGBase ==
  /\ Outside /\ NextToken \in {"@base", "base"}
  /\ LET iri == TriGIRI(upload.pos + 1)
         next == upload.pos + 1 + GraphTermLength(upload.pos + 1)
     IN IF iri = None \/ (Token(next) = ".") # (NextToken = "@base")
        THEN GiveUp
        ELSE /\ upload' = [upload EXCEPT !.base = iri.ns,
                                         !.pos = IF Token(next) = "." THEN next + 1 ELSE next]
             /\ UNCHANGED parser

ParseGraphBlock ==
  /\ Outside /\ NextToken = "graph"
  /\ LET i == upload.pos + 1
         counter == upload.blankNodeCounter
         term == GraphTerm(i)
     IN IF AnonymousAt(i) /\ Token(i + 2) = "{"
        THEN ParseTriplesBlock(i + 2, Blank(counter + 1), counter + 1)
        ELSE IF term.kind \in {"iri", "blank"} /\ Token(i + GraphTermLength(i)) = "{"
        THEN ParseTriplesBlock(i + GraphTermLength(i), term, counter)
        ELSE GiveUp

ParseAnonymousGraphBlock ==
  /\ Outside /\ NextToken = "{"
  /\ ParseTriplesBlock(upload.pos, DefaultGraph, upload.blankNodeCounter)

Keywords == {"prefix", "@base", "base", "graph", "{", "end"}

(* Look ahead for a brace behind the first term; any term may name a graph. *)
NamedBlockAhead ==
  \/ AnonymousAt(upload.pos) /\ Token(upload.pos + 2) = "{"
  \/ GraphTerm(upload.pos) # None /\ Token(upload.pos + GraphTermLength(upload.pos)) = "{"

ParseNamedGraphBlock ==
  /\ Outside /\ NextToken \notin Keywords /\ NamedBlockAhead
  /\ LET counter == upload.blankNodeCounter IN
     IF NextToken = "["
     THEN ParseTriplesBlock(upload.pos + 2, Blank(counter + 1), counter + 1)
     ELSE ParseTriplesBlock(upload.pos + GraphTermLength(upload.pos), GraphTerm(upload.pos), counter)

ParseDefaultGraphTripleBlock ==
  /\ Outside /\ NextToken \notin Keywords /\ ~NamedBlockAhead
  /\ LET stops == StatementStops(upload.pos)
         end == First(stops)
     IN IF stops = {} \/ Token(end) \notin FullStop
        THEN GiveUp
        ELSE Delegate(SubSeq(upload.text, upload.pos, end), DefaultGraph, end + 1,
                      upload.blankNodeCounter)

ParseInside == upload.status = "inside" /\ ParseStep /\ UNCHANGED upload

(* Mutant: every block numbers its blank nodes from the same start. *)
TakeOverQuads ==
  /\ upload.status = "inside" /\ parser.status = "done"
  /\ upload' = [upload EXCEPT
       !.quads = @ \cup {[triple |-> triple, g |-> upload.graph] : triple \in parser.triples},
       !.status = IF upload.format = "trig" THEN "open" ELSE "done"]
  /\ parser' = Idle

(* The TurtleParser is done: its triples go to the graph, its counter is   *)
(* taken over, and its prefixes are dropped.                               *)
TakeOver ==
  /\ upload.status = "inside" /\ parser.status = "done"
  /\ upload' = [upload EXCEPT
       !.quads = @ \cup {[triple |-> triple, g |-> upload.graph] : triple \in parser.triples},
       !.blankNodeCounter = parser.blankNodeCounter,
       !.status = IF upload.format = "trig" THEN "open" ELSE "done"]
  /\ parser' = Idle

PassError ==
  /\ upload.status = "inside" /\ parser.status = "failed"
  /\ GiveUp

ReturnQuads ==
  /\ Outside /\ NextToken = "end"
  /\ upload' = [upload EXCEPT !.status = "done"]
  /\ UNCHANGED parser

Next ==
  \/ ReadWhole \/ ParseTriGPrefix \/ ParseTriGBase
  \/ ParseGraphBlock \/ ParseAnonymousGraphBlock \/ ParseNamedGraphBlock
  \/ ParseDefaultGraphTripleBlock
  \/ ParseInside \/ TakeOver \/ PassError \/ ReturnQuads
=============================================================================
