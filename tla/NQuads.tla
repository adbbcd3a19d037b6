------------------------------- MODULE NQuads -------------------------------
(***************************************************************************)
(* NQuadsParser of pkg/rdf/nquads.go, over the tokens of an upload: one    *)
(* quad after the other, each of three or four terms and a full stop.  It  *)
(* keeps nothing between two quads but its position.                       *)
(***************************************************************************)
EXTENDS TriG

(* A term that was read, with the position behind it. *)
Read(term, next) == [term |-> term, next |-> next]

(* An error, and a read of the character behind the last one: parseTerm    *)
(* looks at it without a check, and the goroutine panics.                  *)
Refused == Read(None, 0)

Panicked == Read([kind |-> "panic"], 0)

Stuck(read) == read \in {Refused, Panicked}

(* terms is what parseTerm makes of each place further on. *)
ParseQuotedTriple(text, terms, i) ==
  LET s == terms[i + 1]
      p == terms[s.next]
      o == terms[p.next]
  IN IF Stuck(s) THEN s
     ELSE IF IsLiteral(s.term) THEN Refused
     ELSE IF Stuck(p) THEN p
     ELSE IF p.term.kind # "iri" THEN Refused
     ELSE IF Stuck(o) THEN o
     ELSE IF TypeAt(text, o.next) # ")>>" THEN Refused
     ELSE Read(TripleTerm(s.term, p.term, o.term), o.next + 1)

ParseQuadTerm(text, terms, i) ==
  CASE TypeAt(text, i) = "end" -> Panicked
    [] TypeAt(text, i) = "iri" -> Read(Named(text[i].ns, text[i].local), i + 1)
    [] TypeAt(text, i) = "label" -> Read(Blank(text[i].label), i + 1)
    [] TypeAt(text, i) = "string" -> Read(Literal(text[i].value), i + 1)
    [] TypeAt(text, i) = "<<(" -> ParseQuotedTriple(text, terms, i)
    [] OTHER -> Refused

TermsOf(text) ==
  LET terms[i \in 1 .. Len(text) + 1] == ParseQuadTerm(text, terms, i)
  IN terms

ReadingQuads == upload.status = "open" /\ upload.format = "nquads"

(* What begins with an angle bracket or an underscore names the graph. *)
GraphAhead(i) == Token(i) \in {"iri", "relative", "<<", "<<(", "label"}

(* parseQuad: any term but a triple term is a subject or a predicate. *)
QuadAt(i) ==
  LET terms == TermsOf(upload.text)
      s == terms[i]
      p == terms[s.next]
      o == terms[p.next]
      g == IF GraphAhead(o.next) THEN terms[o.next] ELSE Read(DefaultGraph, o.next)
  IN IF Stuck(s) THEN s
     ELSE IF s.term.kind = "triple" THEN Refused
     ELSE IF Stuck(p) THEN p
     ELSE IF p.term.kind = "triple" THEN Refused
     ELSE IF Stuck(o) THEN o
     ELSE IF Stuck(g) THEN g
     ELSE IF Token(g.next) \notin FullStop THEN Refused
     ELSE Read([triple |-> Triple(s.term, p.term, o.term), g |-> g.term], g.next + 1)

(* Directives are refused, as terms and by name. *)
ParseQuad ==
  /\ ReadingQuads /\ NextToken # "end"
  /\ LET quad == QuadAt(upload.pos) IN
     upload' = CASE quad = Refused -> [upload EXCEPT !.status = "failed"]
                 [] quad = Panicked -> [upload EXCEPT !.status = "panicked"]
                 [] OTHER -> [upload EXCEPT !.quads = @ \cup {quad.term}, !.pos = quad.next]
  /\ UNCHANGED parser

ReturnNQuads ==
  /\ ReadingQuads /\ NextToken = "end"
  /\ upload' = [upload EXCEPT !.status = "done"]
  /\ UNCHANGED parser

(* Reading an upload in any of the formats. *)
ReadingNext == Next \/ ParseQuad \/ ReturnNQuads
=============================================================================
