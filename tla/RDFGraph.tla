------------------------------ MODULE RDFGraph ------------------------------
(***************************************************************************)
(* Two sets of quads that differ in the names of unlabelled nodes only:    *)
(* what an author means beside what a parser reads.                        *)
(***************************************************************************)
EXTENDS RDFTerms, FiniteSets, Functions, TLC

(* The labels an author gave, which keep their names. *)
CONSTANT Label

RECURSIVE TermNodes(_), Rename(_, _)

TermNodes(term) ==
  CASE term.kind = "blank" -> {term.label} \ Label
    [] term.kind = "triple" -> TermNodes(term.s) \cup TermNodes(term.o)
    [] OTHER -> {}

Rename(term, f) ==
  CASE term.kind = "blank" -> IF term.label \in DOMAIN f THEN Blank(f[term.label]) ELSE term
    [] term.kind = "triple" -> TripleTerm(Rename(term.s, f), term.p, Rename(term.o, f))
    [] OTHER -> term

GraphNodes(g) == IF g = DefaultGraph THEN {} ELSE TermNodes(g)

RenameQuad(q, f) ==
  [triple |-> Triple(Rename(q.triple.s, f), q.triple.p, Rename(q.triple.o, f)),
   g |-> IF q.g = DefaultGraph THEN q.g ELSE Rename(q.g, f)]

Nodes(quads) ==
  UNION {TermNodes(q.triple.s) \cup TermNodes(q.triple.o) \cup GraphNodes(q.g) : q \in quads}

(* The quads of a node, with all others of its set made one. *)
Around(quads, node) ==
  LET f == [x \in Nodes(quads) |-> IF x = node THEN <<1>> ELSE <<0>>]
  IN {RenameQuad(q, f) : q \in {r \in quads : node \in Nodes({r})}}

RECURSIVE Matches(_, _, _, _)

Matches(quads, others, todo, f) ==
  IF todo = {}
  THEN {RenameQuad(q, f) : q \in quads} = others
  ELSE LET n == CHOOSE x \in todo : TRUE IN
       \E m \in Nodes(others) \ Range(f) :
         /\ Around(quads, n) = Around(others, m)
         /\ Matches(quads, others, todo \ {n}, f @@ (n :> m))

SameGraph(quads, others) ==
  /\ Cardinality(quads) = Cardinality(others)
  /\ Matches(quads, others, Nodes(quads), [x \in {} |-> x])
=============================================================================
