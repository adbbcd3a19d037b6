--------------------------- MODULE MCIsomorphism ---------------------------
(***************************************************************************)
(* Graphs of three edges between three blank nodes and an IRI against each *)
(* other, with repeated edges, with an edge inside a triple term, and with *)
(* other numbers of edges and labels.                                      *)
(***************************************************************************)
EXTENDS Isomorphism, SequencesExt

CONSTANTS b1, b2, b3, iri, edge, quoted

E(x, y) == [shape |-> edge, leaves |-> <<x, y>>]

T(x, y, z) == [shape |-> quoted, leaves |-> <<x, y, z>>]

BlankEdges == {E(x, y) : x, y \in Blank}

SmallGraphs ==
  {SetToSeq(quads) : quads \in {s \in SUBSET BlankEdges : Cardinality(s) = 3}}

OtherGraphs ==
  {<<>>, <<E(iri, iri)>>, <<E(iri, b1)>>, <<E(b1, iri), E(b1, iri)>>, <<E(b1, iri), E(b2, iri)>>,
   <<E(iri, iri), T(iri, iri, iri)>>, <<T(iri, iri, iri), E(iri, iri)>>,
   <<E(b2, b1), E(b3, b1), E(b2, b1)>>,
   <<T(b1, b2, iri), E(b2, b3)>>, <<T(b3, b1, iri), E(b1, b2)>>, <<T(b3, b1, iri), E(b3, b2)>>,
   <<T(b1, iri, b2), E(b2, b3)>>}

MCGraphs == SmallGraphs \cup OtherGraphs
=============================================================================
