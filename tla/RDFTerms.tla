------------------------------ MODULE RDFTerms ------------------------------
(***************************************************************************)
(* Terms of pkg/rdf/term.go as the parsers build them, and triples.  A     *)
(* namespace stands for the text of an IRI up to its local name.           *)
(***************************************************************************)

CONSTANT DefaultGraph

None == [kind |-> "none"]

Named(ns, local) == [kind |-> "iri", ns |-> ns, local |-> local]

RDF(local) == Named("rdf", local)

Blank(label) == [kind |-> "blank", label |-> label]

Literal(value) == [kind |-> "literal", value |-> value]

Decimal(whole, fraction) == [kind |-> "decimal", whole |-> whole, fraction |-> fraction]

TripleTerm(s, p, o) == [kind |-> "triple", s |-> s, p |-> p, o |-> o]

QuotedTriple(s, p, o) == [kind |-> "quoted", s |-> s, p |-> p, o |-> o]

ReifiedTriple(id) == [kind |-> "reified", id |-> id]

IsLiteral(term) == term.kind \in {"literal", "decimal"}

Triple(s, p, o) == [s |-> s, p |-> p, o |-> o]

Reifies(id, s, p, o) == Triple(id, RDF("reifies"), TripleTerm(s, p, o))
=============================================================================
