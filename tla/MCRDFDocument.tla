--------------------------- MODULE MCRDFDocument ---------------------------
(***************************************************************************)
(* Documents with every kind of term as a subject and as an object, with   *)
(* annotations and reifiers behind it, next to one another in statements   *)
(* and in graph blocks, with directives in between; and scraps: short      *)
(* texts of any tokens, and texts of documents with a token left out.      *)
(***************************************************************************)
EXTENDS RDFDocument

CONSTANTS ns1, ns2, x, y, noBase, dg, runaway

I(local) == Named(ns1, local)

B == Blank(x)

Lit == Literal("one")

One(p, o) == <<Has(p, o, <<>>)>>

Q(s, o) == Quote(s, I("p"), o, None)

TripleIn(o) == QuotedTerm(I("s"), I("p"), o)

Property == Anonymous(One(I("p"), I("o")))

Simple == {I("o"), B, Lit}

Nested ==
  {Anonymous(<<>>), Property,
   Anonymous(<<Has(A, Anonymous(<<>>), <<>>), Has(I("q"), Lit, <<>>)>>),
   Anonymous(<<Has(I("p"), Property, <<>>), Has(I("p"), B, <<>>)>>),
   Collection(<<>>), Collection(<<I("o"), Lit>>), Collection(<<Property, Collection(<<B>>)>>)}

Quotes ==
  {Q(I("s"), Lit), Q(B, Anonymous(<<>>)), Quote(I("s"), I("p"), I("o"), B),
   Quote(I("s"), I("p"), I("o"), Empty)}

BadQuotes ==
  {Q(Q(I("s"), Lit), I("o")), Collection(<<Q(I("s"), Lit)>>),
   Anonymous(<<Has(I("p"), I("o"), <<>>), Has(I("q"), Q(I("s"), Lit), <<>>)>>),
   Anonymous(<<Has(I("p"), I("o"), <<Reifier(Empty, <<>>)>>)>>)}

Objects ==
  Simple \cup Nested \cup Quotes \cup BadQuotes
    \cup {Decimal("1", "5"), QuotedTerm(I("s"), I("p"), B)}

Subjects == {I("s"), B} \cup Nested \cup Quotes

Tails ==
  {<<>>,
   <<Annotation(One(I("q"), Q(I("s"), Lit)))>>,
   <<Annotation(<<Has(I("q"), Property, <<>>), Has(A, Lit, <<>>)>>), Annotation(One(I("q"), B))>>,
   <<Annotation(<<Has(I("q"), Lit, <<Annotation(One(I("q"), I("o")))>>)>>)>>,
   <<Reifier(Empty, <<>>)>>,
   <<Reifier(Blank(y), One(I("q"), Property)), Reifier(I("r"), <<>>)>>,
   <<Annotation(One(I("q"), Lit)), Reifier(Empty, One(I("q"), Collection(<<Lit>>)))>>,
   <<Reifier(I("r"), One(I("q"), Q(I("s"), Lit)))>>}

Statements ==
  {Statement(s, <<Has(I("p"), o, t)>>, FALSE) : s \in {I("s"), Property, Q(I("s"), Lit)}, o \in Objects, t \in Tails}
    \cup {Statement(s, <<Has(I("p"), o, <<>>), Has(p, r, <<>>)>>, TRUE) :
            s \in Subjects, o \in {Property, Q(B, Lit), Decimal("1", "5")}, p \in {I("p"), A}, r \in {Lit, Collection(<<Property>>)}}
    \cup {Statement(s, <<>>, FALSE) : s \in {Property} \cup Quotes}

Plain == Statement(B, One(I("p"), Anonymous(<<>>)), FALSE)

NameStatement(o) == Statement(Name("e", "s"), One(A, o), FALSE)

Between ==
  {Plain, NameStatement(Name("e", "o")), Statement(Property, <<>>, FALSE),
   Statement(I("s"), One(I("p"), Collection(<<Lit>>)), FALSE),
   Statement(I("s"), One(I("p"), Decimal("1", "5")), FALSE),
   Prefix("e", ns1), Prefix("e", ns2), Version,
   Block(FALSE, None, <<Plain>>, FALSE), Block(TRUE, Anonymous(<<>>), <<Plain, Plain>>, TRUE),
   Block(FALSE, Anonymous(<<>>), <<NameStatement(B)>>, TRUE),
   Block(FALSE, Name("e", "g"), <<Statement(B, One(I("p"), Decimal("1", "5")), FALSE)>>, FALSE),
   Block(TRUE, I("g"), <<Plain, NameStatement(B)>>, FALSE), Block(FALSE, B, <<>>, FALSE)}

Orders ==
  {<<Prefix("e", ns1), a, b, c>> : a, b, c \in Between}

Bases ==
  {<<Base(ns1, t), Statement(Relative("s"), One(A, Relative("o")), FALSE), Base(ns2, u),
     Block(k, Relative("g"), <<Statement(I("s"), One(I("p"), Relative("o")), FALSE)>>, FALSE),
     Statement(Relative("s"), One(I("p"), B), FALSE)>> : t, u, k \in BOOLEAN}
  \cup {<<Base(ns1, t), Statement(Relative("s"), One(A, Relative("o")), FALSE)>> : t \in BOOLEAN}

MCBare == {"s", "o", "g"}

Baseless ==
  {<<Statement(Relative("s"), One(A, Relative("o")), FALSE)>>,
   <<Block(FALSE, Relative("g"), <<Statement(Relative("s"), One(I("p"), B), FALSE)>>, FALSE), Base(ns1, TRUE),
     Statement(Relative("s"), One(I("p"), Relative("o")), FALSE)>>}

Triples ==
  {Statement(s, One(I("p"), o), FALSE) : s \in {I("s"), B}, o \in Simple \cup {TripleIn(TripleIn(B))}}

LinesOfQuads ==
  {<<t, Quad(s, I("p"), o, g), u>> :
     t, u \in Triples, s \in {I("s"), B}, o \in {Lit, TripleIn(Lit)}, g \in {I("g"), B}}

MCDocument ==
  {<<s>> : s \in Statements} \cup Orders \cup Bases \cup Baseless \cup LinesOfQuads

Tokens ==
  {[t |-> type] : type \in
     {".", ",", ";", "[", "]", "(", ")", "<<", "<<(", ">>", ")>>", "{|", "|}", "{", "}", "~",
      "a", "graph", "base", "version", "prefix"}}
  \cup {[t |-> "iri", ns |-> ns1, local |-> "i"], [t |-> "label", label |-> x],
        [t |-> "number", value |-> "1"]}

Cut(text) == {SubSeq(text, 1, i - 1) \o SubSeq(text, i + 1, Len(text)) : i \in 1 .. Len(text)}

CutDocuments ==
  {<<Statement(s, <<Has(I("p"), o, t), Has(I("p"), Lit, <<>>)>>, FALSE)>> :
     s \in {I("s"), Property}, o \in {Collection(<<B>>), Quote(I("s"), I("p"), I("o"), B)}, t \in Tails}
  \cup {<<Block(TRUE, I("g"), <<Statement(I("s"), <<Has(I("p"), Property, t)>>, FALSE)>>, FALSE)>> : t \in Tails}

LinesCut ==
  {<<Quad(I("s"), I("p"), o, g), Quad(B, I("p"), B, g)>> : o \in {Lit, TripleIn(Lit)}, g \in {B, I("g")}}

EmptyAnnotation ==
  Words(I("s")) \o Words(I("p")) \o Words(B) \o Mark("~") \o Mark("{|") \o Mark("|}") \o Mark(".")

PrefixNameToken == <<[t |-> "prefixname", prefix |-> "e"]>>

(* A bracket in the name of a prefix or in an IRI of TriG, an IRI where    *)
(* none can be, and a relative IRI that needs a base.                      *)
Swallows ==
  LET directive == PrefixNameToken \o IRIToken(ns1, "") \o Mark(".")
      opened == Mark("<<") \o IRIToken(ns1, "")
  IN {Mark("prefix") \o Mark("[") \o directive,
      Mark("prefix") \o Mark("a") \o directive \o StatementWords(NameStatement(B)) \o Mark("."),
      Mark("prefix") \o IRIToken(ns1, "") \o directive,
      Mark("prefix") \o PrefixNameToken \o opened \o Mark("."),
      Mark("@base") \o opened \o Mark("."),
      Mark("base") \o opened \o Mark("prefix") \o Mark("<<") \o Mark("<<") \o directive,
      Mark("graph") \o opened \o Mark("{") \o Mark("}"),
      opened \o Mark("{") \o Mark("}"),
      Mark("graph") \o Mark("<<") \o Mark(">>") \o Mark("{") \o Mark("}"),
      Words(Relative("long")) \o Mark("a") \o Words(B) \o Mark("."),
      Words(Relative("long")) \o Mark("{") \o Mark("}")}

MCScrap ==
  UNION {[1 .. n -> Tokens] : n \in 1 .. 2} \cup UNION {Cut(TextOf(d)) : d \in CutDocuments \cup LinesCut}
    \cup {EmptyAnnotation} \cup Swallows

MCText == {TextOf(d) : d \in MCDocument} \cup MCScrap
=============================================================================
