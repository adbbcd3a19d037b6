------------------------------ MODULE MCRDFXML ------------------------------
(***************************************************************************)
(* Documents of one Description with every pair of properties, of one node *)
(* of each kind with each property, and of two nodes after one another.    *)
(***************************************************************************)
EXTENDS RDFXMLDocument

CONSTANTS ns, sub, doc, x, y, bad

MCBelow == <<doc, "d">> :> ns @@ <<ns, "d">> :> sub @@ <<sub, "d">> :> sub

No == [a \in {} |-> ""]

R(local, value) == <<"rdf", local>> :> value

Lang(value) == <<"xml", "lang">> :> value

Direction == Lang("ar") @@ (<<"its", "dir">> :> "rtl")

BaseAt(ref) == <<"xml", "base">> :> ref

Q(value) == <<ns, "q">> :> value

D(attr, content) == Element(<<"rdf", "Description">>, attr, content)

P(attr, content) == Element(<<ns, "p">>, attr, content)

Li(attr, content) == Element(<<"rdf", "li">>, attr, content)

One == <<Text("one")>>

Node == R("nodeID", x)

Simple ==
  {P(No, <<>>), P(No, One), P(Lang("en"), One), P(R("datatype", RDF("HTML")), One),
   P(R("resource", Relative("o")), <<>>), P(Node, <<>>), P(R("nodeID", y), <<>>),
   P(Q("v"), <<>>), Li(No, One), Li(R("resource", HashOf(x)), <<>>)}

Special ==
  {P(R("ID", x), One), P(R("annotation", HashOf(y)), One), P(R("annotationNodeID", x), One),
   P(R("resource", Relative("o")) @@ Q("v"), <<>>), P(R("resource", SameDocument), <<>>),
   P(R("resource", Named(ns, "o")) @@ R("ID", y) @@ R("annotationNodeID", y), <<>>),
   P(Node @@ R("ID", x), <<>>), P(Q("v") @@ R("ID", bad), <<>>), P(Q("v") @@ Lang("en"), <<>>),
   P(Direction @@ R("version", "1.2"), One), P(Direction, One),
   P(BaseAt(Directory("d")) @@ R("resource", Relative("o")), <<>>),
   P((<<"xmlns", "z">> :> "z"), One), Element(<<"rdf", "_1">>, No, One),
   P(R("nodeID", bad), <<>>), P(R("parseType", "Resource") @@ R("resource", Relative("o")), <<>>),
   P(Node @@ R("resource", Relative("o")), <<>>), Element(<<"rdf", "ID">>, No, One)}

NestedNodes ==
  {P(No, <<D(R("about", Relative("o")), <<P(No, One)>>)>>),
   P(R("ID", y), <<D(R("ID", x), <<Li(R("resource", Relative("o")), <<>>), Li(Node, <<>>)>>)>>),
   P(R("annotation", HashOf(y)), <<D(Node, <<>>)>>),
   P(BaseAt(Directory("d")), <<D(No, <<P(R("resource", Relative("o")) @@ R("ID", x), <<>>)>>)>>),
   P(No, <<D(No, <<P(No, <<D(No, <<>>)>>)>>)>>), P(No, <<Element(<<ns, "C">>, No, <<P(No, One)>>)>>),
   P(No, <<D(No, <<P(R("resource", Relative("o")) @@ R("bagID", x), <<>>)>>)>>)}

PT(type, content) == P(R("parseType", type), content)

Structured ==
  {PT("Resource", <<>>), PT("Resource", <<P(No, One), P(R("ID", x) @@ Node, <<>>)>>),
   PT("Resource", <<P(Q("v") @@ R("annotationNodeID", x), <<>>), PT("Collection", <<>>)>>),
   PT("Resource", <<PT("Resource", <<P(R("resource", Relative("o")), <<>>)>>), P(No, One)>>),
   PT("Resource", <<P(No, <<D(No, <<P(No, One)>>)>>)>>),
   PT("Literal", <<Text("one"), Element(<<ns, "b">>, No, One)>>), PT("Literal", <<>>),
   PT("Collection", <<D(R("about", Relative("s")), <<>>), D(Node, <<>>)>>),
   PT("Collection", <<Element(<<ns, "C">>, No, <<>>)>>), PT("Collection", <<D(No, <<P(No, One)>>)>>),
   P(R("parseType", "Resource") @@ R("ID", y), <<P(No, One)>>),
   P(R("parseType", "Resource") @@ R("li", x), <<P(No, One)>>)}

Triples ==
  {P(R("parseType", "Triple") @@ v, <<D(R("about", Relative("s")) @@ R("type", Relative("c")), <<>>)>>) :
     v \in {No, R("version", "1.2")}}
  \cup {P(R("parseType", "Triple") @@ R("version", "1.2"), <<D(s, <<p>>)>>) :
          s \in {Node, R("ID", x)}, p \in {P(No, One), P(R("resource", Relative("o")), <<>>), PT("Resource", <<P(Node, <<>>)>>)}}
  \cup {P(R("parseType", "Triple") @@ R("version", "1.2") @@ R("ID", y),
          <<D(Node, <<PT("Triple", <<D(No, <<P(Node, <<>>)>>)>>)>>)>>),
        P(R("parseType", "Triple"), <<D(Node, <<P(No, One), P(No, One)>>)>>),
        P(R("parseType", "Triple") @@ R("version", "1.2"), <<D(Node, <<P(No, One), P(No, One)>>)>>),
        P(R("parseType", "Triple") @@ R("version", "1.2"), <<D(Node, <<>>)>>),
        P(R("parseType", "Triple") @@ R("version", "1.2"), <<Text("one")>>),
        P(R("parseType", "Triple") @@ R("version", "1.2"), <<>>)}

Properties == Simple \cup Special \cup NestedNodes \cup Structured \cup Triples

Subjects ==
  {No, R("about", Relative("s")), R("about", SameDocument), R("ID", x), Node}

Root(attr, nodes) == Element(<<"rdf", "RDF">>, attr, nodes)

About == R("about", Relative("s"))

Ordinary == {P(No, One), P(Node, <<>>), P(Q("v"), <<>>), Li(No, One), P(R("ID", x), One)}

Pairs ==
  {Root(No, <<D(About, <<p, q>>)>>) : p \in Properties, q \in Ordinary \cup NestedNodes}
    \cup {Root(No, <<D(About, <<p, q>>)>>) : p \in Ordinary, q \in Properties}

Settled == {No, Lang("en"), BaseAt(Directory("d")), R("version", "1.2") @@ Direction}

NodesOf(p, subjects) ==
  {Element(name, s, <<p, Li(No, One)>>) :
     name \in {<<ns, "C">>, <<"rdf", "Bag">>, <<"rdf", "Description">>}, s \in subjects}

Singles ==
  UNION {{Root(No, <<n>>) : n \in NodesOf(p, Subjects)} : p \in Properties}
    \cup UNION {{Root(a, <<n>>) : n \in NodesOf(p, {No})} : a \in Settled, p \in Properties}

Between ==
  {D(About @@ a, c) : a \in {Lang("en"), BaseAt(Directory("d")), Q("v"), R("type", Relative("c"))},
                      c \in {<<>>, <<P(No, One)>>, <<P(No, <<D(R("ID", x), <<>>)>>)>>}}
  \cup {Element(<<"rdf", "Seq">>, Q("v") @@ Node, <<Li(No, One)>>), Element(<<ns, "C">>, R("ID", x), <<>>),
        Element(<<ns, "C">>, BaseAt(Named(sub, "")) @@ R("about", SameDocument), <<P(R("resource", Relative("o")), <<>>)>>),
        D(Node @@ R("ID", x), <<>>), D(R("ID", x), <<Li(No, One), Li(No, One)>>), D(No, <<P(Node, <<>>), P(Q("v"), <<>>)>>),
        Root(No, <<>>), Element(<<"rdf", "li">>, No, <<>>)}

Orders == {Root(No, <<m, n>>) : m, n \in Between}

(* One node with each property is also cut after each of its tokens. *)
CutShort == {Root(No, <<D(About, <<p>>)>>) : p \in Properties}

MCDocument == Pairs \cup Singles \cup Orders \cup CutShort

(* Texts under a Description, some of which say their language. *)
Languages ==
  {Root(No, <<D(About, <<P(a, One), P(b, <<Text("two")>>)>>)>>) : a, b \in {No, Lang("en")}}

MCCuts(root) == IF root \in CutShort THEN 0 .. Len(Tokens(root, FALSE)) - 1 ELSE {0}

MCInput == UNION {{Written(root, i, cut) : cut \in MCCuts(root)} :
                    root \in MCDocument, i \in BOOLEAN}
=============================================================================
