--------------------------- MODULE RDFXMLDocument ---------------------------
(***************************************************************************)
(* A document of RDF/XML as its author means it, beside what RDFXMLParser  *)
(* makes of it.  A document is a tree of elements; how it is written       *)
(* depends on whether its lines are indented.                              *)
(***************************************************************************)
EXTENDS RDFXML, RDFGraph, SequencesExt

CONSTANTS Document, DocumentBase
CONSTANT Cuts(_)  \* how many tokens of a document may be missing at its end

(* The document, whether it is written with white space, and how many of   *)
(* its last tokens are missing.                                            *)
VARIABLE source

Element(name, attr, content) == [name |-> name, attr |-> attr, content |-> content]

Text(text) == [text |-> text]

IsText(child) == "text" \in DOMAIN child

Elements(e) == SelectSeq(e.content, LAMBDA child : ~IsText(child))

Parsed(e) == IF Has(e, "parseType") THEN Get(e, "parseType") ELSE ""

RECURSIVE Tokens(_, _)

Tokens(e, indented) ==
  LET space == IF indented /\ Len(Elements(e)) > 0 /\ Parsed(e) # "Literal"
               THEN <<[t |-> "chars", text |-> " "]>> ELSE <<>>
      Child(c) == IF IsText(c) THEN <<[t |-> "chars", text |-> c.text]>> ELSE Tokens(c, indented)
  IN <<[t |-> "start", name |-> e.name, attr |-> e.attr]>>
       \o FlattenSeq([i \in 1 .. Len(e.content) |-> space \o Child(e.content[i])])
       \o space \o <<[t |-> "end", name |-> e.name]>>

-----------------------------------------------------------------------------
(* What a document stands for.  env is what an element inherits; a node    *)
(* without a name is named by its place in the document.                   *)

At(base, ref) ==
  CASE ref = SameDocument -> Named(base, "")
    [] ref.kind = "hash" -> Fragment(base, ref.id)
    [] ref.kind = "relative" -> Named(base, ref.local)
    [] ref.kind = "directory" -> Named(Below[base, ref.dir], "")
    [] OTHER -> ref

Inherited(e, ns, local, outer) ==
  IF <<ns, local>> \in DOMAIN e.attr THEN e.attr[<<ns, local>>] ELSE outer

Within(env, e) ==
  [base |-> IF <<"xml", "base">> \in DOMAIN e.attr THEN At(env.base, e.attr[<<"xml", "base">>]).ns
                                                   ELSE env.base,
   lang |-> Inherited(e, "xml", "lang", env.lang), dir |-> Inherited(e, "its", "dir", env.dir),
   version |-> Inherited(e, "rdf", "version", env.version)]

Attributes(e) == {a \in DOMAIN e.attr : a[1] \notin {"rdf", "its", "xml", "xmlns"}}

(* The name of a node, whatever its element may be. *)
Subject(e, outer, place) ==
  LET env == Within(outer, e) IN
  CASE Has(e, "about") -> At(env.base, Get(e, "about"))
    [] Has(e, "ID") -> Fragment(env.base, Get(e, "ID"))
    [] Has(e, "nodeID") -> Blank(Get(e, "nodeID"))
    [] OTHER -> Blank(place)

AttributeText(e, a, env) ==
  TextLiteral(<<e.attr[a]>>, env.lang, env.dir, env.version = "1.2")

AttributeGraph(s, e, env) ==
  {Triple(s, Predicate(a), AttributeText(e, a, env)) : a \in Attributes(e)}
    \cup (IF Has(e, "type") THEN {Triple(s, RDF("type"), At(env.base, Get(e, "type")))} ELSE {})

Number(elements, i) == Cardinality({j \in 1 .. i : elements[j].name = <<"rdf", "li">>})

PropertyName(elements, i) ==
  IF elements[i].name = <<"rdf", "li">> THEN Member(Number(elements, i))
                                        ELSE Predicate(elements[i].name)

RECURSIVE Pieces(_)

Pieces(content) ==
  FlattenSeq([i \in 1 .. Len(content) |->
    IF IsText(content[i]) THEN <<content[i].text>>
    ELSE <<"<" \o content[i].name[2] \o ">">> \o Pieces(content[i].content)
           \o <<"</" \o content[i].name[2] \o ">">>])

RECURSIVE Object(_, _, _), PropertiesGraph(_, _, _, _), NodeGraph(_, _, _), ObjectGraph(_, _, _)

Object(e, outer, place) ==
  LET env == Within(outer, e)
      inner == Elements(e)
      first == place \o <<1>>
  IN CASE Parsed(e) = "Literal" -> TypedLiteral(Pieces(e.content), RDF("XMLLiteral"))
       [] Parsed(e) = "Collection" -> IF inner = <<>> THEN RDF("nil") ELSE Blank(place \o <<1, 0>>)
       [] Parsed(e) = "Triple" ->
            LET s == Subject(inner[1], env, first) IN
            IF Has(inner[1], "type")
            THEN TripleTerm(s, RDF("type"), At(env.base, Get(inner[1], "type")))
            ELSE LET properties == Elements(inner[1]) IN
                 TripleTerm(s, PropertyName(properties, 1), Object(properties[1], env, first))
       [] Parsed(e) = "Resource" -> Blank(place)
       [] OTHER ->
            CASE Has(e, "resource") -> At(env.base, Get(e, "resource"))
              [] Has(e, "nodeID") -> Blank(Get(e, "nodeID"))
              [] ~Has(e, "resource") /\ ~Has(e, "nodeID") /\ Attributes(e) # {} -> Blank(place)
              [] OTHER ->
                   IF inner # <<>> THEN Subject(inner[1], env, first)
                   ELSE IF Has(e, "datatype") THEN TypedLiteral(Pieces(e.content), Get(e, "datatype"))
                   ELSE TextLiteral(Pieces(e.content), env.lang, env.dir, env.version = "1.2")

ObjectGraph(e, outer, place) ==
  LET env == Within(outer, e)
      inner == Elements(e)
      n == Len(inner)
      Cell(i) == IF i > n THEN RDF("nil") ELSE Blank(place \o <<i, 0>>)
  IN CASE Parsed(e) \in {"Literal", "Triple"} -> {}
       [] Parsed(e) = "Collection" ->
            UNION {{Triple(Cell(i), RDF("first"), Subject(inner[i], env, place \o <<i>>)),
                    Triple(Cell(i), RDF("rest"), Cell(i + 1))}
                     \cup NodeGraph(inner[i], env, place \o <<i>>) : i \in 1 .. n}
       [] Parsed(e) = "Resource" -> PropertiesGraph(Blank(place), inner, env, place)
       [] OTHER ->
            (IF Attributes(e) = {} THEN {} ELSE AttributeGraph(Object(e, outer, place), e, env))
              \cup (IF inner = <<>> THEN {} ELSE NodeGraph(inner[1], env, place \o <<1>>))

(* In a document of RDF 1.1 a triple term is ignored. *)
PropertiesGraph(s, elements, env, place) ==
  UNION {LET e == elements[i]
             inside == Within(env, e)
             here == place \o <<i>>
             p == PropertyName(elements, i)
             o == Object(e, env, here)
         IN IF Parsed(e) = "Triple" /\ inside.version # "1.2" THEN {}
            ELSE {Triple(s, p, o)} \cup ObjectGraph(e, env, here)
                   \cup (IF Has(e, "ID")
                         THEN ReificationQuads(Fragment(inside.base, Get(e, "ID")), s, p, o) ELSE {})
                   \cup (IF Has(e, "annotation")
                         THEN {Reifies(At(inside.base, Get(e, "annotation")), s, p, o)} ELSE {})
                   \cup (IF Has(e, "annotationNodeID")
                         THEN {Reifies(Blank(Get(e, "annotationNodeID")), s, p, o)} ELSE {}) :
         i \in 1 .. Len(elements)}

NodeGraph(e, outer, place) ==
  LET env == Within(outer, e)
      s == Subject(e, outer, place)
  IN (IF IsDescription(e.name) THEN {} ELSE {Triple(s, RDF("type"), Predicate(e.name))})
       \cup AttributeGraph(s, e, env) \cup PropertiesGraph(s, Elements(e), env, place)

Environment(root) ==
  Within([base |-> DocumentBase, lang |-> "", dir |-> "", version |-> ""], root)

Meaning(root) ==
  LET nodes == Elements(root) IN
  UNION {NodeGraph(nodes[i], Environment(root), <<i>>) : i \in 1 .. Len(nodes)}

AsQuads(triples) == {[triple |-> t, g |-> DefaultGraph] : t \in triples}

-----------------------------------------------------------------------------
(* The documents RDF/XML allows: names and attributes that may stand where *)
(* they stand, and each rdf:ID once for its base.                          *)

RECURSIVE AllWithin(_, _)

(* Every element below e with the base around it. *)
AllWithin(e, base) ==
  LET here == Inherited(e, "xml", "base", None)
      inside == IF here = None THEN base ELSE At(base, here).ns
      inner == Elements(e)
  IN <<[e |-> e, base |-> inside]>>
       \o FlattenSeq([i \in 1 .. Len(inner) |-> AllWithin(inner[i], inside)])

DistinctIDs(root) ==
  LET ids == SelectSeq(AllWithin(root, DocumentBase), LAMBDA x : Has(x.e, "ID")) IN
  \A i, j \in DOMAIN ids :
    i # j => <<ids[i].base, Get(ids[i].e, "ID")>> # <<ids[j].base, Get(ids[j].e, "ID")>>

AtMostOne(e, locals) == Cardinality({local \in locals : Has(e, local)}) <= 1

LegalAttributes(e) ==
  /\ \A local \in {"li", "aboutEach", "aboutEachPrefix", "bagID"} : ~Has(e, local)
  /\ \A local \in {"ID", "nodeID", "annotationNodeID"} : Has(e, local) => Get(e, local) \in NCName

(* What is inside rdf:parseType="Triple". *)
OneTriple(e) ==
  /\ Len(e.content) = 1 /\ ~IsText(e.content[1])
  /\ LET node == e.content[1] IN
     Len(Elements(node)) = (IF Has(node, "type") THEN 0 ELSE 1)

RECURSIVE LegalNode(_), LegalProperty(_)

LegalNode(e) ==
  /\ e.name \notin {<<"rdf", local>> : local \in {"RDF", "ID", "about", "resource", "li"}}
  /\ LegalAttributes(e) /\ AtMostOne(e, {"about", "ID", "nodeID"})
  /\ \A i \in DOMAIN Elements(e) : LegalProperty(Elements(e)[i])

LegalProperty(e) ==
  /\ e.name \notin {<<"rdf", local>> : local \in {"RDF", "ID", "about", "resource", "Description"}}
  /\ LegalAttributes(e) /\ AtMostOne(e, {"resource", "nodeID", "parseType"}) /\ ~Has(e, "about")
  /\ Parsed(e) = "Triple" => OneTriple(e)
  /\ \A i \in DOMAIN Elements(e) :
       CASE Parsed(e) = "Literal" -> TRUE
         [] Parsed(e) = "Resource" -> LegalProperty(Elements(e)[i])
         [] OTHER -> LegalNode(Elements(e)[i])

LegalDocument(root) ==
  DistinctIDs(root) /\ \A i \in DOMAIN Elements(root) : LegalNode(Elements(root)[i])

-----------------------------------------------------------------------------
(* The documents the parser handles.  In Parse a language, a direction or  *)
(* a base is forgotten only at the end of an element whose properties all  *)
(* hold a Description; inside other nodes, and inside properties, only     *)
(* what stands on the property itself counts.                              *)

Sets(e, what) == \E a \in what : a \in DOMAIN e.attr

Language == {<<"xml", "lang">>, <<"its", "dir">>}

BaseAttribute == {<<"xml", "base">>}

Settings == Language \cup BaseAttribute

NoNames(e) == \A a \in DOMAIN e.attr : a[1] \notin {"xmlns", ""}

Plain(e) == Attributes(e) = {} /\ ~Has(e, "type")

Unannotated(e) == ~Has(e, "annotation") /\ ~Has(e, "annotationNodeID")

NamedNode(e) == Has(e, "about") => Get(e, "about") # SameDocument

(* A node of which only the name is read. *)
BareNode(e) == Plain(e) /\ NamedNode(e) /\ ~Sets(e, Settings) /\ Elements(e) = <<>>

HoldsNode(e) == Parsed(e) = "" /\ Elements(e) # <<>>

(* A property of a Description inside a property. *)
InNested(e) ==
  /\ NoNames(e) /\ Plain(e) /\ Parsed(e) = "" /\ Elements(e) = <<>> /\ ~Has(e, "datatype")
  /\ ~Sets(e, Settings)
  /\ IF Has(e, "resource") THEN Get(e, "resource") # SameDocument ELSE Unannotated(e)

NestedNode(e, env) ==
  /\ IsDescription(e.name) /\ Plain(e) /\ NamedNode(e) /\ ~Sets(e, Settings)
  /\ \A i \in DOMAIN Elements(e) :
       /\ InNested(Elements(e)[i])
       /\ env.lang # "" => Has(Elements(e)[i], "resource") \/ Has(Elements(e)[i], "nodeID")

(* A literal, resource or blank node. *)
SimpleContent(e, env) ==
  /\ Elements(e) = <<>> /\ ~Has(e, "type")
  /\ Has(e, "resource") => Get(e, "resource") # SameDocument
  /\ Attributes(e) # {} => env.lang = "" /\ ~Has(e, "nodeID")

RECURSIVE Inner(_, _, _)

(* A property inside a container, a typed node, a property that is a       *)
(* resource, or a triple term.                                             *)
Inner(e, in, outer) ==
  LET env == Within(outer, e) IN
  /\ NoNames(e) /\ ~Sets(e, BaseAttribute)
  /\ AtMostOne(e, {"resource", "nodeID"}) /\ e.name # <<"rdf", "ID">>
  /\ in # "Resource" => Unannotated(e)
  /\ in \in {"container", "Triple"} => ~Has(e, "ID")
  /\ in = "Resource" => e.name # <<"rdf", "li">>
  /\ CASE Parsed(e) = "Resource" ->
            /\ in # "Triple" /\ ~Sets(e, Language)
            /\ \A i \in DOMAIN Elements(e) : Inner(Elements(e)[i], "Resource", env)
       [] Parsed(e) = "Literal" -> TRUE
       [] Parsed(e) = "Collection" ->
            /\ in # "Triple" \/ Elements(e) = <<>>
            /\ \A i \in DOMAIN Elements(e) : IsDescription(Elements(e)[i].name) /\ BareNode(Elements(e)[i])
       [] Parsed(e) = "Triple" -> FALSE
       [] OTHER ->
            IF HoldsNode(e)
            THEN in = "container" /\ IsDescription(Elements(e)[1].name) /\ BareNode(Elements(e)[1])
            ELSE /\ SimpleContent(e, env)
                 /\ Attributes(e) # {} => ~Has(e, "resource") /\ in # "Triple"
                 /\ Has(e, "resource") \/ Has(e, "nodeID") \/ Attributes(e) # {}
                       \/ Has(e, "datatype") \/ env.lang = GetAny(e, "lang")
                 /\ env.dir = Dir(e)

(* A triple term takes its property where there is white space for the     *)
(* tokens that are taken for ends.                                         *)
TripleContent(e, env) ==
  LET node == Elements(e)[1]
      properties == Elements(node)
  IN \/ env.version # "1.2" /\ OneTriple(e)
     \/ env.version = "1.2" /\ ~OneTriple(e)
     \/ /\ OneTriple(e) /\ NamedNode(node) /\ ~Sets(node, Settings)
        /\ IF Has(node, "type") THEN properties = <<>>
           ELSE source.indented /\ Len(properties) = 1 /\ properties[1].name # <<"rdf", "li">>
                  /\ Inner(properties[1], "Triple", env)

MainProperty(e, outer) ==
  LET env == Within(outer, e) IN
  /\ NoNames(e)
  /\ CASE Parsed(e) = "Resource" ->
            /\ env.lang = "" /\ env.dir = ""
            /\ \A i \in DOMAIN Elements(e) : Inner(Elements(e)[i], "Resource", env)
       [] Parsed(e) = "Literal" -> TRUE
       [] Parsed(e) = "Collection" ->
            \A i \in DOMAIN Elements(e) : IsDescription(Elements(e)[i].name) /\ BareNode(Elements(e)[i])
       [] Parsed(e) = "Triple" -> TripleContent(e, env)
       [] OTHER -> IF HoldsNode(e) THEN NestedNode(Elements(e)[1], env) ELSE SimpleContent(e, env)

(* What is set on an element may stay for all that follows. *)
Forgotten(e) == ~Sets(e, Settings) \/ HoldsNode(e)

NodeForgotten(e) ==
  LET properties == Elements(e) IN
  \/ ~Sets(e, Settings) /\ \A i \in DOMAIN properties : Forgotten(properties[i])
  \/ IsDescription(e.name) /\ \A i \in DOMAIN properties : HoldsNode(properties[i])

MainNode(e, outer) ==
  LET env == Within(outer, e)
      properties == Elements(e)
      in == IF IsContainer(e.name) THEN "container" ELSE "typed"
  IN /\ NoNames(e)
     /\ IF IsDescription(e.name)
        THEN \A i \in DOMAIN properties :
               /\ MainProperty(properties[i], env)
               /\ i < Len(properties) => Forgotten(properties[i])
        ELSE /\ ~Has(e, "type") /\ Attributes(e) # {} => in = "container" /\ env.lang = ""
             /\ in = "container" => NamedNode(e) /\ <<"its", "dir">> \notin DOMAIN e.attr
             /\ \A i \in DOMAIN properties : Inner(properties[i], in, env)

Handled(root) ==
  LET nodes == Elements(root) IN
  \A i \in DOMAIN nodes :
    /\ MainNode(nodes[i], Environment(root))
    /\ i < Len(nodes) => NodeForgotten(nodes[i])

-----------------------------------------------------------------------------
Written(root, indented, cut) ==
  LET tokens == Tokens(root, indented) IN
  [tokens |-> SubSeq(tokens, 1, Len(tokens) - cut), base |-> DocumentBase]

DocumentInit ==
  \E root \in Document, indented \in BOOLEAN : \E cut \in Cuts(root) :
    /\ source = [root |-> root, indented |-> indented, cut |-> cut]
    /\ xml = NewRDFXMLParser(Written(root, indented, cut))

DocumentNext == Next /\ UNCHANGED source

documentVars == <<xml, source>>

DocumentSpec == DocumentInit /\ [][DocumentNext]_documentVars /\ WF_documentVars(DocumentNext)

-----------------------------------------------------------------------------
(* A document the parser handles is read as the triples it stands for, up  *)
(* to the names of its blank nodes: one node for each rdf:nodeID and each  *)
(* place, members of containers numbered in order, references resolved     *)
(* against the base around them, whether lines are indented or not.        *)
MeansItsTriples ==
  xml.status = "done" /\ Handled(source.root) =>
    SameGraph(AsQuads(xml.quads), AsQuads(Meaning(source.root)))

(* Of the documents it handles, the parser accepts those that are whole    *)
(* and where each rdf:ID is a name and stands once for its base, and       *)
(* refuses the others.                                                     *)
AcceptsTheLegal ==
  xml.status # "reading" /\ Handled(source.root) =>
    (xml.status = "done" <=> source.cut = 0 /\ LegalDocument(source.root))

(* Reading a document comes to an end. *)
ReadingEnds == <>(xml.status # "reading")

TextsOnly(root) ==
  \A i \in DOMAIN Elements(root) :
    LET node == Elements(root)[i] IN
    IsDescription(node.name)
      /\ \A j \in DOMAIN Elements(node) :
           DOMAIN Elements(node)[j].attr \subseteq Language /\ Elements(Elements(node)[j]) = <<>>

(* The language of a literal is that of the closest element around it. *)
LanguageFromAround ==
  xml.status = "done" /\ TextsOnly(source.root) =>
    {t.o : t \in xml.quads} = {t.o : t \in Meaning(source.root)}
=============================================================================
