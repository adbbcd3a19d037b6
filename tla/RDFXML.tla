------------------------------- MODULE RDFXML -------------------------------
(***************************************************************************)
(* RDFXMLParser of pkg/rdf/rdfxml.go over the tokens of encoding/xml.      *)
(* Parse is a loop over the tokens of the whole document; inside it, other *)
(* loops take the tokens of a node or a property until they return.  The   *)
(* loops under way are a stack, and a step is one token for the innermost. *)
(*                                                                         *)
(* A token is the start or end of an element or a piece of text.  Names of *)
(* elements and attributes are pairs of a namespace and a local name.  An  *)
(* attribute holds a string or, where an IRI is expected, a reference.     *)
(***************************************************************************)
EXTENDS RDFTerms, Naturals, Sequences, TLC

(* Texts to parse, each with its document base; Below[ns, d] is where the  *)
(* relative base d leads from ns; NCName are the identifiers XML allows.   *)
CONSTANTS Input, NoBase, SameDocument, Below, NCName

VARIABLE xml

NewRDFXMLParser(in) ==
  [input |-> in.tokens, pos |-> 1, documentBase |-> in.base, baseURIStack |-> <<>>,
   usedIDs |-> {}, nodeIDMap |-> [x \in {} |-> None], rdfVersion |-> "",
   blankNodeCounter |-> 0, liCounter |-> 0, seenRootRDF |-> FALSE, currentSubject |-> None,
   elementStack |-> <<>>, calls |-> <<>>, term |-> None, quads |-> {}, status |-> "reading"]

Init == \E in \in Input : xml = NewRDFXMLParser(in)

Failed(q) == [q EXCEPT !.status = "failed"]

-----------------------------------------------------------------------------
(* References. *)

Relative(local) == [kind |-> "relative", local |-> local]

Directory(dir) == [kind |-> "directory", dir |-> dir]

HashOf(id) == [kind |-> "hash", id |-> id]

Fragment(ns, id) == [kind |-> "fragment", ns |-> ns, id |-> id]

CurrentBase(q) == IF q.baseURIStack = <<>> THEN q.documentBase ELSE Head(q.baseURIStack)

ResolveURI(q, ref) ==
  LET base == CurrentBase(q) IN
  CASE ref = SameDocument -> Named(base, "")
    [] ref.kind = "hash" -> Fragment(base, ref.id)
    [] ref.kind = "directory" -> Named(Below[base, ref.dir], "")
    [] ref.kind = "relative" /\ base # NoBase -> Named(base, ref.local)
    [] OTHER -> ref

-----------------------------------------------------------------------------
(* Attributes. *)

Has(elem, local) == <<"rdf", local>> \in DOMAIN elem.attr

Get(elem, local) == elem.attr[<<"rdf", local>>]

(* getAttr returns the empty string for an empty attribute too. *)
Given(elem, local) == Has(elem, local) /\ Get(elem, local) # SameDocument

InAnyNamespace(elem, local) == {a \in DOMAIN elem.attr : a[2] = local}

(* getAttrAny *)
GetAny(elem, local) ==
  IF InAnyNamespace(elem, local) = {} THEN ""
  ELSE elem.attr[CHOOSE a \in InAnyNamespace(elem, local) : TRUE]

Dir(elem) == IF <<"its", "dir">> \in DOMAIN elem.attr THEN elem.attr[<<"its", "dir">>] ELSE ""

ValidAttributes(elem) ==
  /\ ~(Given(elem, "about") /\ (Given(elem, "ID") \/ Given(elem, "nodeID")))
  /\ ~(Given(elem, "parseType") /\ Given(elem, "resource"))
  /\ \A local \in {"li", "aboutEach", "aboutEachPrefix", "bagID"} : ~Given(elem, local)

Forbidden ==
  {"RDF", "ID", "about", "bagID", "parseType", "resource", "nodeID", "datatype", "aboutEach",
   "aboutEachPrefix"}

ValidNodeElement(elem) == ~(elem.name[1] = "rdf" /\ elem.name[2] \in Forbidden \cup {"li"})

ValidPropertyElement(elem) ==
  ~(elem.name[1] = "rdf" /\ elem.name[2] \in Forbidden \cup {"Description"})

IsDescription(name) == name = <<"rdf", "Description">>

IsContainer(name) == name[1] = "rdf" /\ name[2] \in {"Bag", "Seq", "Alt"}

(* A namespace declaration, xmlns:..., passes for a property attribute. *)
PropertyAttributes(elem) == {a \in DOMAIN elem.attr : a[1] \notin {"rdf", "its", "xml", ""}}

Predicate(name) == Named(name[1], name[2])

Member(n) == RDF("_" \o ToString(n))

-----------------------------------------------------------------------------
(* Terms the parser makes: each operator gives the parser after it, with   *)
(* the term in its field term.                                             *)

Giving(q, term) == [q EXCEPT !.term = term]

NewBlankNode(q) ==
  [q EXCEPT !.blankNodeCounter = @ + 1, !.term = Blank(q.blankNodeCounter + 1)]

(* Mutant of ResolveID: a name may be used once, whatever the base. *)
ResolveIDOnce(q, id) ==
  LET iri == Fragment(CurrentBase(q), id) IN
  IF id \notin NCName \/ \E used \in q.usedIDs : used.id = id
  THEN Failed(q)
  ELSE [q EXCEPT !.usedIDs = @ \cup {iri}, !.term = iri]

ResolveID(q, id) ==
  LET iri == Fragment(CurrentBase(q), id) IN
  IF id \notin NCName \/ iri \in q.usedIDs
  THEN Failed(q)
  ELSE [q EXCEPT !.usedIDs = @ \cup {iri}, !.term = iri]

(* Mutant of GetOrCreateNodeID: the new node is not counted. *)
GetOrCreateNodeIDUncounted(q, id) ==
  CASE id \notin NCName -> Failed(q)
    [] id \in NCName /\ id \in DOMAIN q.nodeIDMap -> Giving(q, q.nodeIDMap[id])
    [] OTHER ->
         [Giving(q, Blank(q.blankNodeCounter + 1)) EXCEPT
           !.nodeIDMap = [x \in DOMAIN @ \cup {id} |->
             IF x = id THEN Blank(q.blankNodeCounter + 1) ELSE @[x]]]

GetOrCreateNodeID(q, id) ==
  CASE id \notin NCName -> Failed(q)
    [] id \in NCName /\ id \in DOMAIN q.nodeIDMap -> Giving(q, q.nodeIDMap[id])
    [] OTHER ->
         [NewBlankNode(q) EXCEPT
           !.nodeIDMap = [x \in DOMAIN @ \cup {id} |->
             IF x = id THEN Blank(q.blankNodeCounter + 1) ELSE @[x]]]

(* The node an element describes; inside a property, a collection or a     *)
(* triple term an empty rdf:about counts for none.                         *)
NodeOf(q, elem, hasAbout) ==
  CASE hasAbout -> Giving(q, ResolveURI(q, Get(elem, "about")))
    [] ~hasAbout /\ Given(elem, "ID") -> ResolveID(q, Get(elem, "ID"))
    [] ~hasAbout /\ ~Given(elem, "ID") /\ Given(elem, "nodeID") ->
         GetOrCreateNodeID(q, Get(elem, "nodeID"))
    [] OTHER -> NewBlankNode(q)

NodeElement(q, elem) == NodeOf(q, elem, Has(elem, "about"))

NestedElement(q, elem) == NodeOf(q, elem, Given(elem, "about"))

TextLiteral(text, lang, dir, directed) ==
  CASE lang = "" -> Literal(text)
    [] lang # "" /\ directed /\ dir # "" ->
         [kind |-> "literal", value |-> text, language |-> lang, direction |-> dir]
    [] OTHER -> [kind |-> "literal", value |-> text, language |-> lang]

TypedLiteral(text, datatype) == [kind |-> "literal", value |-> text, datatype |-> datatype]

IsVersion12(q, elem) ==
  q.rdfVersion = "1.2" \/ (Has(elem, "version") /\ Get(elem, "version") = "1.2")

(* The literal at the end of a property; lang and dir are inherited. *)
ContentLiteral(q, elem, text, lang, dir) ==
  IF Has(elem, "datatype")
  THEN TypedLiteral(text, Get(elem, "datatype"))
  ELSE TextLiteral(text,
                   IF GetAny(elem, "lang") = "" THEN lang ELSE GetAny(elem, "lang"),
                   IF Dir(elem) = "" THEN dir ELSE Dir(elem), IsVersion12(q, elem))

-----------------------------------------------------------------------------
(* The calls under way.  A call knows the element it was made for, and the *)
(* subject and predicate that wait for the object it returns.              *)

Call(in, elem, s, p) ==
  [in |-> in, elem |-> elem, s |-> s, p |-> p, node |-> None, o |-> None, text |-> <<>>, n |-> 0]

Top(q) == Head(q.calls)

Calling(q, call) == [q EXCEPT !.calls = <<call>> \o @]

Returning(q) == [q EXCEPT !.calls = Tail(@)]

OnTop(q, call) == [q EXCEPT !.calls = <<call>> \o Tail(@)]

Caller(q) == IF Len(q.calls) = 1 THEN "Parse" ELSE q.calls[2].in

(* A triple term drops the quads its object brings along. *)
Adding(q, triples) ==
  IF \E i \in DOMAIN q.calls : q.calls[i].in = "Triple" THEN q
  ELSE [q EXCEPT !.quads = @ \cup triples]

ReificationQuads(id, s, p, o) ==
  {Triple(id, RDF("type"), RDF("Statement")), Triple(id, RDF("subject"), s),
   Triple(id, RDF("predicate"), p), Triple(id, RDF("object"), o)}

Reified(q, elem, s, p, o) ==
  IF ~Has(elem, "ID") THEN q
  ELSE LET id == ResolveID(q, Get(elem, "ID")) IN
       Adding(id, ReificationQuads(id.term, s, p, o))

Annotated(q, elem, s, p, o) ==
  IF ~Given(elem, "annotation") THEN q
  ELSE Adding(q, {Reifies(ResolveURI(q, Get(elem, "annotation")), s, p, o)})

AnnotatedByNode(q, elem, s, p, o) ==
  IF ~Has(elem, "annotationNodeID") THEN q
  ELSE LET node == GetOrCreateNodeID(q, Get(elem, "annotationNodeID")) IN
       Adding(node, {Reifies(node.term, s, p, o)})

(* A statement, with what the calling function makes of rdf:ID and the     *)
(* annotations of its property element.                                    *)
Stating(q, elem, s, p, o) == Reified(Adding(q, {Triple(s, p, o)}), elem, s, p, o)

StatingInFull(q, elem, s, p, o) ==
  AnnotatedByNode(Annotated(Stating(q, elem, s, p, o), elem, s, p, o), elem, s, p, o)

ReturningObject(q, object) ==
  LET call == Top(q)
      to == Returning(q)
  IN CASE Caller(q) = "Triple" ->
            OnTop(to, [Top(to) EXCEPT !.o = TripleTerm(Top(to).node, call.p, object)])
       [] Caller(q) = "container" -> Adding(to, {Triple(call.s, call.p, object)})
       [] Caller(q) = "typed" -> Stating(to, call.elem, call.s, call.p, object)
       [] OTHER -> StatingInFull(to, call.elem, call.s, call.p, object)

(* parsePropertyContent up to its first token. *)
PropertyContent(q, elem, s, p) ==
  LET parseType == IF Has(elem, "parseType") THEN Get(elem, "parseType") ELSE ""
      node == NewBlankNode(q)
      WithNode(in) == Calling(node, [Call(in, elem, s, p) EXCEPT !.node = node.term])
  IN CASE ~ValidAttributes(elem) -> Failed(q)
       [] ValidAttributes(elem) /\ parseType = "Resource" -> WithNode("Resource")
       [] ValidAttributes(elem) /\ parseType \in {"Literal", "Triple", "Collection"} ->
            Calling(q, Call(parseType, elem, s, p))
       [] OTHER ->
            IF Given(elem, "resource") \/ Has(elem, "nodeID") \/ PropertyAttributes(elem) = {}
            THEN Calling(q, Call(IF Given(elem, "resource") \/ Has(elem, "nodeID")
                                 THEN "token" ELSE "content", elem, s, p))
            ELSE Adding(WithNode("token"),
                        {Triple(node.term, Predicate(a), Literal(<<elem.attr[a]>>)) :
                         a \in PropertyAttributes(elem)})

-----------------------------------------------------------------------------
(* The loop of Parse. *)

Reading == xml.status = "reading"

Token == xml.input[xml.pos]

HasToken(t) == Reading /\ xml.pos <= Len(xml.input) /\ Token.t = t

Advanced == [xml EXCEPT !.pos = @ + 1]

InParse(t) == HasToken(t) /\ xml.calls = <<>>

InCall(in, t) == HasToken(t) /\ xml.calls # <<>> /\ Top(xml).in = in

(* The start of an element in Parse: xml:base, xml:lang and its:dir. *)
Opened ==
  LET outer == IF xml.elementStack = <<>> THEN [hasBase |-> FALSE, lang |-> "", dir |-> ""]
                                          ELSE Head(xml.elementStack)
      lang == GetAny(Token, "lang")
      hasBase == InAnyNamespace(Token, "base") # {}
      base == ResolveURI(xml, GetAny(Token, "base")).ns
  IN [Advanced EXCEPT
        !.baseURIStack = IF hasBase THEN <<base>> \o @ ELSE @,
        !.elementStack =
          <<[hasBase |-> hasBase, lang |-> IF lang = "" THEN outer.lang ELSE lang,
             dir |-> IF Dir(Token) = "" THEN outer.dir ELSE Dir(Token)]>> \o @]

IsRDF == Token.name = <<"rdf", "RDF">>

OpenRoot ==
  /\ InParse("start") /\ IsRDF
  /\ xml' = IF xml.seenRootRDF
            THEN Failed(xml)
            ELSE [Opened EXCEPT
                   !.seenRootRDF = TRUE,
                   !.rdfVersion = IF Has(Token, "version") THEN Get(Token, "version") ELSE ""]

Outside == InParse("start") /\ ~IsRDF /\ xml.currentSubject = None

ContainerAhead == IsContainer(Token.name) /\ ~Given(Token, "resource")

(* The attributes of a container that are not taken for something else. *)
ContainerAttributes(elem) ==
  {a \in DOMAIN elem.attr :
     /\ a[1] \notin {"xml", ""}
     /\ a[1] = "rdf" => a[2] \notin {"about", "ID", "nodeID", "resource", "parseType", "type",
                                     "datatype", "bagID"}}

OpenContainer ==
  /\ Outside /\ ContainerAhead
  /\ LET node == NestedElement(Opened, Token)
         quads == {Triple(node.term, RDF("type"), Predicate(Token.name))}
                    \cup {Triple(node.term, Predicate(a), Literal(<<Token.attr[a]>>)) :
                          a \in ContainerAttributes(Token)}
     IN xml' = IF ~ValidAttributes(Token)
               THEN Failed(xml)
               ELSE Calling([Adding(node, quads) EXCEPT !.liCounter = 0],
                            Call("container", Token, node.term, None))

DescriptionAttributes(elem) ==
  {a \in DOMAIN elem.attr :
     /\ a[1] \notin {"its", ""} /\ a[2] \notin {"base", "lang"}
     /\ a[1] = "rdf" => a[2] \notin {"about", "ID", "nodeID", "resource", "datatype", "parseType"}}

DescriptionQuads(q, elem) ==
  LET here == Head(q.elementStack)
      Object(a) == IF a = <<"rdf", "type">>
                   THEN ResolveURI(q, elem.attr[a])
                   ELSE TextLiteral(<<elem.attr[a]>>, here.lang, here.dir, q.rdfVersion = "1.2")
  IN {Triple(q.term, Predicate(a), Object(a)) : a \in DescriptionAttributes(elem)}

(* Mutant of OpenDescription: rdf:li goes on counting in the next node. *)
OpenDescriptionCounting ==
  /\ Outside /\ IsDescription(Token.name)
  /\ LET node == NodeElement(Opened, Token) IN
     xml' = IF ~ValidAttributes(Token) \/ (Has(Token, "ID") /\ Has(Token, "nodeID"))
            THEN Failed(xml)
            ELSE [Adding(node, DescriptionQuads(node, Token)) EXCEPT !.currentSubject = node.term]

OpenDescription ==
  /\ Outside /\ IsDescription(Token.name)
  /\ LET node == NodeElement(Opened, Token) IN
     xml' = IF ~ValidAttributes(Token) \/ (Has(Token, "ID") /\ Has(Token, "nodeID"))
            THEN Failed(xml)
            ELSE [Adding(node, DescriptionQuads(node, Token)) EXCEPT
                   !.currentSubject = node.term, !.liCounter = 0]

(* Inside a Description, an element with rdf:about is a node as well. *)
TypedNodeAhead ==
  \/ Outside /\ ~ContainerAhead /\ ~IsDescription(Token.name)
  \/ InParse("start") /\ ~IsRDF /\ xml.currentSubject # None /\ Has(Token, "about")

OpenTypedNode ==
  /\ TypedNodeAhead
  /\ LET node == NodeElement(Opened, Token)
         typed == Adding(node, {Triple(node.term, RDF("type"), Predicate(Token.name))})
     IN xml' = IF ~ValidNodeElement(Token) \/ ~ValidAttributes(Token)
               THEN Failed(xml)
               ELSE Calling([typed EXCEPT !.liCounter = 0], Call("typed", Token, node.term, None))

(* The properties of a Description. *)
PropertyAhead ==
  /\ InParse("start") /\ ~IsRDF /\ xml.currentSubject # None /\ ~Has(Token, "about")

IsLi == Token.name = <<"rdf", "li">>

Counted(q) == IF IsLi THEN [q EXCEPT !.liCounter = @ + 1] ELSE q

CountedPredicate(q) == IF IsLi THEN Member(q.liCounter + 1) ELSE Predicate(Token.name)

Legal ==
  /\ ValidPropertyElement(Token) /\ ValidAttributes(Token)
  /\ ~Has(Token, "parseType") => ~(Given(Token, "resource") /\ Has(Token, "nodeID"))

RefuseProperty == PropertyAhead /\ ~Legal /\ xml' = Failed(xml)

LegalPropertyAhead == PropertyAhead /\ Legal

IgnoredTriple ==
  Has(Token, "parseType") /\ Get(Token, "parseType") = "Triple" /\ ~IsVersion12(xml, Token)

SkipTripleProperty ==
  /\ LegalPropertyAhead /\ IgnoredTriple
  /\ xml' = Calling(Counted(Opened), [Call("skip", Token, None, None) EXCEPT !.n = 1])

ParseTypeProperty ==
  /\ LegalPropertyAhead /\ Has(Token, "parseType") /\ ~IgnoredTriple
  /\ xml' = PropertyContent(Counted(Opened), Token, xml.currentSubject, CountedPredicate(xml))

(* The object is known from the attributes: what is left of the element is *)
(* skipped up to the first end of any element.                             *)
KnownObject(q) ==
  Calling(StatingInFull(q, Token, xml.currentSubject, CountedPredicate(xml), q.term),
          Call("consume", Token, None, None))

AttributeQuads(q) ==
  {Triple(q.term, Predicate(a), Literal(<<Token.attr[a]>>)) : a \in PropertyAttributes(Token)}

ResourceProperty ==
  /\ LegalPropertyAhead /\ ~Has(Token, "parseType") /\ Given(Token, "resource")
  /\ LET object == Giving(Counted(Opened), ResolveURI(Opened, Get(Token, "resource"))) IN
     xml' = KnownObject(Adding(object, AttributeQuads(object)))

NodeIDProperty ==
  /\ LegalPropertyAhead /\ ~Has(Token, "parseType") /\ Has(Token, "nodeID")
  /\ xml' = KnownObject(GetOrCreateNodeID(Counted(Opened), Get(Token, "nodeID")))

OrdinaryPropertyAhead ==
  LegalPropertyAhead /\ \A a \in {"parseType", "nodeID"} : ~Has(Token, a)
    /\ ~Given(Token, "resource")

AttributeProperty ==
  /\ OrdinaryPropertyAhead /\ PropertyAttributes(Token) # {}
  /\ LET object == NewBlankNode(Counted(Opened)) IN
     xml' = KnownObject(Adding(object, AttributeQuads(object)))

TextProperty ==
  /\ OrdinaryPropertyAhead /\ PropertyAttributes(Token) = {}
  /\ xml' = Calling(Counted(Opened), Call("text", Token, xml.currentSubject, CountedPredicate(xml)))

(* The end of an element in Parse closes the element on top of the stack,  *)
(* which need not be the one that ends.                                    *)
CloseElement ==
  /\ InParse("end")
  /\ LET closes == xml.elementStack # <<>>
         based == closes /\ Head(xml.elementStack).hasBase
     IN xml' = [Advanced EXCEPT
                 !.elementStack = IF closes THEN Tail(@) ELSE @,
                 !.baseURIStack = IF based /\ @ # <<>> THEN Tail(@) ELSE @,
                 !.currentSubject = IF IsDescription(Token.name) THEN None ELSE @]

(* The decoder reports an error where elements are left open. *)
Complete(tokens) ==
  LET Count(t) == Len(SelectSeq(tokens, LAMBDA x : x.t = t)) IN Count("start") = Count("end")

Finish ==
  /\ Reading /\ xml.pos > Len(xml.input)
  /\ xml' = IF xml.calls = <<>> /\ Complete(xml.input)
            THEN [xml EXCEPT !.status = "done"]
            ELSE Failed(xml)

-----------------------------------------------------------------------------
(* The loops within.  Text is kept, or read over. *)

Here == Top(xml)

Writing == {"text", "content", "nestedText", "Literal"}

TakeText ==
  /\ \E in \in Writing : InCall(in, "chars")
  /\ xml' = OnTop(Advanced, [Here EXCEPT !.text = Append(@, Token.text)])

(* Mutant of PassText: white space is not taken. *)
PassTextInPlace ==
  /\ \/ InParse("chars")
     \/ \E in \in {"nested", "container", "typed", "Resource", "Collection", "consume", "skip"} :
          InCall(in, "chars")
  /\ xml' = xml

PassText ==
  /\ \/ InParse("chars")
     \/ \E in \in {"nested", "container", "typed", "Resource", "Collection", "consume", "skip"} :
          InCall(in, "chars")
  /\ xml' = Advanced

(* The loop for the text of a property returns at the end of any element,  *)
(* and passes over the start of every element but a Description.           *)
EndText ==
  /\ InCall("text", "end")
  /\ LET around == Head(xml.elementStack) IN
     xml' = ReturningObject(Advanced,
              ContentLiteral(xml, Here.elem, Here.text, around.lang, around.dir))

EndContent ==
  /\ InCall("content", "end")
  /\ xml' = ReturningObject(Advanced, ContentLiteral(xml, Here.elem, Here.text, "", ""))

PassElement ==
  /\ \/ \E in \in {"text", "content"} : InCall(in, "start") /\ ~IsDescription(Token.name)
     \/ \E in \in {"nestedText", "consume"} : InCall(in, "start")
     \/ InCall("nested", "end") /\ ~IsDescription(Token.name)
     \/ InCall("container", "end") /\ ~IsContainer(Token.name)
  /\ xml' = Advanced

BeginNestedDescription ==
  /\ InCall("text", "start") /\ IsDescription(Token.name)
  /\ LET node == NestedElement(Advanced, Token) IN
     xml' = OnTop(node, [Here EXCEPT !.in = "nested", !.node = node.term])

(* parsePropertyContent returns with the start of a Description: what is   *)
(* inside is left to the loop of its caller.                               *)
ReturnDescription ==
  /\ InCall("content", "start") /\ IsDescription(Token.name)
  /\ LET node == NestedElement(Advanced, Token) IN xml' = ReturningObject(node, node.term)

(* parseNestedDescription *)
NestedProperty ==
  /\ InCall("nested", "start")
  /\ LET predicate == IF IsLi THEN Member(Here.n + 1) ELSE Predicate(Token.name)
         q == IF IsLi THEN OnTop(Advanced, [Here EXCEPT !.n = @ + 1]) ELSE Advanced
         node == GetOrCreateNodeID(q, Get(Token, "nodeID"))
     IN xml' = CASE ~ValidAttributes(Token) -> Failed(xml)
                 [] ValidAttributes(Token) /\ Given(Token, "resource") ->
                      StatingInFull(q, Token, Here.node, predicate,
                                    ResolveURI(xml, Get(Token, "resource")))
                 [] ValidAttributes(Token) /\ ~Given(Token, "resource") /\ Has(Token, "nodeID") ->
                      Stating(node, Token, Here.node, predicate, node.term)
                 [] OTHER -> Calling(q, Call("nestedText", Token, Here.node, predicate))

EndNestedText ==
  /\ InCall("nestedText", "end")
  /\ xml' = Stating(Returning(Advanced), Here.elem, Here.s, Here.p, Literal(Here.text))

EndNestedDescription ==
  /\ InCall("nested", "end") /\ IsDescription(Token.name)
  /\ xml' = ReturningObject(Advanced, Here.node)

(* parseContainer and parseTypedNode *)
InnerProperty ==
  /\ \E in \in {"container", "typed"} : InCall(in, "start")
  /\ xml' = PropertyContent(Counted(Advanced), Token, Here.s, CountedPredicate(xml))

EndNode ==
  /\ InCall("typed", "end") \/ (InCall("container", "end") /\ IsContainer(Token.name))
  /\ xml' = Returning(Advanced)

(* parsePropertyContent, parseType="Resource" *)
ResourceContent ==
  /\ InCall("Resource", "start")
  /\ xml' = PropertyContent(Advanced, Token, Here.node, Predicate(Token.name))

EndResource == InCall("Resource", "end") /\ xml' = ReturningObject(Advanced, Here.node)

(* parseType="Literal": the elements inside become text. *)
LiteralElement ==
  /\ InCall("Literal", "start")
  /\ xml' = OnTop(Advanced, [Here EXCEPT !.text = Append(@, "<" \o Token.name[2] \o ">"),
                                         !.n = @ + 1])

EndLiteral ==
  /\ InCall("Literal", "end")
  /\ xml' = IF Here.n = 0
            THEN ReturningObject(Advanced, TypedLiteral(Here.text, RDF("XMLLiteral")))
            ELSE OnTop(Advanced, [Here EXCEPT !.text = Append(@, "</" \o Token.name[2] \o ">"),
                                              !.n = @ - 1])

(* parseType="Collection": an item is known from its start; up to the end  *)
(* of an element, the rest is skipped.                                     *)
CollectionItem ==
  /\ InCall("Collection", "start")
  /\ LET item == IF IsDescription(Token.name)
                 THEN NestedElement(Advanced, Token)
                 ELSE Giving(Advanced, Predicate(Token.name))
         cell == NewBlankNode(item)
         link == IF Here.o = None THEN {} ELSE {Triple(Here.o, RDF("rest"), cell.term)}
         list == [Here EXCEPT !.o = cell.term, !.node = IF @ = None THEN cell.term ELSE @]
     IN xml' = Calling(OnTop(Adding(cell, link \cup {Triple(cell.term, RDF("first"), item.term)}),
                             list),
                       Call("consume", Token, None, None))

EndCollection ==
  /\ InCall("Collection", "end")
  /\ xml' = IF Here.o = None
            THEN ReturningObject(Advanced, RDF("nil"))
            ELSE ReturningObject(Adding(Advanced, {Triple(Here.o, RDF("rest"), RDF("nil"))}),
                                 Here.node)

(* parseType="Triple", in four stages: the Description, its property, and  *)
(* two tokens that are taken for the ends of both elements.                *)
InTriple(stage) == \E t \in {"start", "end", "chars"} : InCall("Triple", t) /\ Here.n = stage

Blanks == Token.t = "chars" /\ Token.text = " "

TripleSubject ==
  /\ InTriple(0) /\ Token.t = "start"
  /\ LET node == NestedElement(Advanced, Token)
         type == TripleTerm(node.term, RDF("type"), ResolveURI(xml, Get(Token, "type")))
     IN xml' = OnTop(node, IF Has(Token, "type")
                           THEN [Here EXCEPT !.node = node.term, !.o = type, !.n = 2]
                           ELSE [Here EXCEPT !.node = node.term, !.n = 1])

TriplePredicate ==
  /\ InTriple(1) /\ Token.t = "start"
  /\ xml' = IF Here.o # None
            THEN Failed(xml)
            ELSE PropertyContent(Advanced, Token, Here.node, Predicate(Token.name))

PassInTriple ==
  /\ \/ InTriple(0) /\ Token.t # "start"
     \/ InTriple(1) /\ Token.t # "start"
  /\ xml' = CASE Here.n = 0 -> IF Blanks THEN Advanced ELSE Failed(xml)
              [] Here.n = 1 /\ Token.t = "end" ->
                   IF Here.o = None THEN Failed(xml) ELSE OnTop(Advanced, [Here EXCEPT !.n = 2])
              [] OTHER -> Advanced

CloseTriple ==
  \/ InTriple(2) /\ xml' = OnTop(Advanced, [Here EXCEPT !.n = 3])
  \/ InTriple(3) /\ xml' = ReturningObject(Advanced, Here.o)

(* An object known from attributes: one token is taken for the end of the  *)
(* element, whatever it is.                                                *)
TakeToken ==
  /\ \E t \in {"start", "end", "chars"} : InCall("token", t)
  /\ LET elem == Here.elem
         node == GetOrCreateNodeID(Advanced, Get(elem, "nodeID"))
     IN xml' = CASE Given(elem, "resource") ->
                      ReturningObject(Advanced, ResolveURI(xml, Get(elem, "resource")))
                 [] ~Given(elem, "resource") /\ Has(elem, "nodeID") -> ReturningObject(node, node.term)
                 [] OTHER -> ReturningObject(Advanced, Here.node)

EndConsume == InCall("consume", "end") /\ xml' = Returning(Advanced)

(* A property with parseType="Triple" in a document of RDF 1.1. *)
Skip ==
  \/ InCall("skip", "start") /\ xml' = OnTop(Advanced, [Here EXCEPT !.n = @ + 1])
  \/ /\ InCall("skip", "end")
     /\ xml' = IF Here.n = 1 THEN Returning(Advanced) ELSE OnTop(Advanced, [Here EXCEPT !.n = @ - 1])

Next ==
  \/ OpenRoot \/ OpenContainer \/ OpenDescription \/ OpenTypedNode
  \/ RefuseProperty \/ SkipTripleProperty \/ ParseTypeProperty \/ ResourceProperty
  \/ NodeIDProperty \/ AttributeProperty \/ TextProperty \/ CloseElement \/ Finish
  \/ TakeText \/ PassText \/ EndText \/ EndContent \/ PassElement
  \/ BeginNestedDescription \/ ReturnDescription \/ NestedProperty \/ EndNestedText
  \/ EndNestedDescription \/ InnerProperty \/ EndNode \/ ResourceContent \/ EndResource
  \/ LiteralElement \/ EndLiteral \/ CollectionItem \/ EndCollection
  \/ TripleSubject \/ TriplePredicate \/ PassInTriple \/ CloseTriple \/ TakeToken
  \/ EndConsume \/ Skip

Spec == Init /\ [][Next]_xml /\ WF_xml(Next)

(* Different rdf:nodeIDs are different blank nodes, and all of them are    *)
(* counted: a label that is given out later is none of theirs.             *)
NodeIDsApart ==
  \A x, y \in DOMAIN xml.nodeIDMap :
    /\ x # y => xml.nodeIDMap[x] # xml.nodeIDMap[y]
    /\ \E n \in 1 .. xml.blankNodeCounter : xml.nodeIDMap[x] = Blank(n)
=============================================================================
