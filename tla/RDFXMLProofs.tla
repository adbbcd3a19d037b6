---------------------------- MODULE RDFXMLProofs ----------------------------
(***************************************************************************)
(* Whatever the text, different rdf:nodeIDs are different blank nodes: no  *)
(* operator that makes terms or statements, and so no loop of the parser,  *)
(* touches the map of nodeIDs but GetOrCreateNodeID, and the counter only  *)
(* grows.                                                                  *)
(***************************************************************************)
EXTENDS RDFXML, TLAPS

Fields ==
  {"input", "pos", "documentBase", "baseURIStack", "usedIDs", "nodeIDMap", "rdfVersion",
   "blankNodeCounter", "liCounter", "seenRootRDF", "currentSubject", "elementStack", "calls",
   "term", "quads", "status"}

(* The nodes of a map of nodeIDs are distinct and were counted. *)
Counted1(map, counter) ==
  /\ counter \in Nat
  /\ \A x \in DOMAIN map : \E n \in 1 .. counter : map[x] = Blank(n)
  /\ \A x, y \in DOMAIN map : x # y => map[x] # map[y]

Sound(q) == DOMAIN q = Fields /\ Counted1(q.nodeIDMap, q.blankNodeCounter)

(* Steps that leave the map and the counter alone. *)
LEMMA FailedSound == ASSUME NEW q, Sound(q) PROVE Sound(Failed(q))
  BY DEF Sound, Failed, Fields

LEMMA GivingSound == ASSUME NEW q, NEW term, Sound(q) PROVE Sound(Giving(q, term))
  BY DEF Sound, Giving, Fields

LEMMA CallingSound == ASSUME NEW q, NEW call, Sound(q) PROVE Sound(Calling(q, call))
  BY DEF Sound, Calling, Fields

LEMMA ReturningSound == ASSUME NEW q, Sound(q) PROVE Sound(Returning(q))
  BY DEF Sound, Returning, Fields

LEMMA OnTopSound == ASSUME NEW q, NEW call, Sound(q) PROVE Sound(OnTop(q, call))
  BY DEF Sound, OnTop, Fields

LEMMA AddingSound == ASSUME NEW q, NEW triples, Sound(q) PROVE Sound(Adding(q, triples))
  BY DEF Sound, Adding, Fields

LEMMA CountingSound == ASSUME NEW q, NEW n, Sound(q) PROVE Sound([q EXCEPT !.liCounter = n])
  BY DEF Sound, Fields

(* Steps that make terms. *)
LEMMA NewBlankNodeSound == ASSUME NEW q, Sound(q) PROVE Sound(NewBlankNode(q))
<1>1. DOMAIN NewBlankNode(q) = Fields /\ NewBlankNode(q).nodeIDMap = q.nodeIDMap
      /\ NewBlankNode(q).blankNodeCounter = q.blankNodeCounter + 1
  BY DEF NewBlankNode, Sound, Fields
<1>2. Counted1(q.nodeIDMap, q.blankNodeCounter + 1)
  BY DEF Sound, Counted1
<1> QED BY <1>1, <1>2 DEF Sound

LEMMA ResolveIDSound == ASSUME NEW q, NEW id, Sound(q) PROVE Sound(ResolveID(q, id))
<1>1. CASE id \notin NCName \/ Fragment(CurrentBase(q), id) \in q.usedIDs
  BY <1>1, FailedSound DEF ResolveID
<1>2. CASE ~(id \notin NCName \/ Fragment(CurrentBase(q), id) \in q.usedIDs)
  <2> DEFINE iri == Fragment(CurrentBase(q), id)
             r == [q EXCEPT !.usedIDs = @ \cup {iri}, !.term = iri]
  <2>1. ResolveID(q, id) = r
    BY <1>2 DEF ResolveID
  <2>2. Sound(r)
    <3> HIDE DEF iri
    <3> QED BY DEF Sound, Fields
  <2> QED BY <2>1, <2>2
<1> QED BY <1>1, <1>2

LEMMA GetOrCreateNodeIDSound ==
  ASSUME NEW q, NEW id, Sound(q) PROVE Sound(GetOrCreateNodeID(q, id))
<1>1. CASE id \notin NCName
  BY <1>1, FailedSound DEF GetOrCreateNodeID
<1>2. CASE id \in NCName /\ id \in DOMAIN q.nodeIDMap
  BY <1>2, GivingSound DEF GetOrCreateNodeID
<1>3. CASE id \in NCName /\ id \notin DOMAIN q.nodeIDMap
  <2> DEFINE next == q.blankNodeCounter + 1
             map == [x \in DOMAIN q.nodeIDMap \cup {id} |->
                       IF x = id THEN Blank(next) ELSE q.nodeIDMap[x]]
             r == [NewBlankNode(q) EXCEPT !.nodeIDMap = map]
  <2>1. NewBlankNode(q).nodeIDMap = q.nodeIDMap /\ NewBlankNode(q).blankNodeCounter = next
        /\ DOMAIN NewBlankNode(q) = Fields
    BY DEF NewBlankNode, Sound, Fields
  <2>2. GetOrCreateNodeID(q, id) = r
    BY <1>3, <2>1 DEF GetOrCreateNodeID
  <2>3. Counted1(map, next)
    <3>1. next \in Nat /\ \A x \in DOMAIN q.nodeIDMap : \E n \in 1 .. next : map[x] = Blank(n)
      BY <1>3 DEF Sound, Counted1
    <3>2. map[id] = Blank(next) /\ next \in 1 .. next
      BY DEF Sound, Counted1
    <3>3. ASSUME NEW x \in DOMAIN q.nodeIDMap PROVE map[x] # Blank(next)
      <4>1. PICK n \in 1 .. q.blankNodeCounter : q.nodeIDMap[x] = Blank(n)
        BY DEF Sound, Counted1
      <4>2. n # next
        BY DEF Sound, Counted1
      <4>3. Blank(n) # Blank(next)
        BY <4>2 DEF Blank
      <4> QED BY <1>3, <4>1, <4>3
    <3>4. \A x \in DOMAIN q.nodeIDMap : map[x] = q.nodeIDMap[x]
      BY <1>3
    <3> QED BY <3>1, <3>2, <3>3, <3>4 DEF Sound, Counted1
  <2>4. DOMAIN r = Fields /\ r.nodeIDMap = map /\ r.blankNodeCounter = next
    <3> HIDE DEF map
    <3> QED BY <2>1 DEF Fields
  <2> QED BY <2>2, <2>3, <2>4 DEF Sound
<1> QED BY <1>1, <1>2, <1>3

LEMMA NodeOfSound ==
  ASSUME NEW q, NEW elem, NEW hasAbout \in BOOLEAN, Sound(q) PROVE Sound(NodeOf(q, elem, hasAbout))
  BY GivingSound, ResolveIDSound, GetOrCreateNodeIDSound, NewBlankNodeSound, Zenon DEF NodeOf
-----------------------------------------------------------------------------
(* Statements. *)
LEMMA ReifiedSound ==
  ASSUME NEW q, NEW elem, NEW s, NEW p, NEW o, Sound(q) PROVE Sound(Reified(q, elem, s, p, o))
  BY ResolveIDSound, AddingSound, Zenon DEF Reified

LEMMA AnnotatedSound ==
  ASSUME NEW q, NEW elem, NEW s, NEW p, NEW o, Sound(q) PROVE Sound(Annotated(q, elem, s, p, o))
  BY AddingSound, Zenon DEF Annotated

LEMMA AnnotatedByNodeSound ==
  ASSUME NEW q, NEW elem, NEW s, NEW p, NEW o, Sound(q)
  PROVE  Sound(AnnotatedByNode(q, elem, s, p, o))
  BY GetOrCreateNodeIDSound, AddingSound, Zenon DEF AnnotatedByNode

LEMMA StatingSound ==
  ASSUME NEW q, NEW elem, NEW s, NEW p, NEW o, Sound(q) PROVE Sound(Stating(q, elem, s, p, o))
  BY ReifiedSound, AddingSound, Zenon DEF Stating

LEMMA StatingInFullSound ==
  ASSUME NEW q, NEW elem, NEW s, NEW p, NEW o, Sound(q) PROVE Sound(StatingInFull(q, elem, s, p, o))
  BY StatingSound, AnnotatedSound, AnnotatedByNodeSound, Zenon DEF StatingInFull

LEMMA ReturningObjectSound ==
  ASSUME NEW q, NEW object, Sound(q) PROVE Sound(ReturningObject(q, object))
<1> DEFINE to == Returning(q)
<1>1. Sound(to)
  BY ReturningSound
<1> HIDE DEF to
<1>2. CASE Caller(q) = "Triple"
  BY <1>1, <1>2, OnTopSound, Zenon DEF ReturningObject, to
<1>3. CASE Caller(q) = "container"
  BY <1>1, <1>3, AddingSound, Zenon DEF ReturningObject, to
<1>4. CASE Caller(q) = "typed"
  BY <1>1, <1>4, StatingSound, Zenon DEF ReturningObject, to
<1>5. CASE Caller(q) \notin {"Triple", "container", "typed"}
  BY <1>1, <1>5, StatingInFullSound, Zenon DEF ReturningObject, to
<1> QED BY <1>2, <1>3, <1>4, <1>5

LEMMA PropertyContentSound ==
  ASSUME NEW q, NEW elem, NEW s, NEW p, Sound(q) PROVE Sound(PropertyContent(q, elem, s, p))
  BY FailedSound, CallingSound, NewBlankNodeSound, AddingSound, Zenon DEF PropertyContent

-----------------------------------------------------------------------------
(* The steps. *)
IInv == Sound(xml)

LEMMA AdvancedSound == ASSUME IInv PROVE Sound(Advanced)
  BY DEF IInv, Sound, Advanced, Fields

LEMMA OpenedSound == ASSUME IInv PROVE Sound(Opened)
<1>1. Sound(Advanced)
  BY AdvancedSound
<1>2. ASSUME NEW a, NEW b
      PROVE  Sound([Advanced EXCEPT !.baseURIStack = a, !.elementStack = b])
  BY <1>1 DEF Sound, Fields
<1> QED BY <1>2, Zenon DEF Opened

LEMMA CountedSound == ASSUME NEW q, Sound(q) PROVE Sound(Counted(q))
  BY CountingSound, Zenon DEF Counted

LEMMA FieldSound ==
  ASSUME NEW q, NEW field \in Fields \ {"nodeIDMap", "blankNodeCounter"}, NEW value, Sound(q)
  PROVE  Sound([q EXCEPT ![field] = value])
  BY DEF Sound, Fields

LEMMA ChangedSound ==
  ASSUME NEW q, NEW a, NEW b, NEW c, Sound(q)
  PROVE  /\ Sound([q EXCEPT !.seenRootRDF = a, !.rdfVersion = b])
         /\ Sound([q EXCEPT !.currentSubject = a, !.liCounter = b])
         /\ Sound([q EXCEPT !.status = a])
         /\ Sound([q EXCEPT !.elementStack = a, !.baseURIStack = b, !.currentSubject = c])
  BY DEF Sound, Fields

(* Parse. *)
LEMMA NodeStep ==
  ASSUME IInv, OpenRoot \/ OpenContainer \/ OpenDescription \/ OpenTypedNode PROVE IInv'
<1>1. CASE OpenRoot
  BY <1>1, FailedSound, OpenedSound, ChangedSound, Zenon DEF OpenRoot, IInv
<1>2. Sound(NodeElement(Opened, Token))
  <2>1. Has(Token, "about") \in BOOLEAN
    BY DEF Has
  <2> QED BY <2>1, OpenedSound, NodeOfSound, Zenon DEF NodeElement
<1>3. Sound(NestedElement(Opened, Token))
  BY OpenedSound, NodeOfSound DEF NestedElement, Given, Has
<1>4. CASE OpenContainer
  BY <1>3, <1>4, FailedSound, AddingSound, CountingSound, CallingSound, Zenon DEF OpenContainer, IInv
<1>5. CASE OpenDescription
  BY <1>2, <1>5, FailedSound, AddingSound, ChangedSound, Zenon DEF OpenDescription, IInv
<1>6. CASE OpenTypedNode
  BY <1>2, <1>6, FailedSound, AddingSound, CountingSound, CallingSound, Zenon DEF OpenTypedNode, IInv
<1> QED BY <1>1, <1>4, <1>5, <1>6

LEMMA KnownObjectSound == ASSUME NEW q, Sound(q) PROVE Sound(KnownObject(q))
  BY StatingInFullSound, CallingSound, Zenon DEF KnownObject

LEMMA PropertyStep ==
  ASSUME IInv, RefuseProperty \/ SkipTripleProperty \/ ParseTypeProperty \/ ResourceProperty
                 \/ NodeIDProperty \/ AttributeProperty \/ TextProperty
  PROVE  IInv'
<1>1. Sound(Counted(Opened))
  BY OpenedSound, CountedSound
<1>2. CASE RefuseProperty
  BY <1>2, FailedSound, Zenon DEF RefuseProperty, IInv
<1>3. CASE SkipTripleProperty
  BY <1>1, <1>3, CallingSound, Zenon DEF SkipTripleProperty, IInv
<1>4. CASE ParseTypeProperty
  BY <1>1, <1>4, PropertyContentSound, Zenon DEF ParseTypeProperty, IInv
<1>5. CASE ResourceProperty
  BY <1>1, <1>5, GivingSound, AddingSound, KnownObjectSound, Zenon DEF ResourceProperty, IInv
<1>6. CASE NodeIDProperty
  BY <1>1, <1>6, GetOrCreateNodeIDSound, KnownObjectSound, Zenon DEF NodeIDProperty, IInv
<1>7. CASE AttributeProperty
  BY <1>1, <1>7, NewBlankNodeSound, AddingSound, KnownObjectSound, Zenon
  DEF AttributeProperty, IInv
<1>8. CASE TextProperty
  BY <1>1, <1>8, CallingSound, Zenon DEF TextProperty, IInv
<1> QED BY <1>2, <1>3, <1>4, <1>5, <1>6, <1>7, <1>8

LEMMA TokenStep ==
  ASSUME IInv, CloseElement \/ Finish \/ TakeText \/ PassText \/ PassElement \/ Skip
  PROVE  IInv'
<1>1. CASE CloseElement
  BY <1>1, AdvancedSound, ChangedSound, Zenon DEF CloseElement, IInv
<1>2. CASE Finish
  BY <1>2, FailedSound, ChangedSound, Zenon DEF Finish, IInv
<1>3. CASE TakeText
  BY <1>3, AdvancedSound, OnTopSound, Zenon DEF TakeText, IInv
<1>4. CASE PassText
  BY <1>4, AdvancedSound, Zenon DEF PassText, IInv
<1>5. CASE PassElement
  BY <1>5, AdvancedSound, Zenon DEF PassElement, IInv
<1>6. CASE Skip
  BY <1>6, AdvancedSound, OnTopSound, ReturningSound, Zenon DEF Skip, IInv
<1> QED BY <1>1, <1>2, <1>3, <1>4, <1>5, <1>6

(* The loops that return an object. *)
LEMMA ObjectStep ==
  ASSUME IInv, EndText \/ EndContent \/ EndNestedText \/ EndNestedDescription \/ EndResource
                 \/ LiteralElement \/ EndLiteral \/ EndCollection \/ CloseTriple \/ TakeToken
  PROVE  IInv'
<1>1. Sound(Advanced)
  BY AdvancedSound
<1>2. CASE EndText
  BY <1>1, <1>2, ReturningObjectSound, Zenon DEF EndText, IInv
<1>3. CASE EndContent
  BY <1>1, <1>3, ReturningObjectSound, Zenon DEF EndContent, IInv
<1>4. CASE EndNestedText
  BY <1>1, <1>4, ReturningSound, StatingSound, Zenon DEF EndNestedText, IInv
<1>5. CASE EndNestedDescription
  BY <1>1, <1>5, ReturningObjectSound, Zenon DEF EndNestedDescription, IInv
<1>6. CASE EndResource
  BY <1>1, <1>6, ReturningObjectSound, Zenon DEF EndResource, IInv
<1>7. CASE LiteralElement
  BY <1>1, <1>7, OnTopSound, Zenon DEF LiteralElement, IInv
<1>8. CASE EndLiteral
  BY <1>1, <1>8, OnTopSound, ReturningObjectSound, Zenon DEF EndLiteral, IInv
<1>9. CASE EndCollection
  BY <1>1, <1>9, AddingSound, ReturningObjectSound, Zenon DEF EndCollection, IInv
<1>10. CASE CloseTriple
  BY <1>1, <1>10, OnTopSound, ReturningObjectSound, Zenon DEF CloseTriple, IInv
<1>11. CASE TakeToken
  BY <1>1, <1>11, GetOrCreateNodeIDSound, ReturningObjectSound, Zenon DEF TakeToken, IInv
<1> QED BY <1>2, <1>3, <1>4, <1>5, <1>6, <1>7, <1>8, <1>9, <1>10, <1>11

(* The loops that go on with what is inside. *)
LEMMA InnerStep ==
  ASSUME IInv, BeginNestedDescription \/ ReturnDescription \/ NestedProperty \/ InnerProperty
                 \/ EndNode \/ ResourceContent \/ CollectionItem \/ TripleSubject
                 \/ TriplePredicate \/ PassInTriple \/ EndConsume
  PROVE  IInv'
<1>1. Sound(Advanced)
  BY AdvancedSound
<1>2. Sound(NestedElement(Advanced, Token))
  BY <1>1, NodeOfSound DEF NestedElement, Given, Has
<1>3. CASE BeginNestedDescription
  BY <1>2, <1>3, OnTopSound, Zenon DEF BeginNestedDescription, IInv
<1>4. CASE ReturnDescription
  BY <1>2, <1>4, ReturningObjectSound, Zenon DEF ReturnDescription, IInv
<1>5. CASE NestedProperty
  <2> DEFINE q == IF IsLi THEN OnTop(Advanced, [Here EXCEPT !.n = @ + 1]) ELSE Advanced
  <2>1. Sound(q)
    BY <1>1, OnTopSound, Zenon
  <2>2. Sound(Failed(xml))
    BY FailedSound DEF IInv
  <2>3. Sound(GetOrCreateNodeID(q, Get(Token, "nodeID")))
    BY <2>1, GetOrCreateNodeIDSound, Zenon
  <2> QED
    BY <1>5, <2>1, <2>2, <2>3, StatingInFullSound, StatingSound, CallingSound, Zenon
    DEF NestedProperty, IInv
<1>6. CASE InnerProperty
  BY <1>1, <1>6, CountedSound, PropertyContentSound, Zenon DEF InnerProperty, IInv
<1>7. CASE EndNode
  BY <1>1, <1>7, ReturningSound, Zenon DEF EndNode, IInv
<1>8. CASE ResourceContent
  BY <1>1, <1>8, PropertyContentSound, Zenon DEF ResourceContent, IInv
<1>9. CASE CollectionItem
  <2>1. Sound(Giving(Advanced, Predicate(Token.name)))
    BY <1>1, GivingSound
  <2> QED
    BY <1>2, <1>9, <2>1, NewBlankNodeSound, AddingSound, OnTopSound, CallingSound, Zenon
    DEF CollectionItem, IInv
<1>10. CASE TripleSubject
  BY <1>2, <1>10, OnTopSound, Zenon DEF TripleSubject, IInv
<1>11. CASE TriplePredicate
  BY <1>1, <1>11, FailedSound, PropertyContentSound, Zenon DEF TriplePredicate, IInv
<1>12. CASE PassInTriple
  BY <1>1, <1>12, FailedSound, OnTopSound, Zenon DEF PassInTriple, IInv
<1>13. CASE EndConsume
  BY <1>1, <1>13, ReturningSound, Zenon DEF EndConsume, IInv
<1> QED BY <1>3, <1>4, <1>5, <1>6, <1>7, <1>8, <1>9, <1>10, <1>11, <1>12, <1>13

LEMMA InitIInv == Init => IInv
<1> SUFFICES ASSUME NEW in \in Input, xml = NewRDFXMLParser(in) PROVE Sound(xml)
  BY DEF Init, IInv
<1>1. DOMAIN xml = Fields /\ xml.blankNodeCounter = 0 /\ xml.nodeIDMap = [x \in {} |-> None]
  BY DEF NewRDFXMLParser, Fields
<1>2. Counted1([x \in {} |-> None], 0)
  BY DEF Counted1
<1> QED BY <1>1, <1>2 DEF Sound

LEMMA NextIInv == IInv /\ [Next]_xml => IInv'
<1>1. CASE Next
  BY <1>1, NodeStep, PropertyStep, TokenStep, ObjectStep, InnerStep, Zenon DEF Next
<1>2. CASE xml' = xml
  BY <1>2 DEF IInv
<1> QED BY <1>1, <1>2

(* Whatever the text, different rdf:nodeIDs are different blank nodes, and *)
(* no node without a name has one of theirs (rdfxml.go, getOrCreateNodeID).*)
THEOREM NodeIDsStayApart == Spec => []NodeIDsApart
<1>1. IInv => NodeIDsApart
  BY DEF IInv, Sound, Counted1, NodeIDsApart
<1> QED BY <1>1, InitIInv, NextIInv, PTL DEF Spec
=============================================================================
