------------------------------ MODULE MCServer ------------------------------
(***************************************************************************)
(* Server with two users.  JSON-LD documents are trees and go through      *)
(* JSONLD; of a document in another format only its quads are given.       *)
(***************************************************************************)
EXTENDS Server, SequencesExt, TLC

CONSTANTS dg, tt, none, var, nil, h1, h2, h3, u1, u2,
  inOne, inTwo, withTripleTerm, empty, malformed, cutOff

J == INSTANCE JSONLD WITH DefaultGraph <- dg

-----------------------------------------------------------------------------
(* Trees: a context, @id, and up to two properties.                        *)

Ex(x) == <<"ex", ":", x>>
Full(x) == <<"http", "://", "e/", x>>
Texts(x) == J!JSONString(<<x>>)

PrefixContext == (<<"ex">> :> J!JSONString(<<"http", "://", "e/">>)) @@ (<<"name">> :> J!JSONString(Ex("p")))

Inner ==
  <<J!Object(<<>>), J!Object(Ex("q") :> Texts("x")), J!Object(J!Id :> J!JSONString(Ex("a"))),
    J!Object(<<"name">> :> J!Object(<<>>))>>

Leaf ==
  <<Texts("x"), J!Scalar("number", <<"1">>), J!Scalar("null", <<"<nil>">>),
    J!Object((J!Value :> Texts("x")) @@ (J!Language :> Texts("en"))),
    J!Object((J!Value :> Texts("x")) @@ (J!Type :> J!JSONString(Ex("t")))),
    J!Object((J!Value :> Texts("x")))>>

Arrays ==
  [i \in 1 .. 4 |-> J!Array(<<Texts("x"), Inner[i]>>)]
  \o [i \in 1 .. 4 |-> J!Array(<<J!Object(<<>>), Inner[i]>>)]

(* A member, or none: every combination of a member out of each of two     *)
(* sequences.                                                              *)
Members(key, values) == << <<>> >> \o [i \in DOMAIN values |-> (key :> values[i])]

Combine(ms, ns) ==
  [i \in 1 .. Len(ms) * Len(ns) |->
     ms[1 + (i - 1) \div Len(ns)] @@ ns[1 + ((i - 1) % Len(ns))]]

Objects(ms) == [i \in DOMAIN ms |-> J!Object(ms[i])]

Contexts == Members(J!Context, <<J!Object(PrefixContext)>>)

Trees ==
  Objects(Combine(Combine(Members(J!Id, <<J!JSONString(Full("a"))>>), Contexts),
                  Combine(Members(<<"name">>, Leaf \o Inner \o Arrays),
                          Members(Ex("q"), <<Texts("x"), Inner[1], Inner[4]>>))))

SomeTrees == Objects(Combine(Contexts, Members(<<"name">>, Inner)))

Pairs ==
  [i \in 1 .. Len(SomeTrees) * Len(SomeTrees) |->
     J!Array(<<SomeTrees[1 + (i - 1) \div Len(SomeTrees)],
               SomeTrees[1 + ((i - 1) % Len(SomeTrees))]>>)]

(* Two nested nodes: their labels depend on the order of the keys. *)
TwoNested ==
  J!Object((Full("p") :> J!Object(<<>>)) @@ (Full("q") :> J!Object(<<>>)))

TypedTree == J!Object((J!Type :> J!JSONString(Ex("t"))) @@ (Full("p") :> Texts("x")))

-----------------------------------------------------------------------------
(* A body is a number, the place of the tree in Forest, or one of the      *)
(* documents that are given by their quads.  Terms are named by strings.   *)

(* A function that TLC computes once and not at each application.          *)
Computed(f) == f @@ <<>>

Forest == Trees \o Pairs \o <<TypedTree, Texts("x"), TwoNested>>

Name(term) ==
  CASE term.kind = "iri" -> ToString(term.text)
    [] term.kind = "blank" -> ToString(<<"_", term.label>>)
    [] term.kind = "literal" -> ToString(<<term.text, term.lang, term.type>>)

NameQuads(quads) ==
  [i \in DOMAIN quads |->
     [s |-> Name(quads[i].s), p |-> Name(quads[i].p), o |-> Name(quads[i].o), g |-> dg]]

Parsed ==
  LET forest == Forest IN
  Computed([i \in DOMAIN forest |->
              IF J!ParseJSONLD(forest[i]) = {} THEN {ParseError}
              ELSE {Quads(NameQuads(quads)) : quads \in J!ParseJSONLD(forest[i])}])

P == J!IRI(Full("p"))
A == J!IRI(Full("a"))
Anon1 == J!Blank(101)

Given ==
  (inOne :> Quads(NameQuads(<<J!QuadOf(A, P, Anon1), J!QuadOf(Anon1, P, A)>>)))
  @@ (inTwo :> Quads(NameQuads(<<J!QuadOf(Anon1, P, J!PlainLit(<<"x">>))>>)))
  @@ (withTripleTerm :> Quads(NameQuads(<<J!QuadOf(A, P, A)>>)
                              \o <<[s |-> Name(A), p |-> Name(P), o |-> tt, g |-> dg]>>))
  @@ (empty :> Quads(<<>>)) @@ (malformed :> ParseError) @@ (cutOff :> Panic)

MCParse(format, body) == IF format = "jsonld" THEN Parsed[body] ELSE {Given[body]}

Batches ==
  {out.quads : out \in UNION (Range(Parsed) \cup {{Given[b]} : b \in DOMAIN Given})}
  \ {<<>>}

(* The terms of all these documents. *)
KnownTerms ==
  {J!IRI(text) : text \in {<<"name">>, Ex("a"), Ex("q"), Full("p"), Full("a"), Full("q")}}
  \cup {J!Blank(label) : label \in 1 .. 6 \cup {101}}
  \cup {J!PlainLit(<<x>>) : x \in {"x", "1"}}
  \cup {J!Lit(<<"x">>, <<"en">>, <<>>)}
  \cup {J!Lit(<<"x">>, <<>>, type) : type \in {Ex("t"), Full("t")}}

TermNamed ==
  LET terms == KnownTerms IN
  Computed([name \in {Name(t) : t \in terms} |-> CHOOSE t \in terms : Name(t) = name])

Terms == DOMAIN TermNamed \cup {dg, tt}

(* The string of a term; what is short needs none. *)
StringOfTerm(t) ==
  CASE t.kind = "iri" -> ToString(t.text)
    [] t.kind = "blank" -> ToString(<<"b", t.label>>)
    [] t.kind = "literal" /\ t.type # <<>> -> ToString(t.text \o <<"^^">> \o t.type)
    [] t.kind = "literal" /\ t.type = <<>> /\ t.lang # <<>> ->
         ToString(t.text \o <<"@">> \o t.lang)
    [] t.kind = "literal" /\ t.type = <<>> /\ t.lang = <<>> -> none

Strings ==
  LET named == TermNamed IN
  Computed([name \in DOMAIN named \cup {dg, tt} |->
              IF name \in {dg, tt} THEN none ELSE StringOfTerm(named[name])])

Digests == Range(Strings) \ {none}

Hashes == Computed([s \in Digests |-> s])

(* TLC evaluates the operator that stands for a constant at every use, and *)
(* what that operator refers to only once.                                 *)
MCBatch == Batches
MCTerm == Terms
MCStr == Digests
MCStrOf == Strings
MCHash == Hashes

(* Before anything of a quad is written. *)
Faults == {<<0, 0>>}

-----------------------------------------------------------------------------
Wish(method, type, body) == [method |-> method, type |-> type, body |-> body]

InOne == Wish("POST", "text/turtle", inOne)
InTwo == Wish("POST", "application/x-trig", inTwo)
Nested == Wish("POST", "application/ld+json", Len(Forest))
WithTripleTerm == Wish("POST", "application/rdf+xml", withTripleTerm)

Refused ==
  {WithTripleTerm, Wish("OPTIONS", "", empty), Wish("GET", "text/turtle", inOne), Wish("POST", "", inOne),
   Wish("POST", "text/csv", inOne), Wish("POST", "text/xml", malformed),
   Wish("POST", "application/n-quads", cutOff), Wish("POST", "text/plain", empty)}

Alone(wishes) == {u1 :> x : x \in wishes}

JSON(i) == Wish("POST", "application/json", i)

(* Two users at once, or one that is refused, and one trouble; one user    *)
(* with a JSON-LD document and none.                                       *)
AllScenarios ==
  {(u1 :> x) @@ (u2 :> y) :
     <<x, y>> \in {<<InOne, InTwo>>, <<Nested, InTwo>>}}
  \cup Alone(Refused) \cup Alone({JSON(i) : i \in DOMAIN Forest})

Scenarios == AllScenarios

MCTrouble(wish) == IF DOMAIN wish = {u1, u2} \/ wish[u1] \in Refused THEN 1 ELSE 0

-----------------------------------------------------------------------------
(* Whatever order a Go map gives its keys in, the parse of a JSON-LD       *)
(* document that stays within what the parser supports is the graph of the *)
(* tree up to the names of its blank nodes: nested nodes that take numbers *)
(* from one counter stay apart, and links find the nodes they mean.        *)
ReadsItsTree ==
  \A h \in Writer : At(h, "insert") =>
    LET rq == wants[serving[h].user]
        quads == serving[h].quads
        tree == Forest[rq.body]
    IN  ParserOf[rq.type] = "jsonld" /\ J!Handled(tree) =>
          J!SameUpToLabels({J!QuadOf(TermNamed[quads[i].s], TermNamed[quads[i].p],
                                     TermNamed[quads[i].o]) : i \in DOMAIN quads},
                           J!Meaning(tree))
=============================================================================
