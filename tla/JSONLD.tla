------------------------------- MODULE JSONLD -------------------------------
(***************************************************************************)
(* The JSON-LD parser (pkg/rdf/jsonld.go) over the tree that encoding/json *)
(* delivers.  A Go map gives its keys in an order of its own at every      *)
(* range, and the counter that names blank nodes is shared by the whole    *)
(* tree: the parse of one document is a set of results, one per order.     *)
(*                                                                         *)
(* A text is a sequence of fragments, "://" and ":" being fragments of     *)
(* their own: <<"http", "://", "e/", "a">>, <<"ex", ":", "a">>.            *)
(***************************************************************************)
EXTENDS Integers, Sequences, SequencesExt

CONSTANT DefaultGraph

IRI(text) == [kind |-> "iri", text |-> text]
Blank(label) == [kind |-> "blank", label |-> label]
Lit(text, lang, type) == [kind |-> "literal", text |-> text, lang |-> lang, type |-> type]
PlainLit(text) == Lit(text, <<>>, <<>>)

QuadOf(s, p, o) == [s |-> s, p |-> p, o |-> o, g |-> DefaultGraph]

(* JSON values.  The text of a scalar is what %v prints. *)
Scalar(json, text) == [json |-> json, text |-> text]
JSONString(text) == Scalar("string", text)
Object(members) == [json |-> "object", members |-> members]
Array(items) == [json |-> "array", items |-> items]

(* Keys that begin with @, which the parser skips. *)
Id == <<"@id">>
Type == <<"@type">>
Value == <<"@value">>
Language == <<"@language">>
Context == <<"@context">>
Keyword == {Id, Type, Value, Language, Context}

NoContext == [key \in {} |-> JSONString(<<>>)]

HasString(members, key) == key \in DOMAIN members /\ members[key].json = "string"

PrefixOf(name) == SubSeq(name, 1, SelectInSeq(name, LAMBDA x : x = ":") - 1)
LocalOf(name) == SubSeq(name, Len(PrefixOf(name)) + 2, Len(name))

RECURSIVE ExpandIRI(_, _)

ExpandIRI(name, context) ==
  CASE Contains(name, "://") -> name
    [] ~Contains(name, "://") /\ HasString(context, name) ->
         ExpandIRI(context[name].text, context)
    [] ~Contains(name, "://") /\ ~HasString(context, name) ->
         IF Contains(name, ":") /\ HasString(context, PrefixOf(name))
         THEN context[PrefixOf(name)].text \o LocalOf(name) ELSE name

-----------------------------------------------------------------------------
(* The quads so far and blankNodeCounter. *)
Start == [quads |-> <<>>, counter |-> 0]

Add(acc, s, p, o) == [acc EXCEPT !.quads = Append(@, QuadOf(s, p, o))]

ValueLit(value, context) ==
  LET text == value[Value].text
  IN  CASE HasString(value, Language) -> Lit(text, value[Language].text, <<>>)
        [] ~HasString(value, Language) /\ HasString(value, Type) ->
             Lit(text, <<>>, ExpandIRI(value[Type].text, context))
        [] ~HasString(value, Language) /\ ~HasString(value, Type) -> PlainLit(text)

(* Mutant of Link: the counter is passed by value. *)
LinkByValue(acc, s, p, nested) ==
  [quads |-> Add(acc, s, p, nested.subject).quads \o nested.quads,
   counter |-> acc.counter]

(* The triple to a nested object, then the triples of the object. *)
Link(acc, s, p, nested) ==
  [quads |-> Add(acc, s, p, nested.subject).quads \o nested.quads,
   counter |-> nested.counter]

RECURSIVE ParseObject(_, _, _), ParseMembers(_, _, _, _, _), ParseItems(_, _, _, _, _)

(* parseValue *)
ParseValue(acc, s, p, value, context) ==
  CASE HasString(value, Id) -> {Add(acc, s, p, IRI(ExpandIRI(value[Id].text, context)))}
    [] ~HasString(value, Id) /\ Value \in DOMAIN value ->
         {Add(acc, s, p, ValueLit(value, context))}
    [] ~HasString(value, Id) /\ Value \notin DOMAIN value ->
         {Link(acc, s, p, nested) : nested \in ParseObject(value, context, acc.counter)}

(* The switch over the values of a property; null has no case. *)
ParseProperty(acc, s, p, value, context) ==
  CASE value.json \in {"string", "number", "bool"} -> {Add(acc, s, p, PlainLit(value.text))}
    [] value.json = "object" -> ParseValue(acc, s, p, value.members, context)
    [] value.json = "array" -> ParseItems(acc, s, p, value.items, context)
    [] value.json = "null" -> {acc}

(* An array, in which numbers, booleans, null and arrays have no case. *)
ParseItems(acc, s, p, items, context) ==
  IF items = <<>> THEN {acc}
  ELSE LET item == Head(items)
           first == CASE item.json = "string" -> {Add(acc, s, p, PlainLit(item.text))}
                      [] item.json = "object" -> ParseValue(acc, s, p, item.members, context)
                      [] item.json \notin {"string", "object"} -> {acc}
       IN  UNION {ParseItems(a, s, p, Tail(items), context) : a \in first}

(* The keys that are left, in any order. *)
ParseMembers(acc, s, members, left, context) ==
  IF left = {} THEN {acc}
  ELSE UNION {UNION {ParseMembers(a, s, members, left \ {key}, context) :
                       a \in ParseProperty(acc, s, IRI(ExpandIRI(key, context)),
                                           members[key], context)} :
                key \in left}

(* parseObjectWithSubject *)
ParseObject(members, context, counter) ==
  LET named == HasString(members, Id)
      s == IF named THEN IRI(ExpandIRI(members[Id].text, context))
           ELSE Blank(counter + 1)
      begin == [quads |-> <<>>, counter |-> IF named THEN counter ELSE counter + 1]
  IN  {[subject |-> s, quads |-> a.quads, counter |-> a.counter] :
         a \in ParseMembers(begin, s, members, DOMAIN members \ Keyword, context)}

(* The context of an item stays for those that follow. *)
ContextOf(members, around) ==
  IF Context \in DOMAIN members /\ members[Context].json = "object"
  THEN members[Context].members ELSE around

RECURSIVE ParseArray(_, _, _)

ParseArray(acc, items, context) ==
  IF items = <<>> THEN {acc}
  ELSE IF Head(items).json # "object" THEN ParseArray(acc, Tail(items), context)
  ELSE LET own == ContextOf(Head(items).members, context)
       IN  UNION {ParseArray([quads |-> acc.quads \o r.quads, counter |-> r.counter],
                             Tail(items), own) :
                    r \in ParseObject(Head(items).members, own, acc.counter)}

(* Parse: a document that is neither object nor array is refused. *)
ParseJSONLD(doc) ==
  CASE doc.json = "object" -> {a.quads : a \in ParseArray(Start, <<doc>>, NoContext)}
    [] doc.json = "array" -> {a.quads : a \in ParseArray(Start, doc.items, NoContext)}
    [] doc.json \notin {"object", "array"} -> {}

-----------------------------------------------------------------------------
(* What a tree says: an object without @id is a node of its own, named     *)
(* here by its place in the tree.                                          *)

(* The values of a property, with their places. *)
ValuesOf(value) ==
  IF value.json = "array"
  THEN {[at |-> i, value |-> value.items[i]] : i \in DOMAIN value.items}
  ELSE {[at |-> 0, value |-> value]}

NodeOf(members, context, path) ==
  IF HasString(members, Id) THEN IRI(ExpandIRI(members[Id].text, context)) ELSE Blank(path)

TermOf(value, context, path) ==
  IF value.json # "object" THEN PlainLit(value.text)
  ELSE IF Value \in DOMAIN value.members THEN ValueLit(value.members, context)
  ELSE NodeOf(value.members, context, path)

Properties(members) ==
  {[key |-> key, at |-> v.at, value |-> v.value] :
     <<key, v>> \in UNION {{key} \X ValuesOf(members[key]) :
                             key \in DOMAIN members \ Keyword}}

RECURSIVE MeaningOfObject(_, _, _)

MeaningOfObject(members, context, path) ==
  UNION {LET place == path \o <<pr.key, pr.at>> IN
         {QuadOf(NodeOf(members, context, path), IRI(ExpandIRI(pr.key, context)),
                 TermOf(pr.value, context, place))}
         \cup IF pr.value.json = "object" /\ Value \notin DOMAIN pr.value.members
              THEN MeaningOfObject(pr.value.members, context, place) ELSE {} :
         pr \in Properties(members)}

ItemsOf(doc) == IF doc.json = "array" THEN doc.items ELSE <<doc>>

Meaning(doc) ==
  UNION {LET members == ItemsOf(doc)[i].members
         IN  MeaningOfObject(members, ContextOf(members, NoContext), <<i>>) :
           i \in DOMAIN ItemsOf(doc)}

RECURSIVE ObjectHandled(_)

(* The parser passes over @type of a node, over the properties of a nested *)
(* node with @id, over native values in arrays, and has no datatype for    *)
(* native values.                                                          *)
ObjectHandled(members) ==
  /\ Type \notin DOMAIN members
  /\ \A pr \in Properties(members) :
       \/ pr.value.json = "string"
       \/ /\ pr.value.json = "object"
          /\ LET inner == pr.value.members
             IN  \/ Value \in DOMAIN inner
                 \/ Id \in DOMAIN inner /\ DOMAIN inner = {Id}
                 \/ Id \notin DOMAIN inner /\ ObjectHandled(inner)

(* An array whose later items do without a context of their own is read    *)
(* with that of an earlier one.                                            *)
Handled(doc) ==
  /\ \A i \in DOMAIN ItemsOf(doc) :
       /\ ItemsOf(doc)[i].json = "object"
       /\ ObjectHandled(ItemsOf(doc)[i].members)
  /\ \A i, j \in DOMAIN ItemsOf(doc) :
       i < j /\ Context \in DOMAIN ItemsOf(doc)[i].members =>
         Context \in DOMAIN ItemsOf(doc)[j].members

BlankLabels(quads) ==
  {q.s.label : q \in {r \in quads : r.s.kind = "blank"}}
  \cup {q.o.label : q \in {r \in quads : r.o.kind = "blank"}}

Relabel(term, f) == IF term.kind = "blank" THEN Blank(f[term.label]) ELSE term

(* One set of quads is the other under a renaming of its blank nodes.      *)
SameUpToLabels(quads, others) ==
  \E f \in [BlankLabels(quads) -> BlankLabels(others)] :
    /\ \A x, y \in BlankLabels(quads) : f[x] = f[y] => x = y
    /\ {QuadOf(Relabel(q.s, f), q.p, Relabel(q.o, f)) : q \in quads} = others
=============================================================================
