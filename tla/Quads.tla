------------------------------- MODULE Quads -------------------------------
(***************************************************************************)
(* The data the triple store keeps: RDF terms in their encoded form, quads *)
(* and quad patterns, and the dictionary of the strings behind the terms   *)
(* (pkg/store/encoding.go, pkg/store/query.go, internal/encoding).         *)
(*                                                                         *)
(* A member of Term stands for one 17-byte encoded term: a type byte and   *)
(* 16 bytes which hold the value itself (small literals, the default       *)
(* graph) or the 128-bit hash of a string kept in the id2str table.        *)
(***************************************************************************)
EXTENDS Naturals, Sequences

CONSTANTS
  Term,          \* the encoded terms
  DefaultGraph,  \* the term of the default graph
  Unencodable,   \* terms EncodeTerm rejects: types its switch does not list
  Quoted,        \* quoted triples: encoded with a string, never decoded
  Guessed,       \* blank nodes and plain strings: decoded from the 16 bytes
                 \* when the dictionary has no string for them
  Str,           \* the strings behind hashed terms
  NoStr,         \* "no string": an inline term, an absent dictionary entry
  StrOf,         \* the string EncodeTerm returns with a term, or NoStr
  Digest,        \* the 128-bit hashes
  Hash,          \* Hash128
  Var,           \* a variable in a pattern position
  Nil            \* a pattern without a graph (Pattern.Graph == nil)

ASSUME TermAssumption ==
  /\ DefaultGraph \in Term
  /\ Unencodable \subseteq Term
  /\ Quoted \subseteq Term
  /\ Guessed \subseteq Term
  /\ Var \notin Term
  /\ Nil \notin Term
  /\ Var # Nil

ASSUME StringAssumption ==
  /\ NoStr \notin Str
  /\ StrOf \in [Term -> Str \cup {NoStr}]
  /\ StrOf[DefaultGraph] = NoStr
  /\ Hash \in [Str -> Digest]

(***************************************************************************)
(* Two strings with one 128-bit hash are outside the model: storeString    *)
(* would overwrite the string of the first with that of the second.        *)
(***************************************************************************)
ASSUME HashAssumption ==
  \A s1, s2 \in Str : Hash[s1] = Hash[s2] => s1 = s2

Position == {"s", "p", "o", "g"}

Quad == [s : Term, p : Term, o : Term, g : Term]

Pattern == [s : Term \cup {Var}, p : Term \cup {Var}, o : Term \cup {Var},
            g : Term \cup {Var, Nil}]

TermsOf(q) == {q.s, q.p, q.o, q.g}

Encodable(q) == TermsOf(q) \cap Unencodable = {}

InDefaultGraph(q) == q.g = DefaultGraph

(***************************************************************************)
(* What a pattern asks for: the bound positions agree, "nil means any      *)
(* graph" (query.go:14).                                                   *)
(***************************************************************************)
Matches(q, pat) ==
  /\ pat.s \in {Var, q.s}
  /\ pat.p \in {Var, q.p}
  /\ pat.o \in {Var, q.o}
  /\ pat.g \in {Var, Nil, q.g}

(***************************************************************************)
(* What a query is given of that: without a bound graph the tables of the  *)
(* default graph are scanned.                                              *)
(***************************************************************************)
Delivered(q, pat) == Matches(q, pat) /\ (pat.g \in {Var, Nil} => InDefaultGraph(q))

Answer(set, pat) == {q \in set : Delivered(q, pat)}

PatternTerms(pat) == {pat[pos] : pos \in Position} \ {Var, Nil}

(* Encoding a quoted triple works, decoding it never does. *)
Readable(q) == TermsOf(q) \cap Quoted = {}

(***************************************************************************)
(* The dictionary (table id2str) maps the hash of a string to the string.  *)
(***************************************************************************)
Dictionary == [Digest -> Str \cup {NoStr}]

EmptyDictionary == [d \in Digest |-> NoStr]

Known(dict, term) ==
  StrOf[term] # NoStr => dict[Hash[StrOf[term]]] = StrOf[term]

DecodeError == "decode error"
WrongTerm == "wrong term"

(***************************************************************************)
(* decodeTerm: the type byte decides whether the string is looked up, and  *)
(* quoted triples are not on that list although they are stored with a     *)
(* string.  Without its string a blank node or a plain string is read out  *)
(* of the hash bytes (a different term), any other term is an error.       *)
(***************************************************************************)
DecodeTerm(dict, term) ==
  LET looked == IF StrOf[term] = NoStr THEN NoStr ELSE dict[Hash[StrOf[term]]]
  IN  IF term \in Quoted THEN DecodeError
      ELSE IF looked = StrOf[term] THEN term
      ELSE IF looked = NoStr /\ term \notin Guessed THEN DecodeError
      ELSE WrongTerm
=============================================================================
