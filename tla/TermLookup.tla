----------------------------- MODULE TermLookup -----------------------------
(***************************************************************************)
(* The way of a term through the store: inserted, read back by a scan,     *)
(* and put into the pattern of the next scan by a join                     *)
(* (pkg/store/store.go, pkg/store/query.go, pkg/sparql/executor).          *)
(***************************************************************************)
EXTENDS TermEncoding, FiniteSets

CONSTANTS
  RDFTerm,     \* the terms inserted
  MaxInserted  \* bound: how many of them

(* What the constructors of pkg/rdf make: only a literal has a language or *)
(* a datatype, never both, and only a language has a direction.  No text   *)
(* has the mark of a hash in it.                                           *)
ASSUME RDFTermAssumption ==
  \A term \in RDFTerm :
    /\ term \in [kind : {"iri", "blank", "literal"}, text : Text, lang : Text, dir : Text,
                 type : Fragment \cup {NoType}]
    /\ term.kind # "literal" => term.lang = NoText /\ term.type = NoType
    /\ term.type \notin {LangMark, TypeMark}
    /\ term.type # NoType => term.lang = NoText
    /\ term.lang = NoText => term.dir = NoText
    /\ \A i \in 1 .. Len(term.text) : term.text[i] # HashMark

VARIABLES
  inserted,  \* the terms inserted
  encoded,   \* their encodings in the index tables
  strings,   \* the strings of the id2str table
  read       \* the terms read back

lookupVars == <<inserted, encoded, strings, read>>

LookupInit ==
  /\ inserted = {}
  /\ encoded = {}
  /\ strings = {}
  /\ read = {}

(* insertQuadInTxn *)
InsertTerm(term) ==
  /\ Cardinality(inserted) < MaxInserted
  /\ inserted' = inserted \cup {term}
  /\ encoded' = encoded \cup {EncodeTerm(term)}
  /\ strings' = strings \cup StringsOf(term)
  /\ UNCHANGED read

(* Quad() of the iterator *)
ReadTerm(e) ==
  /\ DecodeStored(e, strings) # NoTerm
  /\ read' = read \cup {DecodeStored(e, strings)}
  /\ UNCHANGED <<inserted, encoded, strings>>

LookupNext ==
  \/ \E term \in RDFTerm \ inserted : InsertTerm(term)
  \/ \E e \in encoded : ReadTerm(e)

LookupSpec == LookupInit /\ [][LookupNext]_lookupVars

-----------------------------------------------------------------------------
(* What a term stands for in RDF: a literal of a datatype the encoder      *)
(* knows stands for its value, everything else for itself.                 *)
Value(term) ==
  LET text == term.text
  IN  IF term.kind = "literal" /\ WellFormed(term)
      THEN <<"value", term.type,
             CASE term.type = "integer" -> IntOf[text]
               [] term.type \in {"decimal", "double"} -> FloatOf[text]
               [] term.type = "boolean" -> IF text \in {<<"true">>, <<"1">>} THEN 1 ELSE 0
               [] term.type = "dateTime" -> TickOf[text]
               [] term.type = "date" -> DayOf[text]>>
      ELSE <<"term", term>>

(* The terms the encoding is up to.  Beyond it are: a label that is a      *)
(* number with zeros in front, NUL in a short string, a language with a    *)
(* mark in it, xsd:string (which RDF does not tell from a plain string),   *)
(* the booleans T, F and their like, an infinite double, a time with a     *)
(* fraction of a second or outside the 64 bits, and every date in a zone   *)
(* behind UTC.                                                             *)
Faithful(term) ==
  LET text == term.text
  IN  CASE term.kind = "iri" -> TRUE
        [] term.kind = "blank" -> NumericLabel(text) => IntText[IntOf[text]] = text
        [] term.kind = "literal" /\ ~WellFormed(term) ->
             /\ term.type # "string"
             /\ term.lang = NoText => ~Contains(text, Nul)
             /\ ~Contains(term.lang, LangMark) /\ ~Contains(term.lang, DirMark)
             /\ ~Contains(term.dir, LangMark)
        [] term.kind = "literal" /\ WellFormed(term) ->
             CASE term.type \in {"integer", "decimal"} -> TRUE
               [] term.type = "double" -> DoubleText(FloatOf[text]) \in DOMAIN FloatOf
               [] term.type = "boolean" ->
                    text \in {<<"true">>, <<"false">>, <<"1">>, <<"0">>}
               [] term.type = "dateTime" ->
                    InRange(TickOf[text]) /\ TickOf[text] % TicksPerSecond = 0
               [] term.type = "date" -> ~WestOfGreenwich

(* What a term is read as where it is the only one in the store.           *)
RoundTrip(term) == DecodeStored(EncodeTerm(term), StringsOf(term))

(* No term gets in the way of another: each is read as if it were alone,   *)
(* whatever the dictionary holds beside its string, and every string in    *)
(* the dictionary is that of a term.                                       *)
LookupInv ==
  /\ inserted \subseteq RDFTerm
  /\ encoded = {EncodeTerm(term) : term \in inserted}
  /\ strings = UNION {StringsOf(term) : term \in inserted}
  /\ \A r \in read : \E term \in inserted : r = RoundTrip(term)

(* A term that was read back and is put into the next pattern finds what   *)
(* was inserted with the same value and nothing else, however its text was *)
(* spelled: a join on numbers, dates and tagged strings loses no row and   *)
(* makes none up.                                                          *)
JoinFindsValue ==
  (\A term \in inserted : Faithful(term)) =>
    \A r \in read :
      /\ EncodeTerm(r) \in encoded
      /\ \A term \in inserted : EncodeTerm(term) = EncodeTerm(r) <=> Value(term) = Value(r)

(* DISTINCT goes by termSignature and the store by the bytes: both tell    *)
(* the same terms apart.  Left out are directions, which a signature does  *)
(* not show, and values with the mark of a language or a datatype in them. *)
Signed(term) ==
  Faithful(term) /\ term.dir = NoText
  /\ ~Contains(term.text, LangMark) /\ ~Contains(term.text, TypeMark)

DistinctAgrees ==
  (\A term \in inserted : Signed(term)) =>
    \A r1, r2 \in read :
      TermSignature(r1) = TermSignature(r2) <=> EncodeTerm(r1) = EncodeTerm(r2)
=============================================================================
