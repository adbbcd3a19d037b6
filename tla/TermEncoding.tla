---------------------------- MODULE TermEncoding ----------------------------
(***************************************************************************)
(* RDF terms and their 17 bytes (internal/encoding): a type byte and       *)
(* either the value itself or the 128-bit hash of a string that goes to    *)
(* the id2str table.                                                       *)
(*                                                                         *)
(* A text is a sequence of fragments; one fragment takes one of the        *)
(* MaxInlineStringSize places of an inline string.  What strconv, fmt and  *)
(* time make of a text, or of a number, are tables.                        *)
(***************************************************************************)
EXTENDS Integers, Sequences, SequencesExt

CONSTANTS
  Fragment,
  MaxInlineStringSize,
  Width,           \* the bits of a number: 64 in the code
  IntOf,           \* strconv.ParseInt and ParseUint before the range check
  IntText,         \* %d
  FloatOf,         \* strconv.ParseFloat: floats are named by numbers
  FloatText,       \* %g
  WholeText,       \* %.1f of the floats that are whole numbers
  BoolOf,          \* strconv.ParseBool
  DayOf, DayText,  \* time.Parse and Format of a date
  TickOf,          \* time.Parse of a dateTime, in ticks since the epoch
  SecondText,      \* RFC 3339 of a second in the local zone
  TicksPerSecond,  \* 10^9 in the code
  WestOfGreenwich  \* whether the local zone is behind UTC

Text == Seq(Fragment)
NoText == <<>>
NoType == ""

(* The marks of a language, of a direction and of a datatype.              *)
LangMark == "@"
DirMark == "--"
TypeMark == "^^"
Nul == "NUL"

IRITerm(text) == [kind |-> "iri", text |-> text, lang |-> NoText, dir |-> NoText, type |-> NoType]
BlankTerm(id) == [kind |-> "blank", text |-> id, lang |-> NoText, dir |-> NoText, type |-> NoType]
TypedLiteral(value, type) ==
  [kind |-> "literal", text |-> value, lang |-> NoText, dir |-> NoText, type |-> type]
PlainLiteral(value) == TypedLiteral(value, NoType)
LangLiteral(value, lang, dir) ==
  [kind |-> "literal", text |-> value, lang |-> lang, dir |-> dir, type |-> NoType]
NoTerm == [kind |-> "error", text |-> NoText, lang |-> NoText, dir |-> NoText, type |-> NoType]

(***************************************************************************)
(* An encoded term: the type byte, and the other bytes as characters, as   *)
(* a hash or as a number.  The hash of a string is taken to be the string  *)
(* itself behind a mark: no two strings collide.                           *)
(***************************************************************************)
HashMark == "#"
Hash128(str) == <<HashMark>> \o str

Encoded(type, data, num) == [type |-> type, data |-> data, num |-> num]
Number(type, num) == Encoded(type, NoText, num)
Hashed(type, str) == Encoded(type, Hash128(str), 0)

Limit == 2 ^ (Width - 1)
InRange(n) == -Limit <= n /\ n < Limit

(* The conversion of a number that is too large to 64 bits. *)
Wrap(n) == ((n + Limit) % (2 * Limit)) - Limit

-----------------------------------------------------------------------------
(* EncodeTerm.                                                             *)

Bytes(value) == [i \in 1 .. MaxInlineStringSize |-> IF i <= Len(value) THEN value[i] ELSE Nul]

LangString(lit) ==
  lit.text \o <<LangMark>> \o lit.lang \o (IF lit.dir = NoText THEN NoText ELSE <<DirMark>> \o lit.dir)

TypedString(lit) == lit.text \o <<TypeMark, lit.type>>

(* The datatypes with an encoding of their own, and the texts it takes.    *)
WellFormed(lit) ==
  \/ lit.type = "integer" /\ lit.text \in DOMAIN IntOf /\ InRange(IntOf[lit.text])
  \/ lit.type \in {"decimal", "double"} /\ lit.text \in DOMAIN FloatOf
  \/ lit.type = "boolean" /\ lit.text \in DOMAIN BoolOf
  \/ lit.type = "dateTime" /\ lit.text \in DOMAIN TickOf
  \/ lit.type = "date" /\ lit.text \in DOMAIN DayOf

EncodeValue(lit) ==
  Number(lit.type,
         CASE lit.type = "integer" -> IntOf[lit.text]
           [] lit.type \in {"decimal", "double"} -> FloatOf[lit.text]
           [] lit.type = "boolean" -> IF BoolOf[lit.text] THEN 1 ELSE 0
           [] lit.type = "dateTime" -> Wrap(TickOf[lit.text])
           [] lit.type = "date" -> DayOf[lit.text])

EncodeLiteral(lit) ==
  IF lit.type # NoType THEN IF WellFormed(lit) THEN EncodeValue(lit) ELSE Hashed("typed", TypedString(lit))
  ELSE IF lit.lang # NoText THEN Hashed("lang", LangString(lit))
  ELSE IF Len(lit.text) <= MaxInlineStringSize THEN Encoded("string", Bytes(lit.text), 0)
  ELSE Hashed("string", lit.text)

(* A label that is a number of 64 bits without a sign is kept as one.      *)
NumericLabel(id) == id \in DOMAIN IntOf /\ id[1] \notin {"+", "-"} /\ IntOf[id] < 2 * Limit

EncodeTerm(term) ==
  CASE term.kind = "iri" -> Hashed("iri", term.text)
    [] term.kind = "blank" ->
         IF NumericLabel(term.text) THEN Number("blank", IntOf[term.text])
         ELSE Hashed("blank", term.text)
    [] term.kind = "literal" -> EncodeLiteral(term)

(* The string that goes to id2str with a term, and none with an inline one. *)
StringsOf(term) ==
  LET e == EncodeTerm(term)
  IN  IF e.data # NoText /\ e.data[1] = HashMark THEN {Tail(e.data)} ELSE {}

-----------------------------------------------------------------------------
(* decodeTerm and DecodeTerm.  A term that is not looked up, or is not     *)
(* found, is decoded without a string.                                     *)

LookedUp == {"iri", "blank", "string", "lang", "typed"}

Found(e, strings) == e.type \in LookedUp /\ \E str \in strings : Hash128(str) = e.data

UpTo(text, mark) == SubSeq(text, 1, SelectInSeq(text, LAMBDA x : x = mark) - 1)
UntilNul(data) == IF Contains(data, Nul) THEN UpTo(data, Nul) ELSE data

(* Mutant of LastMark: the scan goes forwards. *)
FirstMark(text, mark) == SelectInSeq(text, LAMBDA x : x = mark)

LastMark(text, mark) == SelectLastInSeq(text, LAMBDA x : x = mark)

Before(text, mark) == SubSeq(text, 1, LastMark(text, mark) - 1)
After(text, mark) == SubSeq(text, LastMark(text, mark) + 1, Len(text))

DecodeLang(str) ==
  LET langDir == After(str, LangMark)
  IN  IF Contains(langDir, DirMark)
      THEN LangLiteral(Before(str, LangMark), UpTo(langDir, DirMark),
                       SubSeq(langDir, Len(UpTo(langDir, DirMark)) + 2, Len(langDir)))
      ELSE LangLiteral(Before(str, LangMark), langDir, NoText)

(* NewDoubleLiteral: a text without point and exponent is given a point.   *)
DoubleText(float) ==
  LET printed == FloatText[float]
  IN  IF float \in DOMAIN WholeText THEN WholeText[float]
      ELSE IF \E mark \in {".", "e"} : Contains(printed, mark) THEN printed
      ELSE printed \o <<".", "0">>

(***************************************************************************)
(* What the code counts on: a number, a day or a second that is printed is *)
(* read back as itself, and its text has no mark of a language or of a     *)
(* datatype in it.  A double need not be read back: +Inf is printed as     *)
(* +Inf.0.  Of the local zone it counts on a whole number of minutes,      *)
(* which is all that RFC 3339 prints.                                      *)
(***************************************************************************)
Unmarked(text) ==
  text \in Text /\ \A i \in 1 .. Len(text) : text[i] \notin {LangMark, TypeMark}

Prints(text, parse, num) ==
  text \in DOMAIN parse /\ parse[text] = num /\ Unmarked(text)

ASSUME FragmentAssumption ==
  {HashMark, LangMark, DirMark, TypeMark, Nul, "iri:", "blank:", "lit:"} \subseteq Fragment

ASSUME SizeAssumption ==
  MaxInlineStringSize \in Nat \ {0} /\ Limit \in Nat \ {0} /\ TicksPerSecond \in Nat \ {0}

ASSUME IntAssumption ==
  /\ \A text \in DOMAIN IntOf : IntOf[text] \in Int
  /\ \A n \in -Limit .. Limit - 1 : Prints(IntText[n], IntOf, n)

ASSUME FloatAssumption ==
  \A text \in DOMAIN FloatOf :
    LET float == FloatOf[text]
    IN  /\ Prints(FloatText[float], FloatOf, float)
        /\ DoubleText(float) \in DOMAIN FloatOf => Prints(DoubleText(float), FloatOf, float)

ASSUME BoolAssumption ==
  /\ \A text \in {<<"true">>, <<"1">>} : Prints(text, BoolOf, TRUE)
  /\ \A text \in {<<"false">>, <<"0">>} : Prints(text, BoolOf, FALSE)

ASSUME DayAssumption ==
  \A text \in DOMAIN DayOf : Prints(DayText[DayOf[text]], DayOf, DayOf[text])

ASSUME TickAssumption ==
  \A text \in DOMAIN TickOf :
    LET second == TickOf[text] \div TicksPerSecond
    IN  /\ TickOf[text] \in Int
        /\ InRange(TickOf[text]) =>
             Prints(SecondText[second], TickOf, TicksPerSecond * second)

(* Dates and times are printed in the local zone, times without fraction.  *)
DecodeValue(type, num) ==
  TypedLiteral(
    CASE type = "integer" -> IntText[num]
      [] type = "decimal" -> FloatText[num]
      [] type = "double" -> DoubleText(num)
      [] type = "boolean" -> IF num # 0 THEN <<"true">> ELSE <<"false">>
      [] type = "dateTime" -> SecondText[num \div TicksPerSecond]
      [] type = "date" -> DayText[IF WestOfGreenwich THEN num - 1 ELSE num],
    type)

DecodeStored(e, strings) ==
  LET str == Tail(e.data)
  IN  CASE Found(e, strings) /\ e.type = "iri" -> IRITerm(str)
        [] Found(e, strings) /\ e.type = "blank" -> BlankTerm(str)
        [] Found(e, strings) /\ e.type = "string" -> PlainLiteral(str)
        [] Found(e, strings) /\ e.type = "lang" -> DecodeLang(str)
        [] Found(e, strings) /\ e.type = "typed" ->
             TypedLiteral(Before(str, TypeMark), After(str, TypeMark)[1])
        [] ~Found(e, strings) /\ e.type = "blank" -> BlankTerm(IntText[e.num])
        [] ~Found(e, strings) /\ e.type = "string" -> PlainLiteral(UntilNul(e.data))
        [] ~Found(e, strings) /\ e.type \in {"iri", "lang", "typed"} -> NoTerm
        [] e.type \notin LookedUp -> DecodeValue(e.type, e.num)

-----------------------------------------------------------------------------
(* Mutant of TermSignature: the datatype does not count. *)
UntypedSignature(term) ==
  CASE term.kind = "iri" -> <<"iri:">> \o term.text
    [] term.kind = "blank" -> <<"blank:">> \o term.text
    [] term.kind = "literal" ->
         <<"lit:">> \o term.text \o (IF term.lang # NoText THEN <<LangMark>> \o term.lang ELSE NoText)

(* termSignature, by which DISTINCT tells terms apart. *)
TermSignature(term) ==
  CASE term.kind = "iri" -> <<"iri:">> \o term.text
    [] term.kind = "blank" -> <<"blank:">> \o term.text
    [] term.kind = "literal" ->
         <<"lit:">> \o term.text \o (IF term.lang # NoText THEN <<LangMark>> \o term.lang ELSE NoText)
                    \o (IF term.type # NoType THEN <<TypeMark, term.type>> ELSE NoText)
=============================================================================
