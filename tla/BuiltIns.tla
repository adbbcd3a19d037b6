------------------------------ MODULE BuiltIns ------------------------------
(***************************************************************************)
(* The functions and arithmetic operators of expressions (functions.go,    *)
(* operators.go) on the values of their arguments, next to what SPARQL 1.1 *)
(* (section 17.4) says they return.                                        *)
(*                                                                         *)
(* A text is a sequence of fragments, one for each byte; Continuation is a *)
(* byte that belongs to the character before it.  Numbers are counted in   *)
(* tenths: their texts end in .0 or .5, which a float64 has exactly.       *)
(* REGEX is left out, and casts, which the parser never takes for calls.   *)
(***************************************************************************)
EXTENDS SPARQLParser

PlainLiteral(text) == Literal(text, <<>>, <<>>)

TestOfTerm == {"ISIRI", "ISURI", "ISBLANK", "ISLITERAL", "ISNUMERIC"}
PartOfTerm == {"STR", "LANG", "DATATYPE"}
OneString == {"STRLEN", "UCASE", "LCASE"}
Search == {"CONTAINS", "STRSTARTS", "STRENDS"}
TwoStrings == Search \cup {"LANGMATCHES"}
Rounding == {"CEIL", "FLOOR", "ROUND"}
OneNumber == Rounding \cup {"ABS"}

-----------------------------------------------------------------------------
(* Texts.                                                                  *)

Continuation == "~"

UpperLetters == <<"A", "B", "EN">>
LowerLetters == <<"a", "b", "en">>

Replaced(text, from, to) ==
  [i \in DOMAIN text |->
     IF text[i] \in ToSet(from) THEN to[CHOOSE n \in DOMAIN from : from[n] = text[i]] ELSE text[i]]

ToUpper(text) == Replaced(text, LowerLetters, UpperLetters)
ToLower(text) == Replaced(text, UpperLetters, LowerLetters)

Changed(fn, text) == IF fn = "UCASE" THEN ToUpper(text) ELSE ToLower(text)

ContainsText(text, part) ==
  \E i \in 0 .. Len(text) - Len(part) : SubSeq(text, i + 1, i + Len(part)) = part

LangMatches(tag, range) ==
  IF range = <<"*">> THEN tag # <<>>
  ELSE ToLower(tag) = ToLower(range) \/ IsPrefix(ToLower(range) \o <<"-">>, ToLower(tag))

TestOfStrings(fn, text1, text2) ==
  CASE fn = "CONTAINS" -> ContainsText(text1, text2)
    [] fn = "STRSTARTS" -> IsPrefix(text2, text1)
    [] fn = "STRENDS" -> IsSuffix(text2, text1)
    [] fn = "LANGMATCHES" -> LangMatches(text1, text2)

-----------------------------------------------------------------------------
(* Numbers: a sign, and a fraction of tenths.  Zero has a sign of its own. *)

IntegerTypes == {XSD("integer"), XSD("int"), XSD("long")}
FloatTypes == {XSD("double"), XSD("float"), XSD("decimal")}

IsDigits(text) == text # <<>> /\ ToSet(text) \subseteq ToSet(Digit)

Unsigned(text) == IF text # <<>> /\ Head(text) \in {"+", "-"} THEN Tail(text) ELSE text

IsWhole(text) == IsDigits(Unsigned(text))

HasTenths(text) ==
  LET n == Len(text)
  IN  n > 2 /\ text[n - 1] = "." /\ text[n] \in {"0", "5"} /\ IsWhole(SubSeq(text, 1, n - 2))

(* strconv.ParseInt and ParseFloat on such texts. *)
Tenths(text) ==
  LET sign == IF Head(text) = "-" THEN -1 ELSE 1
      digits == SelectSeq(Unsigned(text), LAMBDA c : c # ".")
  IN  sign * (IF HasTenths(text) THEN NumberOf(digits) ELSE 10 * NumberOf(digits))

HasNumber(t, wholeTypes) ==
  /\ t.kind = "literal"
  /\ \/ t.type \in wholeTypes /\ IsWhole(t.text)
     \/ t.type \in FloatTypes /\ (IsWhole(t.text) \/ HasTenths(t.text))

(* extractNumeric. *)
IsNumber(t) == HasNumber(t, IntegerTypes)

Size(n) == IF n < 0 THEN -n ELSE n

Signed(negative, num, den) == [negative |-> negative, num |-> num, den |-> den]
Whole(v) == Signed(v < 0, 10 * Size(v), 1)

Calculated(op, v1, v2) ==
  LET opposite == (v1 < 0) # (v2 < 0)
  IN  CASE op = "+" -> Signed(v1 + v2 < 0, Size(v1 + v2), 1)
        [] op = "-" -> Signed(v1 - v2 < 0, Size(v1 - v2), 1)
        [] op = "*" -> Signed(opposite, Size(v1) * Size(v2), 10)
        [] op = "/" -> Signed(opposite, 10 * Size(v1), Size(v2))

RECURSIVE Numeral(_)
Numeral(n) ==
  IF n < 10 THEN <<Digit[n + 1]>> ELSE Append(Numeral(n \div 10), Digit[(n % 10) + 1])

IsInteger(r) == r.num % (10 * r.den) = 0

(* NewIntegerLiteral. *)
IntegerOf(r) ==
  Integer((IF r.negative /\ r.num # 0 THEN <<"-">> ELSE <<>>) \o Numeral(r.num \div (10 * r.den)))

(* What cannot be written in tenths is written as a fraction. *)
FractionText(r) ==
  (IF r.negative THEN <<"-">> ELSE <<>>)
    \o (IF r.num % r.den = 0
        THEN Numeral((r.num \div r.den) \div 10) \o <<".", Digit[((r.num \div r.den) % 10) + 1]>>
        ELSE Numeral(r.num) \o <<"/">> \o Numeral(r.den))

(* NewDoubleLiteral. *)
DoubleOf(r) == Literal(FractionText(r), <<>>, XSD("double"))

(* createNumericLiteral. *)
NumericLiteral(r, t1, t2) ==
  IF IsInteger(r) /\ {t1.type, t2.type} \subseteq {XSD("integer"), XSD("int")}
  THEN IntegerOf(r) ELSE DoubleOf(r)

Floor(v) == v \div 10
Ceil(v) == -((-v) \div 10)

(* Halves away from zero, and halves up. *)
Round(v) == IF v < 0 THEN -((5 - v) \div 10) ELSE (v + 5) \div 10
RoundUp(v) == (v + 5) \div 10

Rounded(fn, v) ==
  CASE fn = "CEIL" -> Ceil(v) [] fn = "FLOOR" -> Floor(v) [] fn = "ROUND" -> Round(v)

-----------------------------------------------------------------------------
(* The evaluator.  An argument may be Error.                               *)

Panic == [kind |-> "panic"]

HasString(t) == t.kind \in {"literal", "iri"}

EvaluateTest(fn, t) ==
  CASE fn \in {"ISIRI", "ISURI"} -> Bool(t.kind = "iri")
    [] fn = "ISBLANK" -> Bool(t.kind = "blank")
    [] fn = "ISLITERAL" -> Bool(t.kind = "literal")
    [] fn = "ISNUMERIC" -> Bool(IsNumber(t))

EvaluatePart(fn, t) ==
  CASE fn = "STR" -> IF HasString(t) THEN PlainLiteral(t.text) ELSE Error
    [] fn = "LANG" -> PlainLiteral(IF t.kind = "literal" THEN t.lang ELSE <<>>)
    [] fn = "DATATYPE" -> IF t.kind # "literal" THEN Error
                          ELSE IRI(IF t.type = <<>> THEN XSD("string") ELSE t.type)

OfString(fn, text) ==
  IF fn = "STRLEN" THEN IntegerOf(Whole(Len(text))) ELSE PlainLiteral(Changed(fn, text))

(* The slice from start to end; one that ends before it starts panics.     *)
(* That ends the request: expressions around the call are not looked at.   *)
Slice(text, start, end) ==
  IF end < start THEN Panic
  ELSE PlainLiteral(SubSeq(text, start + 1, IF end > Len(text) THEN Len(text) ELSE end))

Truncated(v) == IF v < 0 THEN -((-v) \div 10) ELSE v \div 10

(* A start before the text is moved to its beginning; behind the text, the *)
(* length is not looked at.                                                *)
EvaluateSubStr(args) ==
  LET text == args[1].text
      place == Truncated(Tenths(args[2].text))
      start == IF place < 1 THEN 0 ELSE place - 1
  IN  CASE ~HasString(args[1]) \/ ~IsNumber(args[2]) -> Error
        [] OTHER ->
             IF start >= Len(text) THEN PlainLiteral(<<>>)
             ELSE IF Len(args) = 2 THEN Slice(text, start, Len(text))
             ELSE IF ~IsNumber(args[3]) THEN Error
             ELSE Slice(text, start, start + Truncated(Tenths(args[3].text)))

(* Mutant of EvaluateArithmetic: the operands are swapped. *)
EvaluateSwapped(op, t1, t2) ==
  LET v1 == Tenths(t1.text)
      v2 == Tenths(t2.text)
  IN  CASE ~(IsNumber(t1) /\ IsNumber(t2)) -> Error
        [] OTHER -> IF op = "/" /\ v1 = 0 THEN Error
                    ELSE NumericLiteral(Calculated(op, v2, v1), t1, t2)

EvaluateArithmetic(op, t1, t2) ==
  LET v1 == Tenths(t1.text)
      v2 == Tenths(t2.text)
  IN  CASE ~(IsNumber(t1) /\ IsNumber(t2)) -> Error
        [] OTHER -> IF op = "/" /\ v2 = 0 THEN Error
                    ELSE NumericLiteral(Calculated(op, v1, v2), t1, t2)

EvaluateNumber(fn, t) ==
  LET v == Tenths(t.text)
  IN  CASE ~IsNumber(t) -> Error
        [] IsNumber(t) /\ fn = "ABS" -> NumericLiteral(Signed(FALSE, Size(v), 1), t, t)
        [] IsNumber(t) /\ fn \in Rounding -> IntegerOf(Whole(Rounded(fn, v)))

(* Kind, text, language and datatype are compared. *)
TermsEqual(t1, t2) == t1 = t2

HasArity(fn, n) ==
  CASE fn \in TestOfTerm \cup PartOfTerm \cup OneString \cup OneNumber -> n = 1
    [] fn \in TwoStrings \cup Arithmetic \cup {"SAMETERM"} -> n = 2
    [] fn = "SUBSTR" -> n \in {2, 3}
    [] OTHER -> fn = "CONCAT"

Failed(args) == \E i \in DOMAIN args : args[i].kind = "error"

JoinedTexts(args) == FlattenSeq([i \in DOMAIN args |-> args[i].text])

(* evaluateFunctionCall, and the arithmetic of evaluateBinaryExpression: an *)
(* argument that fails makes the call fail, but SUBSTR may not look at it.  *)
EvaluateCall(fn, args) ==
  LET strings == \A i \in DOMAIN args : HasString(args[i])
  IN  CASE ~HasArity(fn, Len(args)) \/ (fn # "SUBSTR" /\ Failed(args)) -> Error
        [] fn = "SUBSTR" /\ HasArity(fn, Len(args)) -> EvaluateSubStr(args)
        [] OTHER ->
             (CASE fn \in TestOfTerm -> EvaluateTest(fn, args[1])
                [] fn \in PartOfTerm -> EvaluatePart(fn, args[1])
                [] fn \in OneNumber -> EvaluateNumber(fn, args[1])
                [] fn \in Arithmetic -> EvaluateArithmetic(fn, args[1], args[2])
                [] fn = "SAMETERM" -> Bool(TermsEqual(args[1], args[2]))
                [] fn \in OneString \cup TwoStrings \cup {"CONCAT"} ->
                     IF ~strings THEN Error
                     ELSE IF fn \in OneString THEN OfString(fn, args[1].text)
                     ELSE IF fn = "CONCAT" THEN PlainLiteral(JoinedTexts(args))
                     ELSE Bool(TestOfStrings(fn, args[1].text, args[2].text)))

-----------------------------------------------------------------------------
(* What SPARQL says, a plain literal standing for one of xsd:string.       *)

Simple(t) ==
  IF t.kind = "literal" /\ t.type = XSD("string") THEN PlainLiteral(t.text) ELSE t

LangString == IRI(<<"http:", "rdf#", "langString">>)

IsStringLiteral(t) == t.kind = "literal" /\ t.type = <<>>

Characters(text) == SelectSeq(text, LAMBDA c : c # Continuation)

(* The types of numbers, each of which is promoted to those after it; all  *)
(* that are derived from integer count as integer.                         *)
DerivedTypes == IntegerTypes \cup {XSD("byte")}
Promotion == <<XSD("integer"), XSD("decimal"), XSD("float"), XSD("double")>>

StepOf(t) ==
  IF t.type \in DerivedTypes THEN 1 ELSE CHOOSE i \in 2 .. 4 : Promotion[i] = t.type

NumberOfType(r, step) ==
  IF step = 1 THEN IntegerOf(r) ELSE Literal(FractionText(r), <<>>, Promotion[step])

DefinedTest(fn, t) ==
  IF fn = "ISNUMERIC" THEN Bool(HasNumber(t, DerivedTypes)) ELSE EvaluateTest(fn, t)

DefinedPart(fn, t) ==
  CASE fn = "STR" -> IF t.kind = "blank" THEN Error ELSE PlainLiteral(t.text)
    [] fn = "LANG" -> IF t.kind = "literal" THEN PlainLiteral(t.lang) ELSE Error
    [] fn = "DATATYPE" ->
         CASE t.kind # "literal" -> Error
           [] t.kind = "literal" /\ t.type # <<>> -> IRI(t.type)
           [] t.kind = "literal" /\ t.type = <<>> ->
                IF t.lang = <<>> THEN IRI(XSD("string")) ELSE LangString

DefinedOfString(fn, t) ==
  IF fn = "STRLEN" THEN IntegerOf(Whole(Len(Characters(t.text))))
  ELSE [t EXCEPT !.text = Changed(fn, t.text)]

(* The second text is plain or in the language of the first. *)
SameLanguage(t1, t2) == t2.lang \in {<<>>, t1.lang}

(* The characters whose places are at least the start and before the end. *)
DefinedSubstring(t, v) ==
  LET text == Characters(t.text)
      start == v[1] \div 10
      end == IF Len(v) = 1 THEN Len(text) ELSE start + v[2] \div 10 - 1
  IN  [t EXCEPT !.text = SubSeq(text, IF start < 1 THEN 1 ELSE start,
                                      IF end > Len(text) THEN Len(text) ELSE end)]

(* The language all texts have, if they have one. *)
DefinedConcat(args) ==
  LET langs == {args[i].lang : i \in DOMAIN args}
  IN  Literal(JoinedTexts(args), IF Cardinality(langs) = 1 THEN CHOOSE l \in langs : TRUE ELSE <<>>, <<>>)

DefinedNumber(fn, t) ==
  LET v == Tenths(t.text)
      r == IF fn = "ROUND" THEN RoundUp(v) ELSE Rounded(fn, v)
  IN  NumberOfType(IF fn = "ABS" THEN Signed(FALSE, Size(v), 1) ELSE Signed(v < 0, 10 * Size(r), 1),
                   StepOf(t))

(* Integers are divided as decimals; only they fail to be divided by zero. *)
DefinedArithmetic(op, t1, t2) ==
  LET v2 == Tenths(t2.text)
      common == IF StepOf(t1) < StepOf(t2) THEN StepOf(t2) ELSE StepOf(t1)
      step == IF op = "/" /\ common = 1 THEN 2 ELSE common
  IN  IF op = "/" /\ v2 = 0
      THEN IF step = 2 THEN Error ELSE Literal(<<"INF">>, <<>>, Promotion[step])
      ELSE NumberOfType(Calculated(op, Tenths(t1.text), v2), step)

Arguments(fn, args) ==
  LET isNumber(i) == HasNumber(args[i], DerivedTypes)
      isInteger(i) == isNumber(i) /\ args[i].type \in DerivedTypes
      isString(i) == IsStringLiteral(args[i])
  IN  CASE fn \in TestOfTerm \cup PartOfTerm \cup {"SAMETERM"} -> TRUE
        [] fn \in OneString \cup {"CONCAT"} -> \A i \in DOMAIN args : isString(i)
        [] fn \in Search -> isString(1) /\ isString(2) /\ SameLanguage(args[1], args[2])
        [] fn = "LANGMATCHES" -> \A i \in {1, 2} : isString(i) /\ args[i].lang = <<>>
        [] fn = "SUBSTR" -> isString(1) /\ \A i \in 2 .. Len(args) : isInteger(i)
        [] fn \in OneNumber \cup Arithmetic -> \A i \in DOMAIN args : isNumber(i)

DefinedOn(fn, args) ==
  CASE ~Arguments(fn, args) -> Error
    [] fn \in TestOfTerm -> DefinedTest(fn, args[1])
    [] fn \in PartOfTerm -> DefinedPart(fn, args[1])
    [] fn \in OneString /\ Arguments(fn, args) -> DefinedOfString(fn, args[1])
    [] fn \in TwoStrings /\ Arguments(fn, args) ->
         Bool(TestOfStrings(fn, args[1].text, args[2].text))
    [] fn = "SUBSTR" /\ Arguments(fn, args) ->
         DefinedSubstring(args[1], [i \in 1 .. Len(args) - 1 |-> Tenths(args[i + 1].text)])
    [] fn = "CONCAT" /\ Arguments(fn, args) -> DefinedConcat(args)
    [] fn = "SAMETERM" -> Bool(args[1] = args[2])
    [] fn \in OneNumber /\ Arguments(fn, args) -> DefinedNumber(fn, args[1])
    [] fn \in Arithmetic /\ Arguments(fn, args) -> DefinedArithmetic(fn, args[1], args[2])

DefinedCall(fn, args) ==
  IF Failed(args) \/ ~HasArity(fn, Len(args)) THEN Error
  ELSE DefinedOn(fn, [i \in DOMAIN args |-> Simple(args[i])])

IsPlain(t) == IsStringLiteral(t) /\ t.lang = <<>>
OneByteEach(t) == IsStringLiteral(t) /\ Continuation \notin ToSet(t.text)

(* Where the evaluator follows it: on plain strings, of one byte for each  *)
(* character; in integers and doubles; for SUBSTR, inside the text; and    *)
(* where a type given as xsd:string or not, or derived from integer, does  *)
(* not matter.                                                             *)
Conforms(fn, args) ==
  LET terms == [i \in DOMAIN args |-> Simple(args[i])]
      types == {args[i].type : i \in DOMAIN args}
      plain == \A i \in DOMAIN args : IsPlain(terms[i])
      literals == \A i \in DOMAIN args : args[i].kind = "literal"
      integers == \A i \in 2 .. Len(args) : args[i].kind = "literal" /\ args[i].type = XSD("integer")
                                              /\ IsNumber(args[i])
  IN  CASE Failed(args) \/ ~HasArity(fn, Len(args)) -> fn # "SUBSTR"
        [] fn = "LANG" -> literals
        [] fn = "DATATYPE" -> literals => args[1].lang = <<>>
        [] fn = "ISNUMERIC" -> literals => args[1].type # XSD("byte")
        [] fn = "STRLEN" -> OneByteEach(terms[1])
        [] fn \in {"UCASE", "LCASE", "LANGMATCHES"} -> plain
        [] fn = "CONCAT" -> Arguments(fn, terms) /\ DefinedConcat(terms).lang = <<>>
        [] fn \in Search ->
             /\ \A i \in {1, 2} : IsStringLiteral(terms[i])
             /\ SameLanguage(terms[1], terms[2])
        [] fn = "SUBSTR" ->
             /\ IsPlain(terms[1]) /\ OneByteEach(terms[1]) /\ integers
             /\ Len(args) = 3 => Tenths(args[2].text) > 0 /\ Tenths(args[3].text) >= 0
        [] fn = "SAMETERM" -> terms[1] = terms[2] => args[1] = args[2]
        [] fn \in Rounding -> literals /\ types \subseteq IntegerTypes
        [] fn = "ABS" -> literals /\ types \subseteq {XSD("integer"), XSD("int"), XSD("double")}
        [] fn \in Arithmetic ->
             /\ literals
             /\ \/ XSD("double") \in types
                \/ types \subseteq {XSD("integer"), XSD("int")} /\ fn # "/"
        [] OTHER -> TRUE
=============================================================================
