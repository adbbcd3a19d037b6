-------------------------- MODULE TermLookupProofs --------------------------
(***************************************************************************)
(* The round trip of a term, for every set of terms, every length of an    *)
(* inline string, every width of a number and every table of what strconv, *)
(* fmt and time make of a text.  An encoding is decoded the same way       *)
(* whatever other strings the dictionary holds; what comes out encodes as  *)
(* what went in and stands for the same value.                             *)
(***************************************************************************)
EXTENDS TermLookup, SequenceTheorems, TLAPS

-----------------------------------------------------------------------------
(* Marks in texts.                                                         *)

LEMMA Assoc ==
  ASSUME NEW S, NEW a \in Seq(S), NEW b \in Seq(S), NEW c \in Seq(S)
  PROVE  a \o b \o c = a \o (b \o c)
OBVIOUS

(* For the prover, which finds instances of this form more easily.         *)
LEMMA AnyAssoc == \A S : \A a, b, c \in Seq(S) : a \o b \o c = a \o (b \o c)
OBVIOUS

LEMMA One ==
  ASSUME NEW S, NEW x \in S
  PROVE  <<x>> \in Seq(S) /\ Len(<<x>>) = 1 /\ <<x>>[1] = x
OBVIOUS

LEMMA Assoc4 ==
  ASSUME NEW S, NEW a \in Seq(S), NEW b \in Seq(S), NEW c \in Seq(S), NEW d \in Seq(S)
  PROVE  a \o b \o c \o d = a \o b \o (c \o d)
<1>1. a \o b \in Seq(S)
  BY ConcatProperties
<1>2. \A ab \in Seq(S) : ab \o c \o d = ab \o (c \o d)
  OBVIOUS
<1> QED BY <1>1, <1>2, Zenon

LEMMA Pair ==
  ASSUME NEW S, NEW x \in S, NEW y \in S
  PROVE  <<x, y>> = <<x>> \o <<y>> /\ <<x, y>> \in Seq(S)
<1> DEFINE a == <<x>>
           b == <<y>>
           c == a \o b
           ab == <<x, y>>
<1>1. a \in Seq(S) /\ b \in Seq(S)
  OBVIOUS
<1>2. c \in Seq(S) /\ Len(c) = 2 /\ c[1] = x /\ c[2] = y
  BY <1>1, ConcatProperties
<1>3. ab \in Seq(S) /\ Len(ab) = 2 /\ ab[1] = x /\ ab[2] = y
  OBVIOUS
<1>4. \A i \in 1 .. 2 : ab[i] = c[i]
  BY <1>2, <1>3
<1> HIDE DEF ab, c
<1>5. ab = c
  BY <1>2, <1>3, <1>4, SeqEqual
<1> QED BY <1>3, <1>5 DEF ab, c

(* A mark that is in neither of two texts is in none of both.              *)
LEMMA NotInConcat ==
  ASSUME NEW S, NEW a \in Seq(S), NEW b \in Seq(S), NEW m, ~Contains(a, m), ~Contains(b, m)
  PROVE  ~Contains(a \o b, m)
<1> DEFINE all == a \o b
<1>1. /\ Len(all) = Len(a) + Len(b) /\ Len(a) \in Nat /\ Len(b) \in Nat
      /\ \A i \in 1 .. Len(a) + Len(b) : all[i] = IF i <= Len(a) THEN a[i] ELSE b[i - Len(a)]
  BY ConcatProperties
<1> HIDE DEF all
<1>2. ASSUME NEW i \in 1 .. Len(all) PROVE all[i] # m
  <2>1. CASE i <= Len(a)
    <3>1. i \in 1 .. Len(a) /\ all[i] = a[i]
      BY <1>1, <2>1
    <3> QED BY <3>1 DEF Contains
  <2>2. CASE ~(i <= Len(a))
    <3>1. i - Len(a) \in 1 .. Len(b) /\ all[i] = b[i - Len(a)]
      BY <1>1, <2>2
    <3> QED BY <3>1 DEF Contains
  <2> QED BY <2>1, <2>2
<1>3. ~Contains(all, m)
  BY <1>2 DEF Contains
<1> QED BY <1>3 DEF all

LEMMA NotInOne ==
  ASSUME NEW S, NEW x \in S, NEW m, x # m
  PROVE  ~Contains(<<x>>, m)
BY DEF Contains

(* A mark splits a text into what is before it and what is behind it.      *)
LEMMA Split ==
  ASSUME NEW S, NEW u \in Seq(S), NEW v \in Seq(S), NEW m \in S,
         NEW text, text = u \o <<m>> \o v, NEW k, k = Len(u) + 1
  PROVE  /\ text \in Seq(S) /\ Len(u) \in Nat /\ Len(v) \in Nat
         /\ Len(text) = k + Len(v) /\ k \in 1 .. Len(text) /\ text[k] = m
         /\ \A i \in 1 .. Len(u) : text[i] = u[i]
         /\ \A i \in 1 .. Len(v) : text[k + i] = v[i]
         /\ SubSeq(text, 1, k - 1) = u
         /\ SubSeq(text, k + 1, Len(text)) = v
<1>1. /\ text \in Seq(S) /\ Len(text) = Len(u) + 1 + Len(v) /\ Len(u) \in Nat /\ Len(v) \in Nat
      /\ \A i \in 1 .. Len(u) : text[i] = u[i]
      /\ text[k] = m
      /\ \A i \in 1 .. Len(v) : text[k + i] = v[i]
  OBVIOUS
<1>2. SubSeq(text, 1, k - 1) = u
  <2> DEFINE front == SubSeq(text, 1, k - 1)
  <2>1. \A i \in 1 .. k - 1 : text[i] \in S
    BY <1>1
  <2>2. front \in Seq(S) /\ Len(front) = Len(u) /\ \A i \in 1 .. Len(u) : front[i] = u[i]
    BY <1>1, <2>1, SubSeqProperties
  <2> HIDE DEF front
  <2> QED BY <2>2, SeqEqual
<1>3. SubSeq(text, k + 1, Len(text)) = v
  <2> DEFINE back == SubSeq(text, k + 1, Len(text))
  <2>1. \A i \in k + 1 .. Len(text) : text[i] \in S
    BY <1>1
  <2>2. back \in Seq(S) /\ Len(back) = Len(v)
    BY <1>1, <2>1, SubSeqProperties
  <2>3. ASSUME NEW i \in 1 .. Len(v) PROVE back[i] = v[i]
    <3>1. back[i] = text[k + 1 + i - 1] /\ k + 1 + i - 1 = k + i
      BY <1>1, <2>1, SubSeqProperties
    <3>2. text[k + i] = v[i]
      BY <1>1
    <3> HIDE DEF back
    <3> QED BY <3>1, <3>2
  <2>4. \A i \in 1 .. Len(back) : back[i] = v[i]
    BY <2>2, <2>3
  <2> HIDE DEF back
  <2>5. back = v
    BY <2>2, <2>4, SeqEqual
  <2> QED BY <2>5 DEF back
<1> QED BY <1>1, <1>2, <1>3

(* A mark that is not before its place is found there from the front.      *)
LEMMA FirstFound ==
  ASSUME NEW S, NEW text \in Seq(S), NEW m \in S, NEW k \in 1 .. Len(text), text[k] = m,
         \A i \in 1 .. k - 1 : text[i] # m
  PROVE  UpTo(text, m) = SubSeq(text, 1, k - 1)
<1> DEFINE I == {i \in 1 .. Len(text) : text[i] = m}
<1>1. k \in I /\ \A i \in I : k <= i
  OBVIOUS
<1>2. \A n \in I : (\A i \in I : n =< i) => n = k
  BY <1>1
<1>3. Min(I) = k
  BY <1>1, <1>2 DEF Min
<1>4. SelectInSeq(text, LAMBDA x : x = m) = k
  BY <1>1, <1>3 DEF SelectInSeq
<1> QED BY <1>4 DEF UpTo

LEMMA LastFound ==
  ASSUME NEW S, NEW text \in Seq(S), NEW m \in S, NEW k \in 1 .. Len(text), text[k] = m,
         \A i \in k + 1 .. Len(text) : text[i] # m
  PROVE  LastMark(text, m) = k
<1> DEFINE I == {i \in 1 .. Len(text) : text[i] = m}
<1>1. k \in I /\ \A i \in I : k >= i
  OBVIOUS
<1>2. \A n \in I : (\A i \in I : n >= i) => n = k
  BY <1>1
<1>3. Max(I) = k
  BY <1>1, <1>2 DEF Max
<1> QED BY <1>1, <1>3 DEF LastMark, SelectLastInSeq

(* The last mark is found whatever the text before it holds, the first     *)
(* whatever is behind it.                                                  *)
LEMMA SplitAtLast ==
  ASSUME NEW S, NEW u \in Seq(S), NEW v \in Seq(S), NEW m \in S, ~Contains(v, m)
  PROVE  Before(u \o <<m>> \o v, m) = u /\ After(u \o <<m>> \o v, m) = v
<1> DEFINE text == u \o <<m>> \o v
<1> DEFINE k == Len(u) + 1
<1>1. /\ text \in Seq(S) /\ Len(u) \in Nat /\ Len(v) \in Nat
      /\ Len(text) = k + Len(v) /\ k \in 1 .. Len(text) /\ text[k] = m
      /\ \A i \in 1 .. Len(v) : text[k + i] = v[i]
      /\ SubSeq(text, 1, k - 1) = u
      /\ SubSeq(text, k + 1, Len(text)) = v
  BY Split
<1> HIDE DEF text
<1>3. ASSUME NEW i \in k + 1 .. Len(text) PROVE text[i] # m
  <2>1. i - k \in 1 .. Len(v) /\ text[k + (i - k)] = v[i - k] /\ k + (i - k) = i
    BY <1>1
  <2> QED BY <2>1 DEF Contains
<1> HIDE DEF k
<1>4. LastMark(text, m) = k
  BY <1>1, <1>3, LastFound
<1> QED BY <1>1, <1>4 DEF Before, After, text

LEMMA SplitAtFirst ==
  ASSUME NEW S, NEW u \in Seq(S), NEW v \in Seq(S), NEW m \in S, ~Contains(u, m)
  PROVE  /\ UpTo(u \o <<m>> \o v, m) = u
         /\ Contains(u \o <<m>> \o v, m)
         /\ SubSeq(u \o <<m>> \o v, Len(u) + 2, Len(u \o <<m>> \o v)) = v
<1> DEFINE text == u \o <<m>> \o v
<1> DEFINE k == Len(u) + 1
<1>1. /\ text \in Seq(S) /\ k \in 1 .. Len(text) /\ text[k] = m
      /\ \A i \in 1 .. Len(u) : text[i] = u[i]
      /\ SubSeq(text, 1, k - 1) = u
      /\ SubSeq(text, k + 1, Len(text)) = v
      /\ Len(u) \in Nat
  BY Split
<1> HIDE DEF text
<1>2. k + 1 = Len(u) + 2 /\ 1 .. k - 1 = 1 .. Len(u)
  BY <1>1
<1>3. \A i \in 1 .. k - 1 : text[i] # m
  BY <1>1, <1>2 DEF Contains
<1> HIDE DEF k
<1>4. UpTo(text, m) = SubSeq(text, 1, k - 1)
  BY <1>1, <1>3, FirstFound
<1> QED BY <1>1, <1>2, <1>4 DEF Contains, text

(* What an inline string is padded with is cut off again.                  *)
LEMMA PaddingCut ==
  ASSUME NEW S, NEW text \in Seq(S), NEW nul \in S, ~Contains(text, nul),
         NEW max \in Nat, Len(text) <= max,
         NEW data, data = [i \in 1 .. max |-> IF i <= Len(text) THEN text[i] ELSE nul]
  PROVE  (IF Contains(data, nul) THEN UpTo(data, nul) ELSE data) = text
<1>1. /\ data \in Seq(S) /\ Len(data) = max
      /\ \A i \in 1 .. max : data[i] = IF i <= Len(text) THEN text[i] ELSE nul
  <2>1. data \in [1 .. max -> S]
    OBVIOUS
  <2> QED BY <2>1
<1>2. CASE Len(text) = max
  <2>1. \A i \in 1 .. Len(data) : data[i] = text[i]
    BY <1>1, <1>2
  <2>2. data = text
    BY <1>1, <1>2, <2>1, SeqEqual
  <2> QED BY <2>2
<1>3. CASE Len(text) < max
  <2> DEFINE k == Len(text) + 1
  <2>1. k \in 1 .. Len(data) /\ data[k] = nul
    BY <1>1, <1>3
  <2>2. \A i \in 1 .. k - 1 : data[i] # nul
    BY <1>1, <1>3 DEF Contains
  <2>3. UpTo(data, nul) = SubSeq(data, 1, k - 1)
    BY <1>1, <2>1, <2>2, FirstFound
  <2>4. Contains(data, nul)
    BY <2>1 DEF Contains
  <2>5. UpTo(data, nul) = SubSeq(data, 1, Len(text))
    <3>1. k - 1 = Len(text)
      OBVIOUS
    <3> HIDE DEF k
    <3> QED BY <2>3, <3>1
  <2> DEFINE front == SubSeq(data, 1, Len(text))
  <2>6. \A i \in 1 .. Len(text) : data[i] \in S
    BY <1>1, <1>3
  <2>7. front \in Seq(S) /\ Len(front) = Len(text) /\ \A i \in 1 .. Len(text) : front[i] = data[i]
    <3>1. Len(text) \in Nat /\ Len(text) - 1 + 1 = Len(text)
      OBVIOUS
    <3>2. /\ front \in Seq(S)
          /\ Len(front) = IF 1 <= Len(text) THEN Len(text) - 1 + 1 ELSE 0
          /\ \A i \in 1 .. Len(text) - 1 + 1 : front[i] = data[1 + i - 1]
      BY <3>1, <2>6, SubSeqProperties
    <3> HIDE DEF front
    <3>3. ASSUME NEW i \in 1 .. Len(text)
          PROVE  front[i] = data[i]
      <4>1. 1 + i - 1 = i
        OBVIOUS
      <4> QED BY <3>1, <3>2, <4>1
    <3> QED BY <3>1, <3>2, <3>3 DEF front
  <2>8. \A i \in 1 .. Len(front) : front[i] = text[i]
    BY <1>1, <1>3, <2>7
  <2> HIDE DEF front
  <2>9. front = text
    BY <2>7, <2>8, SeqEqual
  <2> QED BY <2>4, <2>5, <2>9 DEF front
<1> QED BY <1>2, <1>3

LEMMA InlineRoundTrip ==
  ASSUME NEW text \in Text, Len(text) <= MaxInlineStringSize, ~Contains(text, Nul)
  PROVE  UntilNul(Bytes(text)) = text
<1>1. \A S, nul :
        text \in Seq(S) /\ nul \in S /\ ~Contains(text, nul) =>
          \A data : data = [i \in 1 .. MaxInlineStringSize |-> IF i <= Len(text) THEN text[i] ELSE nul] =>
            (IF Contains(data, nul) THEN UpTo(data, nul) ELSE data) = text
  BY PaddingCut, SizeAssumption
<1>2. text \in Seq(Fragment) /\ Nul \in Fragment
  BY FragmentAssumption DEF Text
<1>3. \A data : data = Bytes(text) =>
        (IF Contains(data, Nul) THEN UpTo(data, Nul) ELSE data) = text
  BY <1>1, <1>2, Zenon DEF Bytes
<1> DEFINE data == Bytes(text)
<1>4. (IF Contains(data, Nul) THEN UpTo(data, Nul) ELSE data) = text
  BY <1>3, Zenon
<1> HIDE DEF data
<1>5. UntilNul(data) = text
  BY <1>4 DEF UntilNul
<1> QED BY <1>5 DEF data

(* The string behind the mark of its hash.                                 *)
LEMMA HashOfString ==
  ASSUME NEW str \in Text
  PROVE  Hash128(str) # NoText /\ Hash128(str)[1] = HashMark /\ Tail(Hash128(str)) = str
<1>1. ASSUME NEW S, NEW u \in Seq(S), NEW m \in S
      PROVE  <<m>> \o u # <<>> /\ (<<m>> \o u)[1] = m /\ Tail(<<m>> \o u) = u
  OBVIOUS
<1>2. str \in Seq(Fragment) /\ HashMark \in Fragment
  BY FragmentAssumption DEF Text
<1> QED BY <1>1, <1>2 DEF Hash128, NoText

-----------------------------------------------------------------------------
(* The strings of the dictionary.                                          *)

LEMMA LangSplit ==
  ASSUME NEW S, NEW text \in Seq(S), NEW lang \in Seq(S), NEW rest \in Seq(S), NEW m \in S,
         ~Contains(lang, m), ~Contains(rest, m)
  PROVE  /\ text \o <<m>> \o lang \o rest \in Seq(S)
         /\ Before(text \o <<m>> \o lang \o rest, m) = text
         /\ After(text \o <<m>> \o lang \o rest, m) = lang \o rest
<1> DEFINE v == lang \o rest
           w == <<m>>
<1>1. v \in Seq(S) /\ ~Contains(v, m)
  BY ConcatProperties, NotInConcat
<1>2. w \in Seq(S)
  BY One
<1> HIDE DEF w
<1>3. text \o w \o lang \o rest = text \o w \o v
  BY <1>2, Assoc4, SMTT(60)
<1>4. text \o w \o v \in Seq(S)
  BY <1>1, <1>2, ConcatProperties
<1> HIDE DEF v
<1>5. Before(text \o w \o v, m) = text /\ After(text \o w \o v, m) = v
  BY <1>1, SplitAtLast DEF w
<1> QED BY <1>3, <1>4, <1>5 DEF v, w

(* The direction behind a language, if there is one.                       *)
LEMMA DirSplit ==
  ASSUME NEW S, NEW lang \in Seq(S), NEW dir \in Seq(S), NEW m \in S, ~Contains(lang, m)
  PROVE  /\ UpTo(lang \o (<<m>> \o dir), m) = lang
         /\ Contains(lang \o (<<m>> \o dir), m)
         /\ SubSeq(lang \o (<<m>> \o dir), Len(lang) + 2, Len(lang \o (<<m>> \o dir))) = dir
<1> DEFINE w == <<m>>
<1>1. w \in Seq(S)
  BY One
<1>2. /\ UpTo(lang \o w \o dir, m) = lang
      /\ Contains(lang \o w \o dir, m)
      /\ SubSeq(lang \o w \o dir, Len(lang) + 2, Len(lang \o w \o dir)) = dir
  BY SplitAtFirst
<1> HIDE DEF w
<1>3. lang \o w \o dir = lang \o (w \o dir)
  BY <1>1, Assoc, SMTT(60)
<1> QED BY <1>2, <1>3 DEF w

LEMMA TermTyped ==
  ASSUME NEW term \in RDFTerm
  PROVE  /\ term \in [kind : {"iri", "blank", "literal"}, text : Text, lang : Text, dir : Text,
                      type : Fragment \cup {NoType}]
         /\ term.kind # "literal" => term.lang = NoText /\ term.type = NoType
         /\ term.type \notin {LangMark, TypeMark}
         /\ term.type # NoType => term.lang = NoText
         /\ term.lang = NoText => term.dir = NoText
         /\ \A i \in 1 .. Len(term.text) : term.text[i] # HashMark
BY RDFTermAssumption

LEMMA Marks ==
  /\ LangMark \in Fragment /\ DirMark \in Fragment /\ TypeMark \in Fragment
  /\ HashMark \in Fragment /\ Nul \in Fragment
  /\ DirMark # LangMark /\ HashMark # Nul
<1>1. DirMark # LangMark /\ HashMark # Nul
  BY DEF DirMark, LangMark, HashMark, Nul
<1> QED BY <1>1, FragmentAssumption

LEMMA LangText ==
  ASSUME NEW lit, lit.text \in Text, lit.lang \in Text, lit.dir \in Text
  PROVE  LangString(lit) \in Text
<1> DEFINE at == <<LangMark>>
           w == <<DirMark>>
           rest == IF lit.dir = NoText THEN NoText ELSE w \o lit.dir
<1>1. at \in Seq(Fragment) /\ w \in Seq(Fragment) /\ NoText \in Seq(Fragment)
  BY Marks, One DEF NoText
<1> HIDE DEF at, w
<1>2. rest \in Seq(Fragment)
  BY <1>1, ConcatProperties DEF Text
<1> HIDE DEF rest
<1>3. lit.text \o at \in Seq(Fragment)
  BY <1>1, ConcatProperties DEF Text
<1>4. lit.text \o at \o lit.lang \in Seq(Fragment)
  BY <1>3, ConcatProperties DEF Text
<1>5. lit.text \o at \o lit.lang \o rest \in Seq(Fragment)
  BY <1>2, <1>4, ConcatProperties
<1> QED BY <1>5 DEF LangString, Text, at, w, rest

(* A tagged string comes back, with its language and its direction.        *)
LEMMA LangDecoded ==
  ASSUME NEW lit, lit.text \in Text, lit.lang \in Text, lit.dir \in Text,
         ~Contains(lit.lang, LangMark), ~Contains(lit.lang, DirMark), ~Contains(lit.dir, LangMark)
  PROVE  DecodeLang(LangString(lit)) = LangLiteral(lit.text, lit.lang, lit.dir)
<1> DEFINE text == lit.text
           lang == lit.lang
           dir == lit.dir
           w == <<DirMark>>
           rest == IF dir = NoText THEN NoText ELSE w \o dir
           str == LangString(lit)
<1>1. /\ text \in Seq(Fragment) /\ lang \in Seq(Fragment) /\ dir \in Seq(Fragment)
      /\ ~Contains(lang, LangMark) /\ ~Contains(lang, DirMark) /\ ~Contains(dir, LangMark)
  BY DEF Text
<1>2. str = text \o <<LangMark>> \o lang \o rest
  BY DEF LangString
<1>3. w \in Seq(Fragment) /\ ~Contains(w, LangMark)
  BY Marks, One, NotInOne
<1> HIDE DEF text, lang, dir, str, w
<1>4. rest \in Seq(Fragment) /\ ~Contains(rest, LangMark)
  <2>1. w \o dir \in Seq(Fragment) /\ ~Contains(w \o dir, LangMark)
    BY <1>1, <1>3, ConcatProperties, NotInConcat
  <2>2. NoText \in Seq(Fragment) /\ Len(NoText) = 0
    BY EmptySeq DEF NoText
  <2>3. ~Contains(NoText, LangMark)
    BY <2>2 DEF Contains
  <2> QED BY <2>1, <2>2, <2>3
<1>5. dir = NoText => lang \o rest = lang
  BY <1>1, ConcatEmptySeq DEF NoText
<1>6. dir # NoText => lang \o rest = lang \o (<<DirMark>> \o dir)
  BY DEF w
<1> HIDE DEF rest
<1>7. Before(str, LangMark) = text /\ After(str, LangMark) = lang \o rest
  BY <1>1, <1>2, <1>4, Marks, LangSplit, SMTT(60)
<1>8. DecodeLang(str) = LangLiteral(text, lang, dir)
  <2> DEFINE langDir == lang \o rest
  <2>1. CASE dir = NoText
    BY <1>1, <1>5, <1>7, <2>1 DEF DecodeLang
  <2>2. CASE dir # NoText
    <3>1. langDir = lang \o (<<DirMark>> \o dir)
      BY <1>6, <2>2
    <3>2. /\ UpTo(langDir, DirMark) = lang
          /\ Contains(langDir, DirMark)
          /\ SubSeq(langDir, Len(lang) + 2, Len(langDir)) = dir
      <4> HIDE DEF langDir
      <4> QED BY <1>1, <3>1, Marks, DirSplit, SMTT(60)
    <3> QED BY <1>7, <3>2 DEF DecodeLang
  <2> QED BY <2>1, <2>2
<1> QED BY <1>8 DEF text, lang, dir, str

LEMMA LangRoundTrip ==
  ASSUME NEW term \in RDFTerm, term.kind = "literal", term.type = NoType,
         ~Contains(term.lang, LangMark), ~Contains(term.lang, DirMark),
         ~Contains(term.dir, LangMark)
  PROVE  DecodeLang(LangString(term)) = term
<1>1. DecodeLang(LangString(term)) = LangLiteral(term.text, term.lang, term.dir)
  BY LangDecoded, TermTyped
<1>2. term = LangLiteral(term.text, term.lang, term.dir)
  BY TermTyped DEF LangLiteral
<1> QED BY <1>1, <1>2

(* A literal of another datatype comes back with it.                       *)
LEMMA TypeSplit ==
  ASSUME NEW S, NEW text \in Seq(S), NEW m \in S, NEW type \in S, type # m
  PROVE  /\ text \o <<m, type>> \in Seq(S)
         /\ Before(text \o <<m, type>>, m) = text
         /\ After(text \o <<m, type>>, m)[1] = type
<1> DEFINE v == <<type>>
           w == <<m>>
           both == <<m, type>>
<1>1. v \in Seq(S) /\ v[1] = type /\ w \in Seq(S)
  BY One
<1>2. ~Contains(v, m)
  BY NotInOne
<1>3. both = w \o v /\ both \in Seq(S)
  BY Pair
<1> HIDE DEF v, w, both
<1>4. text \o both = text \o w \o v
  <2>1. text \o w \o v = text \o (w \o v)
    BY <1>1, AnyAssoc, SMTT(60)
  <2>2. both = w \o v
    BY <1>3
  <2> QED BY <2>1, <2>2
<1>5. text \o both \in Seq(S)
  BY <1>3, ConcatProperties
<1>6. Before(text \o w \o v, m) = text /\ After(text \o w \o v, m) = v
  BY <1>1, <1>2, SplitAtLast DEF w
<1> QED BY <1>1, <1>4, <1>5, <1>6 DEF both

LEMMA TypedRoundTrip ==
  ASSUME NEW term \in RDFTerm, term.type # NoType
  PROVE  /\ TypedString(term) \in Text
         /\ Before(TypedString(term), TypeMark) = term.text
         /\ After(TypedString(term), TypeMark)[1] = term.type
<1>1. term.text \in Seq(Fragment) /\ TypeMark \in Fragment /\ term.type \in Fragment /\ term.type # TypeMark
  BY TermTyped, Marks DEF Text
<1> QED BY <1>1, TypeSplit DEF TypedString, Text

-----------------------------------------------------------------------------
(* What an encoding is looked up as.                                       *)

LEMMA FoundHashed ==
  ASSUME NEW type \in LookedUp, NEW str \in Text, NEW table, table \subseteq Text
  PROVE  /\ Found(Hashed(type, str), table) <=> str \in table
         /\ Hashed(type, str).type = type
         /\ Tail(Hashed(type, str).data) = str
<1>1. /\ Hashed(type, str).type = type
      /\ Hashed(type, str).data = Hash128(str)
  BY DEF Hashed, Encoded
<1>2. \A s \in table : Hash128(s) = Hash128(str) => s = str
  BY HashOfString
<1> QED BY <1>1, <1>2, HashOfString DEF Found

LEMMA InlineNotFound ==
  ASSUME NEW e, e.data = NoText \/ e.data[1] # HashMark, NEW table, table \subseteq Text
  PROVE  ~Found(e, table)
BY HashOfString DEF Found

LEMMA StringsOfHashed ==
  ASSUME NEW term, NEW type, NEW str \in Text, EncodeTerm(term) = Hashed(type, str)
  PROVE  StringsOf(term) = {str}
<1>1. Hashed(type, str).data = Hash128(str)
  BY DEF Hashed, Encoded
<1> QED BY <1>1, HashOfString DEF StringsOf

LEMMA StringsOfInline ==
  ASSUME NEW term, EncodeTerm(term).data = NoText \/ EncodeTerm(term).data[1] # HashMark
  PROVE  StringsOf(term) = {}
BY DEF StringsOf

(* The first character of an inline string is never the mark of a hash.    *)
LEMMA InlineUnmarked ==
  ASSUME NEW term \in RDFTerm
  PROVE  Bytes(term.text)[1] # HashMark
<1>1. 1 \in 1 .. MaxInlineStringSize
  BY SizeAssumption
<1>2. Bytes(term.text)[1] = IF 1 <= Len(term.text) THEN term.text[1] ELSE Nul
  BY <1>1 DEF Bytes
<1>3. Len(term.text) \in Nat
  BY TermTyped DEF Text
<1>4. 1 <= Len(term.text) => term.text[1] # HashMark
  BY <1>3, TermTyped
<1> QED BY <1>2, <1>4, Marks

(* A literal without an encoding of its own.                               *)
LEMMA LiteralShape ==
  ASSUME NEW term \in RDFTerm, term.kind = "literal", ~WellFormed(term)
  PROVE  \/ /\ term.type # NoType
            /\ EncodeTerm(term) = Hashed("typed", TypedString(term))
            /\ TypedString(term) \in Text
         \/ /\ term.type = NoType /\ term.lang # NoText
            /\ EncodeTerm(term) = Hashed("lang", LangString(term))
            /\ LangString(term) \in Text
         \/ /\ term.type = NoType /\ term.lang = NoText
            /\ Len(term.text) <= MaxInlineStringSize
            /\ EncodeTerm(term) = Encoded("string", Bytes(term.text), 0)
         \/ /\ term.type = NoType /\ term.lang = NoText
            /\ EncodeTerm(term) = Hashed("string", term.text)
<1>1. EncodeTerm(term) = EncodeLiteral(term)
  BY DEF EncodeTerm
<1>2. CASE term.type # NoType
  BY <1>1, <1>2, TypedRoundTrip DEF EncodeLiteral
<1>3. CASE term.type = NoType /\ term.lang # NoText
  <2>1. LangString(term) \in Text
    BY LangText, TermTyped
  <2> QED BY <1>1, <1>3, <2>1 DEF EncodeLiteral
<1>4. CASE term.type = NoType /\ term.lang = NoText
  BY <1>1, <1>4 DEF EncodeLiteral
<1> QED BY <1>2, <1>3, <1>4

LEMMA EncodingShape ==
  ASSUME NEW term \in RDFTerm
  PROVE  \/ \E type \in LookedUp, str \in Text : EncodeTerm(term) = Hashed(type, str)
         \/ EncodeTerm(term).data = NoText
         \/ EncodeTerm(term).data[1] # HashMark
<1> DEFINE e == EncodeTerm(term)
<1>0. /\ "iri" \in LookedUp /\ "blank" \in LookedUp /\ "string" \in LookedUp
      /\ "lang" \in LookedUp /\ "typed" \in LookedUp
  BY DEF LookedUp
<1>1. term.kind \in {"iri", "blank", "literal"} /\ term.text \in Text
  BY TermTyped
<1>2. CASE term.kind = "iri"
  <2>1. e = Hashed("iri", term.text)
    BY <1>2 DEF EncodeTerm
  <2> QED BY <1>0, <1>1, <2>1
<1>3. CASE term.kind = "blank"
  <2>1. CASE NumericLabel(term.text)
    BY <1>3, <2>1 DEF EncodeTerm, Number, Encoded
  <2>2. CASE ~NumericLabel(term.text)
    <3>1. e = Hashed("blank", term.text)
      BY <1>3, <2>2 DEF EncodeTerm
    <3> QED BY <1>0, <1>1, <3>1
  <2> QED BY <2>1, <2>2
<1>4. CASE term.kind = "literal" /\ WellFormed(term)
  <2>1. term.type # NoType
    BY <1>4 DEF WellFormed, NoType
  <2>2. e = EncodeValue(term)
    BY <1>4, <2>1 DEF EncodeTerm, EncodeLiteral
  <2> QED BY <2>2 DEF EncodeValue, Number, Encoded
<1>5. CASE term.kind = "literal" /\ ~WellFormed(term)
  <2>1. CASE e = Encoded("string", Bytes(term.text), 0)
    BY <2>1, InlineUnmarked DEF Encoded
  <2>2. CASE e # Encoded("string", Bytes(term.text), 0)
    <3>1. \E type \in LookedUp, str \in Text : e = Hashed(type, str)
      BY <1>0, <1>1, <1>5, <2>2, LiteralShape
    <3> QED BY <3>1
  <2> QED BY <2>1, <2>2
<1> QED BY <1>1, <1>2, <1>3, <1>4, <1>5

LEMMA StringsTyped ==
  ASSUME NEW term \in RDFTerm
  PROVE  StringsOf(term) \subseteq Text
<1>1. CASE \E type \in LookedUp, str \in Text : EncodeTerm(term) = Hashed(type, str)
  BY <1>1, StringsOfHashed
<1>2. CASE \/ EncodeTerm(term).data = NoText
           \/ EncodeTerm(term).data[1] # HashMark
  BY <1>2, StringsOfInline
<1> QED BY <1>1, <1>2, EncodingShape

(* Whatever else the dictionary holds: strings of other terms are not      *)
(* taken for the term's own.                                               *)
LEMMA DecodedAlone ==
  ASSUME NEW term \in RDFTerm, NEW table, table \subseteq Text, StringsOf(term) \subseteq table
  PROVE  DecodeStored(EncodeTerm(term), table) = RoundTrip(term)
<1> DEFINE e == EncodeTerm(term)
<1>1. Found(e, table) <=> Found(e, StringsOf(term))
  <2>1. CASE \E type \in LookedUp, str \in Text : e = Hashed(type, str)
    <3>1. PICK type \in LookedUp, str \in Text : e = Hashed(type, str)
      BY <2>1
    <3>2. StringsOf(term) = {str}
      BY <3>1, StringsOfHashed
    <3>3. Found(e, table) <=> str \in table
      BY <3>1, FoundHashed
    <3>4. Found(e, StringsOf(term)) <=> str \in StringsOf(term)
      BY <3>1, <3>2, FoundHashed
    <3> QED BY <3>2, <3>3, <3>4
  <2>2. CASE e.data = NoText \/ e.data[1] # HashMark
    <3>1. ~Found(e, table)
      BY <2>2, InlineNotFound
    <3>2. ~Found(e, StringsOf(term))
      BY <2>2, StringsTyped, InlineNotFound
    <3> QED BY <3>1, <3>2
  <2> QED BY <2>1, <2>2, EncodingShape
<1> HIDE DEF e
<1>2. DecodeStored(e, table) = DecodeStored(e, StringsOf(term))
  BY <1>1 DEF DecodeStored
<1> QED BY <1>2 DEF RoundTrip, e

(* A hashed term is read as its string says.                               *)
LEMMA HashedRoundTrip ==
  ASSUME NEW term, NEW type \in LookedUp, NEW str \in Text, EncodeTerm(term) = Hashed(type, str)
  PROVE  RoundTrip(term) =
           CASE type = "iri" -> IRITerm(str)
             [] type = "blank" -> BlankTerm(str)
             [] type = "string" -> PlainLiteral(str)
             [] type = "lang" -> DecodeLang(str)
             [] type = "typed" -> TypedLiteral(Before(str, TypeMark), After(str, TypeMark)[1])
<1> DEFINE e == EncodeTerm(term)
<1>1. StringsOf(term) = {str}
  BY StringsOfHashed
<1>2. Found(e, StringsOf(term)) /\ e.type = type /\ Tail(e.data) = str
  BY <1>1, FoundHashed
<1> HIDE DEF e
<1>3. DecodeStored(e, StringsOf(term)) =
           CASE type = "iri" -> IRITerm(str)
             [] type = "blank" -> BlankTerm(str)
             [] type = "string" -> PlainLiteral(str)
             [] type = "lang" -> DecodeLang(str)
             [] type = "typed" -> TypedLiteral(Before(str, TypeMark), After(str, TypeMark)[1])
  BY <1>2 DEF DecodeStored, LookedUp
<1> QED BY <1>3 DEF RoundTrip, e

-----------------------------------------------------------------------------
(* The way there and back.                                                 *)

HasValue(term) == term.kind = "literal" /\ WellFormed(term)

(* A term that stands for itself comes back as it was.                     *)
LEMMA BlankRoundTrip ==
  ASSUME NEW term \in RDFTerm, term.kind = "blank", Faithful(term)
  PROVE  RoundTrip(term) = term
<1>1. term = BlankTerm(term.text)
  BY TermTyped DEF BlankTerm, NoType
<1>2. CASE NumericLabel(term.text)
  <2> DEFINE e == EncodeTerm(term)
  <2>1. e = Number("blank", IntOf[term.text])
    BY <1>2 DEF EncodeTerm
  <2>2. e.type = "blank" /\ e.data = NoText /\ e.num = IntOf[term.text]
    BY <2>1 DEF Number, Encoded
  <2>3. StringsOf(term) = {} /\ ~Found(e, StringsOf(term))
    BY <2>2, StringsOfInline, InlineNotFound
  <2>4. IntText[IntOf[term.text]] = term.text
    BY <1>2 DEF Faithful
  <2> HIDE DEF e
  <2>5. DecodeStored(e, StringsOf(term)) = BlankTerm(IntText[e.num])
    BY <2>2, <2>3 DEF DecodeStored, LookedUp
  <2> QED BY <1>1, <2>2, <2>4, <2>5 DEF RoundTrip, e
<1>3. CASE ~NumericLabel(term.text)
  <2>1. EncodeTerm(term) = Hashed("blank", term.text)
    BY <1>3 DEF EncodeTerm
  <2>2. "blank" \in LookedUp /\ term.text \in Text
    BY TermTyped DEF LookedUp
  <2>3. RoundTrip(term) = BlankTerm(term.text)
    BY <2>1, <2>2, HashedRoundTrip
  <2> QED BY <1>1, <2>3
<1> QED BY <1>2, <1>3

LEMMA LiteralRoundTrip ==
  ASSUME NEW term \in RDFTerm, term.kind = "literal", ~WellFormed(term), Faithful(term)
  PROVE  RoundTrip(term) = term
<1>0. /\ term.lang = NoText => ~Contains(term.text, Nul)
      /\ ~Contains(term.lang, LangMark) /\ ~Contains(term.lang, DirMark)
      /\ ~Contains(term.dir, LangMark)
  BY DEF Faithful
<1>1. /\ "string" \in LookedUp /\ "lang" \in LookedUp /\ "typed" \in LookedUp
      /\ term.text \in Text
  BY TermTyped DEF LookedUp
<1>2. CASE /\ term.type # NoType
           /\ EncodeTerm(term) = Hashed("typed", TypedString(term))
           /\ TypedString(term) \in Text
  <2>1. RoundTrip(term) = TypedLiteral(term.text, term.type)
    BY <1>1, <1>2, HashedRoundTrip, TypedRoundTrip
  <2>2. term = TypedLiteral(term.text, term.type)
    BY <1>2, TermTyped DEF TypedLiteral
  <2> QED BY <2>1, <2>2
<1>3. CASE /\ term.type = NoType /\ term.lang # NoText
           /\ EncodeTerm(term) = Hashed("lang", LangString(term))
           /\ LangString(term) \in Text
  <2>1. RoundTrip(term) = DecodeLang(LangString(term))
    BY <1>1, <1>3, HashedRoundTrip
  <2> QED BY <1>0, <1>3, <2>1, LangRoundTrip
<1>4. ASSUME term.type = NoType, term.lang = NoText
      PROVE  term = PlainLiteral(term.text)
  BY <1>4, TermTyped DEF PlainLiteral, TypedLiteral
<1>5. CASE /\ term.type = NoType /\ term.lang = NoText
           /\ Len(term.text) <= MaxInlineStringSize
           /\ EncodeTerm(term) = Encoded("string", Bytes(term.text), 0)
  <2> DEFINE e == EncodeTerm(term)
  <2>1. e.type = "string" /\ e.data = Bytes(term.text)
    BY <1>5 DEF Encoded
  <2>2. StringsOf(term) = {} /\ ~Found(e, StringsOf(term))
    BY <2>1, InlineUnmarked, StringsOfInline, InlineNotFound
  <2> HIDE DEF e
  <2>3. DecodeStored(e, StringsOf(term)) = PlainLiteral(UntilNul(Bytes(term.text)))
    BY <2>1, <2>2 DEF DecodeStored, LookedUp
  <2>4. UntilNul(Bytes(term.text)) = term.text
    BY <1>0, <1>1, <1>5, InlineRoundTrip
  <2> QED BY <1>4, <1>5, <2>3, <2>4 DEF RoundTrip, e
<1>6. CASE /\ term.type = NoType /\ term.lang = NoText
           /\ EncodeTerm(term) = Hashed("string", term.text)
  BY <1>1, <1>4, <1>6, HashedRoundTrip
<1> QED BY <1>2, <1>3, <1>5, <1>6, LiteralShape

LEMMA TermRoundTrip ==
  ASSUME NEW term \in RDFTerm, Faithful(term), ~HasValue(term)
  PROVE  RoundTrip(term) = term
<1>1. CASE term.kind = "iri"
  <2>1. EncodeTerm(term) = Hashed("iri", term.text)
    BY <1>1 DEF EncodeTerm
  <2>2. "iri" \in LookedUp /\ term.text \in Text
    BY TermTyped DEF LookedUp
  <2>3. RoundTrip(term) = IRITerm(term.text)
    BY <2>1, <2>2, HashedRoundTrip
  <2>4. term = IRITerm(term.text)
    BY <1>1, TermTyped DEF IRITerm
  <2> QED BY <2>3, <2>4
<1>2. CASE term.kind = "blank"
  BY <1>2, BlankRoundTrip
<1>3. CASE term.kind = "literal"
  BY <1>3, LiteralRoundTrip DEF HasValue
<1> QED BY <1>1, <1>2, <1>3, TermTyped

(* A literal that stands for a number: the number is what is stored.       *)
Stands(lit, num) ==
  /\ HasValue(lit)
  /\ EncodeTerm(lit) = Number(lit.type, num)
  /\ Value(lit) = <<"value", lit.type, num>>

LEMMA IntegerStands ==
  ASSUME NEW text \in DOMAIN IntOf, InRange(IntOf[text])
  PROVE  Stands(TypedLiteral(text, "integer"), IntOf[text])
<1> DEFINE lit == TypedLiteral(text, "integer")
<1>1. lit.kind = "literal" /\ lit.text = text /\ lit.type = "integer" /\ lit.type # NoType
  BY DEF TypedLiteral, NoType
<1> HIDE DEF lit
<1>2. WellFormed(lit)
  BY <1>1 DEF WellFormed
<1>3. EncodeTerm(lit) = Number("integer", IntOf[text])
  BY <1>1, <1>2 DEF EncodeTerm, EncodeLiteral, EncodeValue
<1>4. Value(lit) = <<"value", "integer", IntOf[text]>>
  BY <1>1, <1>2 DEF Value
<1> QED BY <1>1, <1>2, <1>3, <1>4 DEF Stands, HasValue, lit

LEMMA FloatStands ==
  ASSUME NEW text \in DOMAIN FloatOf, NEW type \in {"decimal", "double"}
  PROVE  Stands(TypedLiteral(text, type), FloatOf[text])
<1> DEFINE lit == TypedLiteral(text, type)
<1>1. lit.kind = "literal" /\ lit.text = text /\ lit.type = type /\ lit.type # NoType
  BY DEF TypedLiteral, NoType
<1> HIDE DEF lit
<1>2. WellFormed(lit)
  BY <1>1 DEF WellFormed
<1>3. EncodeTerm(lit) = Number(type, FloatOf[text])
  BY <1>1, <1>2 DEF EncodeTerm, EncodeLiteral, EncodeValue
<1>4. Value(lit) = <<"value", type, FloatOf[text]>>
  BY <1>1, <1>2 DEF Value
<1> QED BY <1>1, <1>2, <1>3, <1>4 DEF Stands, HasValue, lit

LEMMA BooleanStands ==
  ASSUME NEW text \in {<<"true">>, <<"false">>, <<"1">>, <<"0">>}
  PROVE  Stands(TypedLiteral(text, "boolean"), IF BoolOf[text] THEN 1 ELSE 0)
<1> DEFINE lit == TypedLiteral(text, "boolean")
<1>1. lit.kind = "literal" /\ lit.text = text /\ lit.type = "boolean" /\ lit.type # NoType
  BY DEF TypedLiteral, NoType
<1>0. text \in DOMAIN BoolOf /\ (BoolOf[text] <=> text \in {<<"true">>, <<"1">>})
  <2>1. CASE text \in {<<"true">>, <<"1">>}
    BY <2>1, BoolAssumption DEF Prints
  <2>2. CASE text \in {<<"false">>, <<"0">>}
    BY <2>2, BoolAssumption DEF Prints
  <2> QED BY <2>1, <2>2
<1> HIDE DEF lit
<1>2. WellFormed(lit)
  BY <1>0, <1>1 DEF WellFormed
<1>3. EncodeTerm(lit) = Number("boolean", IF BoolOf[text] THEN 1 ELSE 0)
  BY <1>1, <1>2 DEF EncodeTerm, EncodeLiteral, EncodeValue
<1>4. Value(lit) = <<"value", "boolean", IF BoolOf[text] THEN 1 ELSE 0>>
  BY <1>0, <1>1, <1>2 DEF Value
<1> QED BY <1>1, <1>2, <1>3, <1>4 DEF Stands, HasValue, lit

(* A number that fits is not wrapped.                                      *)
LEMMA NoWrap ==
  ASSUME NEW n \in Int, InRange(n)
  PROVE  Wrap(n) = n
<1>1. Limit \in Nat \ {0}
  BY SizeAssumption
<1> HIDE DEF Limit
<1>2. n + Limit \in 0 .. 2 * Limit - 1
  BY <1>1 DEF InRange
<1>3. (n + Limit) % (2 * Limit) = n + Limit
  BY <1>1, <1>2
<1> QED BY <1>1, <1>3 DEF Wrap

LEMMA DateTimeStands ==
  ASSUME NEW text \in DOMAIN TickOf, InRange(TickOf[text])
  PROVE  Stands(TypedLiteral(text, "dateTime"), TickOf[text])
<1> DEFINE lit == TypedLiteral(text, "dateTime")
<1>1. lit.kind = "literal" /\ lit.text = text /\ lit.type = "dateTime" /\ lit.type # NoType
  BY DEF TypedLiteral, NoType
<1>0. Wrap(TickOf[text]) = TickOf[text]
  BY NoWrap, TickAssumption
<1> HIDE DEF lit
<1>2. WellFormed(lit)
  BY <1>1 DEF WellFormed
<1>3. EncodeTerm(lit) = Number("dateTime", TickOf[text])
  BY <1>0, <1>1, <1>2 DEF EncodeTerm, EncodeLiteral, EncodeValue
<1>4. Value(lit) = <<"value", "dateTime", TickOf[text]>>
  BY <1>1, <1>2 DEF Value
<1> QED BY <1>1, <1>2, <1>3, <1>4 DEF Stands, HasValue, lit

LEMMA DateStands ==
  ASSUME NEW text \in DOMAIN DayOf
  PROVE  Stands(TypedLiteral(text, "date"), DayOf[text])
<1> DEFINE lit == TypedLiteral(text, "date")
<1>1. lit.kind = "literal" /\ lit.text = text /\ lit.type = "date" /\ lit.type # NoType
  BY DEF TypedLiteral, NoType
<1> HIDE DEF lit
<1>2. WellFormed(lit)
  BY <1>1 DEF WellFormed
<1>3. EncodeTerm(lit) = Number("date", DayOf[text])
  BY <1>1, <1>2 DEF EncodeTerm, EncodeLiteral, EncodeValue
<1>4. Value(lit) = <<"value", "date", DayOf[text]>>
  BY <1>1, <1>2 DEF Value
<1> QED BY <1>1, <1>2, <1>3, <1>4 DEF Stands, HasValue, lit

LEMMA NumberRoundTrip ==
  ASSUME NEW term, NEW num, Stands(term, num)
  PROVE  RoundTrip(term) = DecodeValue(term.type, num)
<1> DEFINE e == EncodeTerm(term)
<1>1. e.type = term.type /\ e.data = NoText /\ e.num = num
  BY DEF Stands, Number, Encoded
<1>2. term.type \notin LookedUp
  BY DEF Stands, HasValue, WellFormed, LookedUp
<1>3. StringsOf(term) = {} /\ ~Found(e, StringsOf(term))
  BY <1>1, StringsOfInline, InlineNotFound
<1> HIDE DEF e
<1>4. DecodeStored(e, StringsOf(term)) = DecodeValue(e.type, e.num)
  BY <1>1, <1>2, <1>3 DEF DecodeStored, LookedUp
<1> QED BY <1>1, <1>4 DEF RoundTrip, e

LEMMA ValueIsTyped ==
  ASSUME NEW term \in RDFTerm, HasValue(term)
  PROVE  term = TypedLiteral(term.text, term.type)
<1>1. term.type # NoType
  BY DEF HasValue, WellFormed, NoType
<1> QED BY <1>1, TermTyped DEF HasValue, TypedLiteral

(* A value comes back as the literal the decoder prints, which stands for  *)
(* the same number.                                                        *)
LEMMA ValueRoundTrip ==
  ASSUME NEW term \in RDFTerm, Faithful(term), HasValue(term)
  PROVE  \E text, num :
           /\ Stands(term, num)
           /\ RoundTrip(term) = TypedLiteral(text, term.type)
           /\ Stands(RoundTrip(term), num)
           /\ Unmarked(text)
<1>0. ASSUME NEW type, NEW text, NEW num,
             term = TypedLiteral(term.text, type),
             Stands(TypedLiteral(term.text, type), num),
             DecodeValue(type, num) = TypedLiteral(text, type),
             Stands(TypedLiteral(text, type), num), Unmarked(text)
      PROVE  \E x, n : /\ Stands(term, n)
                       /\ RoundTrip(term) = TypedLiteral(x, term.type)
                       /\ Stands(RoundTrip(term), n)
                       /\ Unmarked(x)
  <2>1. term.type = type
    BY <1>0 DEF TypedLiteral
  <2>2. Stands(term, num)
    BY <1>0
  <2>3. RoundTrip(term) = TypedLiteral(text, type)
    BY <1>0, <2>1, <2>2, NumberRoundTrip
  <2> QED BY <1>0, <2>1, <2>2, <2>3
<1>1. term.kind = "literal" /\ WellFormed(term) /\ term = TypedLiteral(term.text, term.type)
  BY ValueIsTyped DEF HasValue
<1> DEFINE was == term.text
<1>2. CASE term.type = "integer"
  <2>1. was \in DOMAIN IntOf /\ InRange(IntOf[was])
    BY <1>1, <1>2 DEF WellFormed
  <2> DEFINE num == IntOf[was]
             text == IntText[num]
  <2>2. num \in -Limit .. Limit - 1
    BY <2>1, IntAssumption, SizeAssumption DEF InRange
  <2>3. text \in DOMAIN IntOf /\ IntOf[text] = num /\ Unmarked(text)
    BY <2>2, IntAssumption DEF Prints
  <2>4. Stands(TypedLiteral(was, "integer"), num) /\ Stands(TypedLiteral(text, "integer"), num)
    BY <2>1, <2>3, IntegerStands
  <2>5. DecodeValue("integer", num) = TypedLiteral(text, "integer")
    BY DEF DecodeValue
  <2> QED BY <1>0, <1>1, <1>2, <2>3, <2>4, <2>5
<1>3. CASE term.type = "decimal"
  <2>1. was \in DOMAIN FloatOf
    BY <1>1, <1>3 DEF WellFormed
  <2> DEFINE num == FloatOf[was]
             text == FloatText[num]
  <2>2. text \in DOMAIN FloatOf /\ FloatOf[text] = num /\ Unmarked(text)
    BY <2>1, FloatAssumption DEF Prints
  <2>3. Stands(TypedLiteral(was, "decimal"), num) /\ Stands(TypedLiteral(text, "decimal"), num)
    BY <2>1, <2>2, FloatStands
  <2>4. DecodeValue("decimal", num) = TypedLiteral(text, "decimal")
    BY DEF DecodeValue
  <2> QED BY <1>0, <1>1, <1>3, <2>2, <2>3, <2>4
<1>4. CASE term.type = "double"
  <2>1. was \in DOMAIN FloatOf
    BY <1>1, <1>4 DEF WellFormed
  <2> DEFINE num == FloatOf[was]
             text == DoubleText(num)
  <2>2. text \in DOMAIN FloatOf
    BY <1>1, <1>4 DEF Faithful
  <2>3. FloatOf[text] = num /\ Unmarked(text)
    BY <2>1, <2>2, FloatAssumption DEF Prints
  <2>4. Stands(TypedLiteral(was, "double"), num) /\ Stands(TypedLiteral(text, "double"), num)
    BY <2>1, <2>2, <2>3, FloatStands
  <2>5. DecodeValue("double", num) = TypedLiteral(text, "double")
    BY DEF DecodeValue
  <2> QED BY <1>0, <1>1, <1>4, <2>3, <2>4, <2>5
<1>5. CASE term.type = "boolean"
  <2>1. was \in {<<"true">>, <<"false">>, <<"1">>, <<"0">>}
    BY <1>1, <1>5 DEF Faithful
  <2> DEFINE num == IF BoolOf[was] THEN 1 ELSE 0
             text == IF num # 0 THEN <<"true">> ELSE <<"false">>
  <2>2. text \in {<<"true">>, <<"false">>, <<"1">>, <<"0">>} /\ Unmarked(text)
    BY BoolAssumption DEF Prints
  <2>3. (IF BoolOf[text] THEN 1 ELSE 0) = num
    BY BoolAssumption DEF Prints
  <2>4. Stands(TypedLiteral(was, "boolean"), num) /\ Stands(TypedLiteral(text, "boolean"), num)
    <3>1. Stands(TypedLiteral(was, "boolean"), num)
      BY <2>1, BooleanStands
    <3>2. Stands(TypedLiteral(text, "boolean"), IF BoolOf[text] THEN 1 ELSE 0)
      <4> HIDE DEF text
      <4> QED BY <2>2, BooleanStands
    <3> HIDE DEF text, num
    <3> QED BY <2>3, <3>1, <3>2
  <2>5. DecodeValue("boolean", num) = TypedLiteral(text, "boolean")
    BY DEF DecodeValue
  <2> HIDE DEF text, num
  <2> QED BY <1>0, <1>1, <1>5, <2>2, <2>4, <2>5
<1>6. CASE term.type = "dateTime"
  <2>1. was \in DOMAIN TickOf /\ InRange(TickOf[was]) /\ TickOf[was] % TicksPerSecond = 0
    BY <1>1, <1>6 DEF WellFormed, Faithful
  <2> DEFINE num == TickOf[was]
             text == SecondText[num \div TicksPerSecond]
  <2>2. num \in Int /\ text \in DOMAIN TickOf
        /\ TickOf[text] = TicksPerSecond * (num \div TicksPerSecond) /\ Unmarked(text)
    BY <2>1, TickAssumption DEF Prints
  <2>3. TicksPerSecond * (num \div TicksPerSecond) = num
    <3> HIDE DEF num
    <3> QED BY <2>1, <2>2, SizeAssumption DEF num
  <2>4. Stands(TypedLiteral(was, "dateTime"), num) /\ Stands(TypedLiteral(text, "dateTime"), num)
    BY <2>1, <2>2, <2>3, DateTimeStands
  <2>5. DecodeValue("dateTime", num) = TypedLiteral(text, "dateTime")
    BY DEF DecodeValue
  <2> QED BY <1>0, <1>1, <1>6, <2>2, <2>4, <2>5
<1>7. CASE term.type = "date"
  <2>1. was \in DOMAIN DayOf /\ ~WestOfGreenwich
    BY <1>1, <1>7 DEF WellFormed, Faithful
  <2> DEFINE num == DayOf[was]
             text == DayText[num]
  <2>2. text \in DOMAIN DayOf /\ DayOf[text] = num /\ Unmarked(text)
    BY <2>1, DayAssumption DEF Prints
  <2>3. Stands(TypedLiteral(was, "date"), num) /\ Stands(TypedLiteral(text, "date"), num)
    BY <2>1, <2>2, DateStands
  <2>4. DecodeValue("date", num) = TypedLiteral(text, "date")
    BY <2>1 DEF DecodeValue
  <2> QED BY <1>0, <1>1, <1>7, <2>2, <2>3, <2>4
<1> QED BY <1>1, <1>2, <1>3, <1>4, <1>5, <1>6, <1>7 DEF WellFormed

-----------------------------------------------------------------------------
(* Two terms are encoded the same if and only if they stand for the same.  *)

LEMMA NumberApart ==
  ASSUME NEW type1, NEW type2, NEW num1, NEW num2, Number(type1, num1) = Number(type2, num2)
  PROVE  type1 = type2 /\ num1 = num2
<1>1. Number(type1, num1).type = type1 /\ Number(type1, num1).num = num1
  BY DEF Number, Encoded
<1>2. Number(type2, num2).type = type2 /\ Number(type2, num2).num = num2
  BY DEF Number, Encoded
<1> QED BY <1>1, <1>2

LEMMA StandsTogether ==
  ASSUME NEW lit1, NEW lit2, NEW num1, NEW num2, Stands(lit1, num1), Stands(lit2, num2)
  PROVE  EncodeTerm(lit1) = EncodeTerm(lit2) <=> Value(lit1) = Value(lit2)
<1>1. EncodeTerm(lit1) = EncodeTerm(lit2) <=> lit1.type = lit2.type /\ num1 = num2
  BY NumberApart DEF Stands
<1>2. Value(lit1) = Value(lit2) <=> lit1.type = lit2.type /\ num1 = num2
  BY DEF Stands
<1> QED BY <1>1, <1>2

(* A term without a value is never encoded with the type byte of one.      *)
LEMMA NoValueLookedUp ==
  ASSUME NEW term \in RDFTerm, ~HasValue(term)
  PROVE  EncodeTerm(term).type \in LookedUp
<1>0. \A type, str : Hashed(type, str).type = type
  BY DEF Hashed, Encoded
<1>1. CASE term.kind = "iri"
  BY <1>0, <1>1 DEF EncodeTerm, LookedUp
<1>2. CASE term.kind = "blank"
  BY <1>0, <1>2 DEF EncodeTerm, LookedUp, Number, Encoded
<1>3. CASE term.kind = "literal"
  <2>1. ~WellFormed(term)
    BY <1>3 DEF HasValue
  <2>2. \A data, num : Encoded("string", data, num).type = "string"
    BY DEF Encoded
  <2> QED BY <1>0, <1>3, <2>1, <2>2, LiteralShape DEF LookedUp
<1> QED BY <1>1, <1>2, <1>3, TermTyped

LEMMA NotAValue ==
  ASSUME NEW term \in RDFTerm, ~HasValue(term)
  PROVE  Value(term) = <<"term", term>>
BY DEF Value, HasValue

LEMMA SameRoundTrip ==
  ASSUME NEW term1, NEW term2, EncodeTerm(term1) = EncodeTerm(term2)
  PROVE  RoundTrip(term1) = RoundTrip(term2)
BY DEF RoundTrip, StringsOf

LEMMA EncodingsSayValues ==
  ASSUME NEW term1 \in RDFTerm, NEW term2 \in RDFTerm, Faithful(term1), Faithful(term2)
  PROVE  EncodeTerm(term1) = EncodeTerm(term2) <=> Value(term1) = Value(term2)
<1>0. ASSUME NEW value \in RDFTerm, NEW other \in RDFTerm,
             Faithful(value), HasValue(value), ~HasValue(other)
      PROVE  EncodeTerm(value) # EncodeTerm(other) /\ Value(value) # Value(other)
  <2>1. PICK num : Stands(value, num)
    BY <1>0, ValueRoundTrip
  <2>2. EncodeTerm(value).type = value.type /\ value.type \notin LookedUp
    BY <2>1 DEF Stands, HasValue, WellFormed, LookedUp, Number, Encoded
  <2>3. EncodeTerm(other).type \in LookedUp
    BY <1>0, NoValueLookedUp
  <2>4. Value(value) = <<"value", value.type, num>> /\ Value(other) = <<"term", other>>
    BY <1>0, <2>1, NotAValue DEF Stands
  <2> QED BY <2>2, <2>3, <2>4
<1>1. CASE HasValue(term1) /\ HasValue(term2)
  <2>1. PICK num1 : Stands(term1, num1)
    BY <1>1, ValueRoundTrip
  <2>2. PICK num2 : Stands(term2, num2)
    BY <1>1, ValueRoundTrip
  <2> QED BY <2>1, <2>2, StandsTogether
<1>2. CASE HasValue(term1) /\ ~HasValue(term2)
  BY <1>0, <1>2
<1>3. CASE ~HasValue(term1) /\ HasValue(term2)
  BY <1>0, <1>3
<1>4. CASE ~HasValue(term1) /\ ~HasValue(term2)
  <2>1. Value(term1) = Value(term2) <=> term1 = term2
    BY <1>4, NotAValue
  <2>2. EncodeTerm(term1) = EncodeTerm(term2) => term1 = term2
    BY <1>4, SameRoundTrip, TermRoundTrip
  <2> QED BY <2>1, <2>2
<1> QED BY <1>1, <1>2, <1>3, <1>4

(* What is read encodes as what was inserted, and stands for the same.     *)
LEMMA ReadsTheSame ==
  ASSUME NEW term \in RDFTerm, Faithful(term)
  PROVE  EncodeTerm(RoundTrip(term)) = EncodeTerm(term) /\ Value(RoundTrip(term)) = Value(term)
<1>1. CASE HasValue(term)
  <2>1. PICK text, num : /\ Stands(term, num)
                         /\ RoundTrip(term) = TypedLiteral(text, term.type)
                         /\ Stands(RoundTrip(term), num)
    BY <1>1, ValueRoundTrip
  <2>2. RoundTrip(term).type = term.type
    BY <2>1 DEF TypedLiteral
  <2> QED BY <2>1, <2>2 DEF Stands
<1>2. CASE ~HasValue(term)
  BY <1>2, TermRoundTrip
<1> QED BY <1>1, <1>2

-----------------------------------------------------------------------------
(* The invariant of the machine, and what follows from it.                 *)

LEMMA LookupInvInit == LookupInit => LookupInv
BY DEF LookupInit, LookupInv

LEMMA LookupInvNext == LookupInv /\ [LookupNext]_lookupVars => LookupInv'
<1> SUFFICES ASSUME LookupInv, [LookupNext]_lookupVars
             PROVE  LookupInv'
  OBVIOUS
<1>1. ASSUME NEW term \in RDFTerm \ inserted, InsertTerm(term)
      PROVE  LookupInv'
  <2>1. inserted' \subseteq RDFTerm
    BY <1>1 DEF InsertTerm, LookupInv
  <2>2. encoded' = {EncodeTerm(t) : t \in inserted'}
    BY <1>1 DEF InsertTerm, LookupInv
  <2>3. strings' = UNION {StringsOf(t) : t \in inserted'}
    BY <1>1 DEF InsertTerm, LookupInv
  <2>4. \A r \in read' : \E t \in inserted' : r = RoundTrip(t)
    BY <1>1 DEF InsertTerm, LookupInv
  <2> QED BY <2>1, <2>2, <2>3, <2>4 DEF LookupInv
<1>2. ASSUME NEW e \in encoded, ReadTerm(e)
      PROVE  LookupInv'
  <2>1. PICK term \in inserted : e = EncodeTerm(term)
    BY DEF LookupInv
  <2>2. strings \subseteq Text /\ StringsOf(term) \subseteq strings /\ term \in RDFTerm
    BY StringsTyped DEF LookupInv
  <2>3. DecodeStored(e, strings) = RoundTrip(term)
    BY <2>1, <2>2, DecodedAlone
  <2>4. \A r \in read' : \E t \in inserted' : r = RoundTrip(t)
    BY <1>2, <2>3 DEF ReadTerm, LookupInv
  <2> QED BY <1>2, <2>4 DEF ReadTerm, LookupInv
<1>3. CASE UNCHANGED lookupVars
  BY <1>3 DEF lookupVars, LookupInv
<1> QED BY <1>1, <1>2, <1>3 DEF LookupNext

(* Every term is read as if it were alone in the store.                    *)
THEOREM ReadAlone == LookupSpec => []LookupInv
BY LookupInvInit, LookupInvNext, PTL DEF LookupSpec

LEMMA JoinFromInv == LookupInv => JoinFindsValue
<1> SUFFICES ASSUME LookupInv, \A term \in inserted : Faithful(term), NEW r \in read
             PROVE  /\ EncodeTerm(r) \in encoded
                    /\ \A term \in inserted : EncodeTerm(term) = EncodeTerm(r) <=> Value(term) = Value(r)
  BY DEF JoinFindsValue
<1>1. PICK was \in inserted : r = RoundTrip(was)
  BY DEF LookupInv
<1>2. was \in RDFTerm /\ inserted \subseteq RDFTerm /\ EncodeTerm(was) \in encoded
  BY DEF LookupInv
<1>3. EncodeTerm(r) = EncodeTerm(was) /\ Value(r) = Value(was)
  BY <1>1, <1>2, ReadsTheSame
<1>4. ASSUME NEW term \in inserted
      PROVE  EncodeTerm(term) = EncodeTerm(r) <=> Value(term) = Value(r)
  <2>1. EncodeTerm(term) = EncodeTerm(was) <=> Value(term) = Value(was)
    BY <1>2, EncodingsSayValues
  <2> QED BY <1>3, <2>1
<1> QED BY <1>2, <1>3, <1>4

(* A join finds the rows that were inserted with the value it looks for,   *)
(* and no other: for every set of terms the encoding is up to.             *)
THEOREM JoinLosesNoRow == LookupSpec => []JoinFindsValue
BY ReadAlone, JoinFromInv, PTL

-----------------------------------------------------------------------------
(* Signatures.                                                             *)

LEMMA TagApart ==
  ASSUME NEW S, NEW tag1 \in S, NEW tag2 \in S, NEW u \in Seq(S), NEW v \in Seq(S),
         <<tag1>> \o u = <<tag2>> \o v
  PROVE  tag1 = tag2 /\ u = v
<1>1. (<<tag1>> \o u)[1] = tag1 /\ Tail(<<tag1>> \o u) = u
  OBVIOUS
<1>2. (<<tag2>> \o v)[1] = tag2 /\ Tail(<<tag2>> \o v) = v
  OBVIOUS
<1> QED BY <1>1, <1>2

(* A datatype behind its mark is seen, and no language is.                 *)
LEMMA TypeSeen ==
  ASSUME NEW S, NEW text \in Seq(S), NEW m \in S, NEW type \in S, NEW other \in S,
         ~Contains(text, m), ~Contains(text, other), type # other, m # other
  PROVE  Contains(text \o <<m, type>>, m) /\ ~Contains(text \o <<m, type>>, other)
<1> DEFINE u == <<m>>
           v == <<type>>
           both == <<m, type>>
<1>1. both = u \o v
  BY Pair
<1>2. u \in Seq(S) /\ v \in Seq(S)
  OBVIOUS
<1>3. text \o (u \o v) = text \o u \o v
  BY <1>2, Assoc
<1>4. Contains(text \o u \o v, m)
  BY <1>2, SplitAtFirst
<1>5. ~Contains(u, other) /\ ~Contains(v, other)
  BY NotInOne
<1>6. u \o v \in Seq(S) /\ ~Contains(u \o v, other)
  <2> HIDE DEF u, v
  <2>1. u \o v \in Seq(S)
    BY <1>2
  <2>2. ~Contains(u \o v, other)
    BY <1>2, <1>5, NotInConcat
  <2> QED BY <2>1, <2>2
<1>7. ~Contains(text \o (u \o v), other)
  BY <1>6, NotInConcat
<1> QED BY <1>1, <1>3, <1>4, <1>7

(* What follows the tag of a literal's signature.                          *)
Body(lit) ==
  IF lit.lang # NoText THEN lit.text \o <<LangMark>> \o lit.lang
  ELSE IF lit.type # NoType THEN TypedString(lit)
  ELSE lit.text

(* The terms that signatures tell apart.                                   *)
Clean(term) ==
  /\ term \in [kind : {"iri", "blank", "literal"}, text : Text, lang : Text, dir : Text,
               type : Fragment \cup {NoType}]
  /\ term.kind # "literal" => term.lang = NoText /\ term.type = NoType
  /\ term.type \notin {LangMark, TypeMark}
  /\ term.type # NoType => term.lang = NoText
  /\ term.dir = NoText
  /\ ~Contains(term.text, LangMark) /\ ~Contains(term.text, TypeMark)

LEMMA BodyTyped ==
  ASSUME NEW lit, Clean(lit)
  PROVE  Body(lit) \in Text
<1> DEFINE S == Fragment
           at == LangMark
           w == <<at>>
           hat == TypeMark
           type == lit.type
<1>1. lit.text \in Seq(S) /\ lit.lang \in Seq(S) /\ w \in Seq(S)
  BY Marks DEF Clean, Text
<1>2. CASE lit.lang # NoText
  <2>1. lit.text \o w \o lit.lang \in Seq(S)
    <3> HIDE DEF w
    <3> QED BY <1>1
  <2> QED BY <1>2, <2>1 DEF Body, Text
<1>3. CASE lit.lang = NoText /\ type # NoType
  <2>1. type \in S /\ hat \in S /\ type # hat
    BY <1>3, Marks DEF Clean
  <2>2. lit.text \o <<hat, type>> \in Seq(S)
    <3> HIDE DEF hat, type
    <3> QED BY <1>1, <2>1, TypeSplit
  <2> QED BY <1>3, <2>2 DEF Body, TypedString, Text
<1>4. CASE lit.lang = NoText /\ type = NoType
  BY <1>1, <1>4 DEF Body, Text
<1> QED BY <1>2, <1>3, <1>4

LEMMA BodySplit ==
  ASSUME NEW lit, Clean(lit)
  PROVE  /\ Contains(Body(lit), LangMark) <=> lit.lang # NoText
         /\ lit.lang # NoText =>
              /\ UpTo(Body(lit), LangMark) = lit.text
              /\ SubSeq(Body(lit), Len(UpTo(Body(lit), LangMark)) + 2, Len(Body(lit))) = lit.lang
         /\ lit.lang = NoText => (Contains(Body(lit), TypeMark) <=> lit.type # NoType)
         /\ lit.lang = NoText /\ lit.type # NoType =>
              /\ Before(Body(lit), TypeMark) = lit.text
              /\ After(Body(lit), TypeMark)[1] = lit.type
         /\ lit.lang = NoText /\ lit.type = NoType => Body(lit) = lit.text
<1> DEFINE S == Fragment
           at == LangMark
           hat == TypeMark
           type == lit.type
           text == lit.text
           lang == lit.lang
<1>1. text \in Seq(S) /\ lang \in Seq(S) /\ at \in S /\ hat \in S
      /\ ~Contains(text, at) /\ ~Contains(text, hat)
  BY Marks DEF Clean, Text
<1>0. at # hat
  BY DEF LangMark, TypeMark
<1>2. CASE lang # NoText
  <2>1. /\ UpTo(text \o <<at>> \o lang, at) = text
        /\ Contains(text \o <<at>> \o lang, at)
        /\ SubSeq(text \o <<at>> \o lang, Len(text) + 2, Len(text \o <<at>> \o lang)) = lang
    <3> HIDE DEF S, at, text, lang
    <3> QED BY <1>1, SplitAtFirst
  <2>2. Body(lit) = text \o <<at>> \o lang
    BY <1>2 DEF Body
  <2> HIDE DEF at, text, lang
  <2> QED BY <1>2, <2>1, <2>2 DEF at, text, lang
<1>3. CASE lang = NoText /\ type # NoType
  <2>1. type \in S /\ type # hat /\ type # at
    BY <1>3 DEF Clean
  <2>2. Contains(text \o <<hat, type>>, hat) /\ ~Contains(text \o <<hat, type>>, at)
    <3> HIDE DEF S, at, hat, text, type
    <3> QED BY <1>0, <1>1, <2>1, TypeSeen
  <2>3. Before(text \o <<hat, type>>, hat) = text /\ After(text \o <<hat, type>>, hat)[1] = type
    <3> HIDE DEF S, at, hat, text, type
    <3> QED BY <1>1, <2>1, TypeSplit
  <2>4. Body(lit) = text \o <<hat, type>>
    BY <1>3 DEF Body, TypedString
  <2> HIDE DEF at, hat, text, type
  <2> QED BY <1>3, <2>2, <2>3, <2>4 DEF at, hat, text, type, lang
<1>4. CASE lang = NoText /\ type = NoType
  BY <1>1, <1>4 DEF Body
<1> QED BY <1>2, <1>3, <1>4

LEMMA BodiesApart ==
  ASSUME NEW lit1, NEW lit2, Clean(lit1), Clean(lit2), Body(lit1) = Body(lit2)
  PROVE  lit1.text = lit2.text /\ lit1.lang = lit2.lang /\ lit1.type = lit2.type
<1>1. lit1.lang # NoText <=> lit2.lang # NoText
  BY BodySplit
<1>2. CASE lit1.lang # NoText
  <2>1. lit1.text = lit2.text /\ lit1.lang = lit2.lang
    BY <1>1, <1>2, BodySplit
  <2>2. lit1.type = NoType /\ lit2.type = NoType
    BY <1>1, <1>2 DEF Clean
  <2> QED BY <2>1, <2>2
<1>3. CASE lit1.lang = NoText
  <2>1. lit1.type # NoType <=> lit2.type # NoType
    BY <1>1, <1>3, BodySplit
  <2>2. CASE lit1.type # NoType
    BY <1>1, <1>3, <2>1, <2>2, BodySplit
  <2>3. CASE lit1.type = NoType
    BY <1>1, <1>3, <2>1, <2>3, BodySplit
  <2> QED BY <2>2, <2>3
<1> QED BY <1>2, <1>3

(* The tag of a signature, and what follows it.                            *)
Tag(term) ==
  CASE term.kind = "iri" -> "iri:"
    [] term.kind = "blank" -> "blank:"
    [] term.kind = "literal" -> "lit:"

LEMMA TagOfKind ==
  ASSUME NEW term1, NEW term2, Clean(term1), Clean(term2)
  PROVE  /\ Tag(term1) \in Fragment
         /\ Tag(term1) = Tag(term2) => term1.kind = term2.kind
<1>1. term1.kind \in {"iri", "blank", "literal"} /\ term2.kind \in {"iri", "blank", "literal"}
  BY DEF Clean
<1>2. Tag(term1) \in Fragment
  BY <1>1, FragmentAssumption DEF Tag
<1>3. Tag(term1) = Tag(term2) => term1.kind = term2.kind
  BY <1>1 DEF Tag
<1> QED BY <1>2, <1>3

LEMMA WithoutEnds ==
  ASSUME NEW S, NEW u \in Seq(S), NEW v \in Seq(S)
  PROVE  u \o v \o <<>> = u \o v /\ u \o <<>> \o v = u \o v /\ u \o <<>> \o <<>> = u
OBVIOUS

LEMMA SignatureShape ==
  ASSUME NEW term, Clean(term)
  PROVE  /\ TermSignature(term) = <<Tag(term)>> \o Body(term)
         /\ Body(term) \in Text
<1>1. Body(term) \in Text
  BY BodyTyped
<1>2. CASE term.kind # "literal"
  <2>1. Body(term) = term.text
    BY <1>2 DEF Clean, Body
  <2>2. TermSignature(term) = <<Tag(term)>> \o term.text
    BY <1>2 DEF TermSignature, Tag, Clean
  <2> QED BY <1>1, <2>1, <2>2
<1>3. CASE term.kind = "literal"
  <2> DEFINE S == Fragment
             tag == Tag(term)
             at == <<LangMark>>
             hat == <<TypeMark, term.type>>
             text == term.text
             lang == term.lang
             v == IF lang # NoText THEN at \o lang ELSE NoText
             w == IF term.type # NoType THEN hat ELSE NoText
  <2>1. text \in Seq(S) /\ lang \in Seq(S) /\ at \in Seq(S) /\ tag \in S
    BY Marks, TagOfKind DEF Clean, Text
  <2>2. term.type # NoType => hat \in Seq(S)
    BY Marks DEF Clean
  <2>3. v \in Seq(S) /\ w \in Seq(S)
    <3> HIDE DEF at, hat, lang, text
    <3> QED BY <2>1, <2>2 DEF NoText
  <2>4. TermSignature(term) = <<tag>> \o text \o v \o w
    BY <1>3 DEF TermSignature, Tag
  <2>5. <<tag>> \o text \o v \o w = <<tag>> \o (text \o v \o w)
    <3> DEFINE a == <<tag>>
    <3>1. a \in Seq(S) /\ text \in Seq(S) /\ v \in Seq(S) /\ w \in Seq(S)
      BY <2>1, <2>3
    <3> HIDE DEF S, a, text, v, w
    <3> DEFINE tv == text \o v
    <3>2. a \o text \o v = a \o tv /\ tv \in Seq(S)
      BY <3>1, AnyAssoc, ConcatProperties
    <3> HIDE DEF tv
    <3>3. a \o tv \o w = a \o (tv \o w)
      BY <3>1, <3>2, AnyAssoc, SMTT(60)
    <3> QED BY <3>2, <3>3 DEF a, tv
  <2>6. text \o v \o w = Body(term)
    <3>1. CASE lang # NoText
      <4>1. v = at \o lang /\ w = NoText
        BY <3>1 DEF Clean
      <4>2. text \o (at \o lang) = text \o at \o lang
        <5> HIDE DEF S, at, text, lang
        <5> QED BY <2>1, AnyAssoc, SMTT(60)
      <4>3. Body(term) = text \o at \o lang
        BY <3>1 DEF Body
      <4>4. text \o v \o w = text \o v
        <5> HIDE DEF S, v, w, text
        <5> QED BY <2>1, <2>3, <4>1, WithoutEnds DEF NoText
      <4> HIDE DEF v, w, at, text, lang
      <4> QED BY <4>1, <4>2, <4>3, <4>4
    <3>2. CASE lang = NoText /\ term.type # NoType
      <4>1. v = NoText /\ w = hat
        BY <3>2
      <4>2. Body(term) = text \o hat
        BY <3>2 DEF Body, TypedString
      <4>3. text \o v \o w = text \o w
        <5> HIDE DEF S, v, w, text
        <5> QED BY <2>1, <2>3, <4>1, WithoutEnds DEF NoText
      <4> HIDE DEF v, w, hat, text
      <4> QED BY <4>1, <4>2, <4>3
    <3>3. CASE lang = NoText /\ term.type = NoType
      <4>1. v = NoText /\ w = NoText
        BY <3>3
      <4>2. Body(term) = text
        BY <3>3 DEF Body
      <4>3. text \o v \o w = text
        <5> HIDE DEF S, v, w, text
        <5> QED BY <2>1, <2>3, <4>1, WithoutEnds DEF NoText
      <4> QED BY <4>2, <4>3
    <3> HIDE DEF v, w, text
    <3> QED BY <3>1, <3>2, <3>3 DEF lang
  <2> HIDE DEF tag, text, v, w
  <2> QED BY <1>1, <2>4, <2>5, <2>6 DEF tag
<1> QED BY <1>2, <1>3

LEMMA SignaturesApart ==
  ASSUME NEW term1, NEW term2, Clean(term1), Clean(term2)
  PROVE  TermSignature(term1) = TermSignature(term2) <=> term1 = term2
<1> SUFFICES ASSUME TermSignature(term1) = TermSignature(term2)
             PROVE  term1 = term2
  OBVIOUS
<1> DEFINE S == Fragment
           tag1 == Tag(term1)
           tag2 == Tag(term2)
           body1 == Body(term1)
           body2 == Body(term2)
<1>1. <<tag1>> \o body1 = <<tag2>> \o body2
  BY SignatureShape
<1>2. tag1 \in S /\ tag2 \in S /\ body1 \in Seq(S) /\ body2 \in Seq(S)
  BY TagOfKind, SignatureShape DEF Text
<1>3. tag1 = tag2 /\ body1 = body2
  <2> HIDE DEF S, tag1, tag2, body1, body2
  <2> QED BY <1>1, <1>2, TagApart
<1>4. term1.kind = term2.kind
  BY <1>3, TagOfKind
<1>5. term1.text = term2.text /\ term1.lang = term2.lang /\ term1.type = term2.type
  BY <1>3, BodiesApart
<1>6. term1.dir = term2.dir
  BY DEF Clean
<1> QED BY <1>4, <1>5, <1>6 DEF Clean

LEMMA ReadsAreClean ==
  ASSUME NEW term \in RDFTerm, Signed(term)
  PROVE  Clean(RoundTrip(term))
<1>1. Clean(term) /\ Faithful(term)
  BY TermTyped DEF Clean, Signed
<1>2. CASE ~HasValue(term)
  BY <1>1, <1>2, TermRoundTrip
<1>3. CASE HasValue(term)
  <2>1. PICK text : RoundTrip(term) = TypedLiteral(text, term.type) /\ Unmarked(text)
    BY <1>1, <1>3, ValueRoundTrip
  <2>2. text \in Text /\ ~Contains(text, LangMark) /\ ~Contains(text, TypeMark)
    BY <2>1 DEF Unmarked, Contains
  <2>3. NoText \in Text
    BY DEF NoText, Text
  <2>4. ASSUME NEW type \in Fragment \cup {NoType}, type \notin {LangMark, TypeMark}
        PROVE  Clean(TypedLiteral(text, type))
    BY <2>2, <2>3, <2>4 DEF Clean, TypedLiteral
  <2> QED BY <1>1, <2>1, <2>4 DEF Clean
<1> QED BY <1>2, <1>3

LEMMA DistinctFromInv == LookupInv => DistinctAgrees
<1> SUFFICES ASSUME LookupInv, \A term \in inserted : Signed(term), NEW r1 \in read, NEW r2 \in read
             PROVE  TermSignature(r1) = TermSignature(r2) <=> EncodeTerm(r1) = EncodeTerm(r2)
  BY DEF DistinctAgrees
<1>1. PICK was1 \in inserted : r1 = RoundTrip(was1)
  BY DEF LookupInv
<1>2. PICK was2 \in inserted : r2 = RoundTrip(was2)
  BY DEF LookupInv
<1>3. /\ was1 \in RDFTerm /\ Signed(was1) /\ Faithful(was1)
      /\ was2 \in RDFTerm /\ Signed(was2) /\ Faithful(was2)
  BY DEF LookupInv, Signed
<1>4. TermSignature(r1) = TermSignature(r2) <=> r1 = r2
  BY <1>1, <1>2, <1>3, ReadsAreClean, SignaturesApart
<1>5. EncodeTerm(r1) = EncodeTerm(was1) /\ EncodeTerm(r2) = EncodeTerm(was2)
  BY <1>1, <1>2, <1>3, ReadsTheSame
<1>6. EncodeTerm(r1) = EncodeTerm(r2) => r1 = r2
  BY <1>1, <1>2, <1>5, SameRoundTrip
<1> QED BY <1>4, <1>6

(* DISTINCT goes by a text it makes of a term, the store by 17 bytes: for  *)
(* the terms Signed names, the two are never at odds.                      *)
THEOREM DistinctMatchesStore == LookupSpec => []DistinctAgrees
BY ReadAlone, DistinctFromInv, PTL
=============================================================================
