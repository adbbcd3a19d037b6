--------------------------- MODULE ReadingProofs ---------------------------
(***************************************************************************)
(* An upload is accepted only if its brackets match, but for those that a  *)
(* directive or the name of a graph swallows, and the parsers of N-Triples *)
(* and N-Quads accept no shorthand of Turtle outside brackets.  Between    *)
(* two steps of a TurtleParser the brackets that are open in its text are  *)
(* those of the calls on its stack; TriG cuts its text where none is open, *)
(* if each piece turns out to match; and a term of N-Quads leaves none     *)
(* open.                                                                   *)
(*                                                                         *)
(* A blank node that a parser makes up is new, if no author writes its     *)
(* labels that way: whatever the calls hold and the blocks handed on is    *)
(* numbered up to the counter, the parts of every term included.           *)
(*                                                                         *)
(* The nesting of a text and the terms of N-Quads are recursive functions. *)
(* What holds of them at every place is shown with a least counterexample, *)
(* from the theorem that inclusion is well-founded on finite sets.         *)
(***************************************************************************)
EXTENDS Reading, FiniteSetTheorems, SequenceTheorems, TLAPS

-----------------------------------------------------------------------------
(* Induction. *)

(* A set of numbers that is not empty has a least one: 0 .. n is well-     *)
(* founded by inclusion.                                                   *)
LEMMA Least ==
  ASSUME NEW T, T \subseteq Nat, T # {}
  PROVE  \E n \in T : \A m \in T : n <= m
<1> DEFINE R == StrictSubsetOrdering(Nat)
           F == FiniteSubsetsOf(Nat)
           Below == {0 .. n : n \in T}
<1>1. IsWellFoundedOn(R, F)
  BY FS_StrictSubsetOrderingWellFounded
<1>2. Below \subseteq F /\ Below # {}
  <2>1. \A n \in Nat : IsFiniteSet(0 .. n) /\ 0 .. n \in SUBSET Nat
    BY FS_Interval
  <2> QED BY <2>1 DEF FiniteSubsetsOf
<1>3. PICK X \in Below : \A Y \in Below : <<Y, X>> \notin R
  <2> HIDE DEF R, F, Below
  <2> QED BY <1>1, <1>2, WFMin
<1>4. PICK n \in T : X = 0 .. n
  OBVIOUS
<1>5. ASSUME NEW m \in T, m < n PROVE FALSE
  <2>1. 0 .. m \in Below /\ 0 .. m \subseteq 0 .. n /\ n \in 0 .. n /\ n \notin 0 .. m
    BY <1>5
  <2>2. <<0 .. m, 0 .. n>> \in R
    BY <2>1 DEF StrictSubsetOrdering
  <2> QED BY <2>1, <2>2, <1>3, <1>4
<1> QED BY <1>5

(* First is the least of a set.                                            *)
LEMMA FirstIsLeast ==
  ASSUME NEW set, set \subseteq Nat, set # {}
  PROVE  First(set) \in set /\ \A j \in set : First(set) <= j
<1>1. \E i \in set : \A j \in set : i <= j
  BY Least
<1> QED BY <1>1 DEF First

(* Induction over numbers, for a set of them instead of a predicate.       *)
LEMMA Induction ==
  ASSUME NEW T, 0 \in T, \A n \in Nat : n \in T => n + 1 \in T
  PROVE  \A n \in Nat : n \in T
<1> DEFINE U == Nat \ T
<1>1. CASE U # {}
  <2>1. PICK n \in U : \A m \in U : n <= m
    <3> HIDE DEF U
    <3>1. U \subseteq Nat BY DEF U
    <3> QED BY <3>1, <1>1, Least
  <2>2. n # 0 /\ n - 1 \in Nat /\ n - 1 \notin U
    BY <2>1
  <2> QED BY <2>1, <2>2
<1> QED BY <1>1

-----------------------------------------------------------------------------
(* The brackets open after each of the first n tokens.                     *)
Upto(g, text, n) ==
  g[0] = <<>> /\ \A k \in 1 .. n : g[k] = After(g[k - 1], TypeAt(text, k))

(* A function that counts the open brackets up to any place exists.        *)
LEMMA UptoExists ==
  ASSUME NEW text
  PROVE  \A n \in Nat : \E g : Upto(g, text, n)
<1> DEFINE T == {n \in Nat : \E g : Upto(g, text, n)}
<1>1. 0 \in T
  <2> DEFINE g == [k \in {0} |-> <<>>]
  <2>1. Upto(g, text, 0)
    BY DEF Upto
  <2> HIDE DEF g
  <2> QED BY <2>1
<1>2. ASSUME NEW n \in Nat, n \in T PROVE n + 1 \in T
  <2>1. PICK g : Upto(g, text, n)
    BY <1>2
  <2> DEFINE a == After(g[n], TypeAt(text, n + 1))
             h == [k \in Nat |-> IF k = n + 1 THEN a ELSE g[k]]
  <2>2. /\ h[n + 1] = a
        /\ \A k \in 0 .. n : h[k] = g[k]
    <3> HIDE DEF a
    <3> QED OBVIOUS
  <2> HIDE DEF h
  <2>3. Upto(h, text, n + 1)
    <3>1. h[0] = <<>>
      BY <2>1, <2>2 DEF Upto
    <3>2. ASSUME NEW k \in 1 .. n + 1 PROVE h[k] = After(h[k - 1], TypeAt(text, k))
      <4>1. CASE k = n + 1
        <5>1. k - 1 = n /\ h[n] = g[n]
          BY <2>2, <4>1
        <5> QED BY <5>1, <2>2, <4>1
      <4>2. CASE k # n + 1
        <5>1. k \in 1 .. n /\ k - 1 \in 0 .. n /\ k \in 0 .. n
          BY <4>2
        <5> QED BY <5>1, <2>1, <2>2 DEF Upto
      <4> QED BY <4>1, <4>2
    <3> QED BY <3>1, <3>2 DEF Upto
  <2> QED BY <2>3
<1> HIDE DEF T
<1>3. \A n \in Nat : n \in T
  BY <1>1, <1>2, Induction
<1> QED BY <1>3 DEF T

(* Two of them agree as far as both go.                                    *)
LEMMA UptoUnique ==
  ASSUME NEW text, NEW g, NEW h, NEW m \in Nat, Upto(g, text, m), Upto(h, text, m)
  PROVE  \A k \in 0 .. m : g[k] = h[k]
<1> DEFINE T == {k \in Nat : k <= m => g[k] = h[k]}
<1>1. 0 \in T
  BY DEF Upto
<1>2. ASSUME NEW n \in Nat, n \in T PROVE n + 1 \in T
  <2>1. CASE n + 1 <= m
    <3>1. n + 1 \in 1 .. m /\ (n + 1) - 1 = n /\ g[n] = h[n]
      BY <1>2, <2>1
    <3> QED BY <3>1 DEF Upto
  <2> QED BY <2>1
<1> HIDE DEF T
<1>3. \A n \in Nat : n \in T
  BY <1>1, <1>2, Induction
<1> QED BY <1>3 DEF T

(* Nesting is defined by its recursion: nothing is open at first, and a    *)
(* token opens or closes.                                                  *)
LEMMA NestingSteps ==
  ASSUME NEW text
  PROVE  /\ Nesting(text)[0] = <<>>
         /\ \A n \in Nat : Nesting(text)[n + 1] = After(Nesting(text)[n], TypeAt(text, n + 1))
<1> DEFINE F == [n \in Nat |-> (CHOOSE g : Upto(g, text, n))[n]]
           Step(f) == [n \in Nat |-> IF n = 0 THEN <<>> ELSE After(f[n - 1], TypeAt(text, n))]
<1>1. \A n \in Nat : Upto(CHOOSE g : Upto(g, text, n), text, n)
  BY UptoExists
<1>2. F[0] = <<>>
  BY <1>1 DEF Upto
<1>3. ASSUME NEW n \in Nat PROVE F[n + 1] = After(F[n], TypeAt(text, n + 1))
  <2> DEFINE g == CHOOSE a : Upto(a, text, n)
             h == CHOOSE a : Upto(a, text, n + 1)
  <2>1. F[n] = g[n] /\ F[n + 1] = h[n + 1]
    OBVIOUS
  <2>2. Upto(g, text, n) /\ Upto(h, text, n + 1)
    BY <1>1
  <2> HIDE DEF g, h, F
  <2>3. Upto(h, text, n) /\ h[n + 1] = After(h[n], TypeAt(text, n + 1))
    <3>1. n + 1 \in 1 .. n + 1 /\ (n + 1) - 1 = n /\ \A k \in 1 .. n : k \in 1 .. n + 1
      OBVIOUS
    <3> QED BY <2>2, <3>1 DEF Upto
  <2>4. g[n] = h[n]
    BY <2>2, <2>3, UptoUnique
  <2> QED BY <2>1, <2>3, <2>4
<1>4. F = Step(F)
  <2>1. \A n \in Nat : F[n] = IF n = 0 THEN <<>> ELSE After(F[n - 1], TypeAt(text, n))
    <3>1. ASSUME NEW n \in Nat, n # 0 PROVE F[n] = After(F[n - 1], TypeAt(text, n))
      <4>1. n - 1 \in Nat /\ (n - 1) + 1 = n
        BY <3>1
      <4> HIDE DEF F
      <4> QED BY <4>1, <1>3
    <3> HIDE DEF F
    <3> QED BY <1>2, <3>1
  <2>2. F = [n \in Nat |-> F[n]]
    OBVIOUS
  <2> HIDE DEF F
  <2> QED BY <2>1, <2>2
<1>5. Nesting(text) = Step(Nesting(text))
  <2> HIDE DEF F
  <2> QED BY <1>4 DEF Nesting
<1> DEFINE N == Nesting(text)
<1> HIDE DEF N, F
<1>6. N = Step(N)
  BY <1>5 DEF N
<1>7. N[0] = <<>>
  BY <1>6
<1>8. \A n \in Nat : N[n + 1] = After(N[n], TypeAt(text, n + 1))
  <2> TAKE n \in Nat
  <2>1. n + 1 \in Nat /\ n + 1 # 0 /\ (n + 1) - 1 = n
    OBVIOUS
  <2> QED BY <1>6, <2>1
<1> QED BY <1>7, <1>8 DEF N

-----------------------------------------------------------------------------
(* Every bracket.                                                          *)
Marks == Opening \cup Closing

(* After a bracket brackets are open.                                      *)
LEMMA AfterType ==
  ASSUME NEW open \in Seq(Marks), NEW type
  PROVE  After(open, type) \in Seq(Marks)
<1>1. type \in Marks => <<type>> \o open \in Seq(Marks)
  OBVIOUS
<1>2. open # <<>> => Tail(open) \in Seq(Marks)
  OBVIOUS
<1> QED BY <1>1, <1>2 DEF After, Marks

(* A token that is no bracket changes nothing.                             *)
LEMMA AfterPlain ==
  ASSUME NEW open, NEW type, type \notin Marks
  PROVE  After(open, type) = open
BY DEF After, Marks

(* An opening bracket is the innermost one then.                           *)
LEMMA AfterOpening ==
  ASSUME NEW open, NEW type \in Opening
  PROVE  After(open, type) = <<type>> \o open
BY DEF After, Opening, Closes

(* A bracket that closes the innermost one removes it.                     *)
LEMMA AfterClosing ==
  ASSUME NEW open, open # <<>>, NEW type, Closes(Head(open), type)
  PROVE  After(open, type) = Tail(open)
<1>1. type \in Closing
  BY DEF Closes, Closing
<1> QED BY <1>1 DEF After

(* What is open is always a sequence of brackets.                          *)
LEMMA NestingType ==
  ASSUME NEW text
  PROVE  \A n \in Nat : Nesting(text)[n] \in Seq(Marks)
<1> DEFINE N == Nesting(text)
           T == {n \in Nat : N[n] \in Seq(Marks)}
<1>1. N[0] = <<>> /\ <<>> \in Seq(Marks)
  BY NestingSteps
<1>2. \A n \in Nat : N[n + 1] = After(N[n], TypeAt(text, n + 1))
  BY NestingSteps
<1> HIDE DEF N
<1>3. 0 \in T
  BY <1>1
<1>4. ASSUME NEW n \in Nat, n \in T PROVE n + 1 \in T
  <2>1. N[n] \in Seq(Marks) /\ N[n + 1] = After(N[n], TypeAt(text, n + 1))
    BY <1>2, <1>4
  <2>2. After(N[n], TypeAt(text, n + 1)) \in Seq(Marks)
    BY <2>1, AfterType
  <2> QED BY <2>1, <2>2
<1> HIDE DEF T
<1>5. \A n \in Nat : n \in T
  BY <1>3, <1>4, Induction
<1> QED BY <1>5 DEF T, N

(* One token further.                                                      *)
LEMMA NestingAt ==
  ASSUME NEW text, NEW i \in Nat \ {0}
  PROVE  Nesting(text)[i] = After(Nesting(text)[i - 1], TypeAt(text, i))
<1>1. i - 1 \in Nat /\ (i - 1) + 1 = i
  OBVIOUS
<1> QED BY <1>1, NestingSteps

(* Tokens that are no brackets.                                            *)
NoMarks(text, i, j) == \A k \in i .. j - 1 : TypeAt(text, k) \notin Marks

(* Tokens that are no brackets leave open what was open.                   *)
LEMMA NestingPlain ==
  ASSUME NEW text, NEW i \in Nat \ {0}, NEW j \in Nat, i <= j, NoMarks(text, i, j)
  PROVE  \A k \in i .. j : Nesting(text)[k - 1] = Nesting(text)[i - 1]
<1> DEFINE T == {k \in Nat : i + k <= j => Nesting(text)[i + k - 1] = Nesting(text)[i - 1]}
<1>1. 0 \in T
  OBVIOUS
<1>2. ASSUME NEW k \in Nat, k \in T PROVE k + 1 \in T
  <2>1. CASE i + (k + 1) <= j
    <3>1. /\ i + k \in Nat \ {0} /\ i + k \in i .. j - 1
          /\ i + (k + 1) - 1 = i + k
          /\ Nesting(text)[i + k - 1] = Nesting(text)[i - 1]
      BY <1>2, <2>1
    <3>2. Nesting(text)[i + k] = After(Nesting(text)[i + k - 1], TypeAt(text, i + k))
      BY <3>1, NestingAt
    <3>3. TypeAt(text, i + k) \notin Marks
      BY <3>1 DEF NoMarks
    <3> QED BY <3>1, <3>2, <3>3, AfterPlain
  <2> QED BY <2>1
<1> HIDE DEF T
<1>3. \A k \in Nat : k \in T
  BY <1>1, <1>2, Induction
<1>4. ASSUME NEW k \in i .. j PROVE Nesting(text)[k - 1] = Nesting(text)[i - 1]
  <2>1. k - i \in Nat /\ i + (k - i) = k
    OBVIOUS
  <2>2. k - i \in T
    BY <2>1, <1>3
  <2> QED BY <2>1, <2>2 DEF T
<1> QED BY <1>4

(* A bracket that closes nothing is never closed, so where none is open    *)
(* every one before it was an opening one.                                 *)
LEMMA OpeningBefore ==
  ASSUME NEW open \in Seq(Marks), NEW type, After(open, type) \in Seq(Opening)
  PROVE  open \in Seq(Opening)
<1>1. CASE type \notin Marks
  BY <1>1, AfterPlain
<1>2. CASE open # <<>> /\ Closes(Head(open), type)
  <2>1. Tail(open) \in Seq(Opening)
    BY <1>2, AfterClosing
  <2>2. Head(open) \in Opening
    BY <1>2 DEF Closes, Opening
  <2>3. <<Head(open)>> \o Tail(open) \in Seq(Opening)
    BY <2>1, <2>2
  <2>4. open = <<Head(open)>> \o Tail(open)
    BY <1>2
  <2> QED BY <2>3, <2>4
<1>3. CASE type \in Marks /\ ~(open # <<>> /\ Closes(Head(open), type))
  <2>1. <<type>> \o open \in Seq(Opening)
    BY <1>3 DEF After, Marks
  <2>2. Tail(<<type>> \o open) = open /\ <<type>> \o open # <<>>
    BY <1>3
  <2>3. \A s \in Seq(Opening) : s # <<>> => Tail(s) \in Seq(Opening)
    OBVIOUS
  <2> QED BY <2>1, <2>2, <2>3
<1> QED BY <1>1, <1>2, <1>3

(* Up to a place where nothing is open no bracket was one too many.        *)
LEMMA OnlyOpening ==
  ASSUME NEW text, NEW n \in Nat, Nesting(text)[n] = <<>>
  PROVE  \A k \in 0 .. n : Nesting(text)[k] \in Seq(Opening)
<1> DEFINE N == Nesting(text)
           T == {m \in Nat : m <= n => N[n - m] \in Seq(Opening)}
<1>1. /\ N[n] = <<>>
      /\ \A k \in Nat : N[k] \in Seq(Marks) /\ N[k + 1] = After(N[k], TypeAt(text, k + 1))
  BY NestingType, NestingSteps
<1> HIDE DEF N
<1>2. 0 \in T
  <2>1. n - 0 = n /\ <<>> \in Seq(Opening)
    OBVIOUS
  <2> QED BY <1>1, <2>1
<1>3. ASSUME NEW m \in Nat, m \in T PROVE m + 1 \in T
  <2>1. CASE m + 1 <= n
    <3>1. n - (m + 1) \in Nat /\ (n - (m + 1)) + 1 = n - m /\ m <= n
      BY <2>1
    <3>2. After(N[n - (m + 1)], TypeAt(text, n - m)) \in Seq(Opening)
      BY <1>1, <1>3, <3>1
    <3>3. N[n - (m + 1)] \in Seq(Marks)
      BY <1>1, <3>1
    <3> QED BY <3>2, <3>3, OpeningBefore
  <2> QED BY <2>1
<1> HIDE DEF T
<1>4. \A m \in Nat : m \in T
  BY <1>2, <1>3, Induction
<1>5. ASSUME NEW k \in 0 .. n PROVE N[k] \in Seq(Opening)
  <2>1. n - k \in Nat /\ n - k <= n /\ n - (n - k) = k
    OBVIOUS
  <2>2. n - k \in T
    BY <1>4, <2>1
  <2> QED BY <2>1, <2>2 DEF T
<1> QED BY <1>5 DEF N

(* What is open further out has no say in it, as long as only what was     *)
(* opened inside is closed.                                                *)
LEMMA AfterAbove ==
  ASSUME NEW outer \in Seq(Marks), NEW open \in Seq(Opening), NEW type,
         After(open, type) \in Seq(Opening)
  PROVE  After(open \o outer, type) = After(open, type) \o outer
<1> DEFINE all == open \o outer
<1>1. CASE type \notin Marks
  BY <1>1, AfterPlain
<1>2. CASE open # <<>> /\ Closes(Head(open), type)
  <2>1. all # <<>> /\ Head(all) = Head(open) /\ Tail(all) = Tail(open) \o outer
    BY <1>2
  <2>2. After(all, type) = Tail(all)
    <3> HIDE DEF all
    <3> QED BY <1>2, <2>1, AfterClosing
  <2> QED BY <1>2, <2>1, <2>2, AfterClosing
<1>3. CASE type \in Marks /\ ~(open # <<>> /\ Closes(Head(open), type))
  <2>1. After(open, type) = <<type>> \o open
    BY <1>3 DEF After, Marks
  <2>2. type \in Opening
    <3>1. Head(<<type>> \o open) = type /\ <<type>> \o open # <<>>
      BY <1>3
    <3>2. \A s \in Seq(Opening) : s # <<>> => Head(s) \in Opening
      OBVIOUS
    <3> QED BY <2>1, <3>1, <3>2
  <2>3. After(all, type) = <<type>> \o all
    <3> HIDE DEF all
    <3> QED BY <2>2, AfterOpening
  <2>4. <<type>> \o (open \o outer) = (<<type>> \o open) \o outer
    <3>1. <<type>> \in Seq(Marks) /\ open \in Seq(Marks)
      BY <1>3 DEF Marks
    <3> QED BY <3>1, ConcatAssociative
  <2> QED BY <2>1, <2>3, <2>4
<1> QED BY <1>1, <1>2, <1>3

(* What leaves nothing open by itself leaves open what was.                *)
LEMMA NestingWithin ==
  ASSUME NEW c, NEW d, NEW b \in Nat, NEW n \in Nat, Nesting(c)[n] = <<>>,
         \A k \in 1 .. n : TypeAt(d, b + k) = TypeAt(c, k)
  PROVE  Nesting(d)[b + n] = Nesting(d)[b]
<1> DEFINE C == Nesting(c)
           D == Nesting(d)
           A(k) == C[k] \o D[b]
           T == {k \in Nat : k <= n => D[b + k] = A(k)}
<1>1. /\ C[0] = <<>> /\ C[n] = <<>>
      /\ \A k \in Nat : C[k + 1] = After(C[k], TypeAt(c, k + 1))
      /\ \A k \in Nat : D[k + 1] = After(D[k], TypeAt(d, k + 1))
      /\ D[b] \in Seq(Marks)
      /\ \A k \in 0 .. n : C[k] \in Seq(Opening)
  BY NestingType, NestingSteps, OnlyOpening
<1> HIDE DEF C, D
<1>2. <<>> \o D[b] = D[b]
  BY <1>1
<1>3. A(0) = D[b] /\ A(n) = D[b]
  BY <1>1, <1>2
<1>4. ASSUME NEW k \in Nat, k + 1 <= n PROVE After(A(k), TypeAt(c, k + 1)) = A(k + 1)
  <2>1. k \in 0 .. n /\ k + 1 \in 0 .. n
    BY <1>4
  <2>2. C[k + 1] = After(C[k], TypeAt(c, k + 1)) /\ C[k] \in Seq(Opening) /\ C[k + 1] \in Seq(Opening)
    BY <1>1, <2>1
  <2>3. After(C[k] \o D[b], TypeAt(c, k + 1)) = After(C[k], TypeAt(c, k + 1)) \o D[b]
    BY <1>1, <2>2, AfterAbove
  <2> QED BY <2>2, <2>3
<1> HIDE DEF A
<1>5. 0 \in T
  <2>1. b + 0 = b
    OBVIOUS
  <2> QED BY <1>3, <2>1
<1>6. ASSUME NEW k \in Nat, k \in T PROVE k + 1 \in T
  <2>1. CASE k + 1 <= n
    <3>1. k + 1 \in 1 .. n /\ b + k \in Nat /\ (b + k) + 1 = b + (k + 1) /\ k <= n
      BY <2>1
    <3>2. TypeAt(d, b + (k + 1)) = TypeAt(c, k + 1)
      BY <3>1
    <3>3. D[b + (k + 1)] = After(A(k), TypeAt(c, k + 1))
      BY <1>1, <1>6, <3>1, <3>2
    <3> QED BY <1>4, <2>1, <3>3
  <2> QED BY <2>1
<1> HIDE DEF T
<1>7. n \in T
  BY <1>5, <1>6, Induction
<1>8. D[b + n] = A(n)
  BY <1>7 DEF T
<1> QED BY <1>3, <1>8 DEF D

-----------------------------------------------------------------------------
(* Sequences of records of different shapes are sequences over their own   *)
(* elements.                                                               *)
IsSequence(s) == s \in Seq({s[k] : k \in DOMAIN s})

(* A sequence over any set is one over its own elements.                   *)
LEMMA SequenceIntro ==
  ASSUME NEW S, NEW s \in Seq(S)
  PROVE  IsSequence(s)
<1>1. s \in [1 .. Len(s) -> S] /\ Len(s) \in Nat
  OBVIOUS
<1>2. s \in [1 .. Len(s) -> {s[k] : k \in DOMAIN s}]
  BY <1>1
<1> QED BY <1>1, <1>2 DEF IsSequence

(* An element in front of a sequence: its elements, its head and its tail. *)
LEMMA ConsSequence ==
  ASSUME NEW s, IsSequence(s), NEW f
  PROVE  /\ IsSequence(<<f>> \o s)
         /\ <<f>> \o s # <<>>
         /\ Len(s) \in Nat
         /\ Len(<<f>> \o s) = Len(s) + 1
         /\ Head(<<f>> \o s) = f
         /\ Tail(<<f>> \o s) = s
         /\ (<<f>> \o s)[1] = f
         /\ \A k \in 1 .. Len(s) : (<<f>> \o s)[k + 1] = s[k]
<1> DEFINE S == {s[k] : k \in DOMAIN s} \cup {f}
<1>1. s \in Seq(S) /\ Len(s) \in Nat
  <2>1. s \in [1 .. Len(s) -> {s[k] : k \in DOMAIN s}] /\ Len(s) \in Nat
    BY DEF IsSequence
  <2>2. s \in [1 .. Len(s) -> S]
    BY <2>1
  <2> HIDE DEF S
  <2> QED BY <2>1, <2>2
<1>2. f \in S
  OBVIOUS
<1> HIDE DEF S
<1>3. <<f>> \o s \in Seq(S)
  BY <1>1, <1>2
<1>4. IsSequence(<<f>> \o s)
  BY <1>3, SequenceIntro
<1> QED BY <1>1, <1>2, <1>3, <1>4

(* A sequence without its first element.                                   *)
LEMMA TailSequence ==
  ASSUME NEW s, IsSequence(s), s # <<>>
  PROVE  /\ IsSequence(Tail(s))
         /\ Len(s) \in Nat \ {0}
         /\ Len(Tail(s)) = Len(s) - 1
         /\ Head(s) = s[1]
         /\ \A k \in 1 .. Len(s) - 1 : Tail(s)[k] = s[k + 1]
<1> DEFINE S == {s[k] : k \in DOMAIN s}
<1>1. s \in Seq(S)
  BY DEF IsSequence
<1> HIDE DEF S
<1>2. Tail(s) \in Seq(S)
  BY <1>1
<1>3. IsSequence(Tail(s))
  BY <1>2, SequenceIntro
<1> QED BY <1>1, <1>2, <1>3

(* Sequences of the same length and elements are the same.                 *)
LEMMA SameSequence ==
  ASSUME NEW s, IsSequence(s), NEW t, IsSequence(t), Len(s) = Len(t),
         \A k \in 1 .. Len(s) : s[k] = t[k]
  PROVE  s = t
<1> DEFINE S == {s[k] : k \in DOMAIN s}
           T == {t[k] : k \in DOMAIN t}
<1>1. s \in Seq(S) /\ t \in Seq(T)
  BY DEF IsSequence
<1> HIDE DEF S, T
<1>2. s = [k \in 1 .. Len(s) |-> s[k]] /\ t = [k \in 1 .. Len(t) |-> t[k]]
  BY <1>1
<1> QED BY <1>2

-----------------------------------------------------------------------------
(* The fields of a call of the parser.                                     *)
FrameFields == {"in", "at", "s", "p", "o", "items"}

(* The functions that read up to a closing bracket; parseTripleBlock, the  *)
(* outermost, does not. An annotation and the properties of a reifier      *)
(* stand in the same brackets.                                             *)
Bracketing == {"anonymous", "list", "quoted", "tripleterm", "annotation", "properties"}

BracketOf ==
  [in \in Bracketing |->
     IF in = "anonymous" THEN "["
     ELSE IF in = "list" THEN "("
     ELSE IF in = "quoted" THEN "<<"
     ELSE IF in = "tripleterm" THEN "<<("
     ELSE "{|"]

(* The brackets the calls under way have opened, the innermost first.      *)
Brackets(stack) == [k \in 1 .. Len(stack) - 1 |-> BracketOf[stack[k].in]]

(* The calls that can be under way.                                        *)
Framed(stack) ==
  /\ IsSequence(stack)
  /\ \A k \in 1 .. Len(stack) : DOMAIN stack[k] = FrameFields
  /\ \A k \in 1 .. Len(stack) - 1 : stack[k].in \in Bracketing
  /\ stack # <<>> => stack[Len(stack)].in = "block"

(* The brackets of the calls are one for each call but parseTripleBlock.   *)
LEMMA BracketsSequence ==
  ASSUME NEW stack, IsSequence(stack)
  PROVE  /\ IsSequence(Brackets(stack))
         /\ stack # <<>> => Len(Brackets(stack)) = Len(stack) - 1
         /\ Len(stack) \in {0, 1} => Brackets(stack) = <<>>
<1>1. Len(stack) \in Nat /\ (stack # <<>> => Len(stack) # 0)
  BY DEF IsSequence
<1> DEFINE S == {BracketOf[stack[k].in] : k \in 1 .. Len(stack) - 1}
           n == IF Len(stack) = 0 THEN 0 ELSE Len(stack) - 1
<1>2. n \in Nat /\ 1 .. Len(stack) - 1 = 1 .. n
  BY <1>1
<1>3. Brackets(stack) \in [1 .. n -> S]
  BY <1>2 DEF Brackets
<1> HIDE DEF S, n
<1>4. Brackets(stack) \in Seq(S) /\ Len(Brackets(stack)) = n
  BY <1>2, <1>3
<1>5. n = 0 => Brackets(stack) = <<>>
  BY <1>4
<1> QED BY <1>1, <1>4, <1>5, SequenceIntro DEF n

(* parseTripleBlock alone is in no brackets.                               *)
LEMMA BlockFrame ==
  ASSUME NEW f, DOMAIN f = FrameFields, f.in = "block"
  PROVE  Framed(<<f>>) /\ Brackets(<<f>>) = <<>> /\ <<f>> # <<>> /\ Head(<<f>>) = f /\ Len(<<f>>) = 1
<1>1. <<f>> \in Seq({f}) /\ Len(<<f>>) = 1 /\ <<f>>[1] = f /\ <<f>> # <<>> /\ Head(<<f>>) = f
  OBVIOUS
<1>2. IsSequence(<<f>>)
  BY <1>1, SequenceIntro
<1> QED BY <1>1, <1>2, BracketsSequence DEF Framed

(* Nor is Parse.                                                           *)
LEMMA NoFrame ==
  Framed(<<>>) /\ Brackets(<<>>) = <<>> /\ Len(<<>>) = 0
<1>1. <<>> \in Seq({}) /\ Len(<<>>) = 0
  OBVIOUS
<1>2. IsSequence(<<>>)
  BY <1>1, SequenceIntro
<1> QED BY <1>1, <1>2, BracketsSequence DEF Framed

(* The brackets of the calls are brackets.                                 *)
LEMMA BracketsAreMarks ==
  ASSUME NEW stack, Framed(stack)
  PROVE  Brackets(stack) \in Seq(Marks)
<1>1. IsSequence(Brackets(stack))
  BY BracketsSequence DEF Framed
<1>2. \A in \in Bracketing : BracketOf[in] \in Marks
  BY DEF Bracketing, BracketOf, Marks, Opening
<1>3. DOMAIN Brackets(stack) = 1 .. Len(stack) - 1
  BY DEF Brackets
<1>4. \A k \in DOMAIN Brackets(stack) : Brackets(stack)[k] \in Marks
  BY <1>2, <1>3 DEF Framed, Brackets
<1>5. {Brackets(stack)[k] : k \in DOMAIN Brackets(stack)} \subseteq Marks
  BY <1>4
<1> DEFINE b == Brackets(stack)
           S == {b[k] : k \in DOMAIN b}
<1>6. b \in Seq(S) /\ S \subseteq Marks
  BY <1>1, <1>5 DEF IsSequence
<1> HIDE DEF b, S
<1>7. b \in Seq(Marks)
  BY <1>6
<1> QED BY <1>7 DEF b

(* A call in brackets of its own adds its bracket to those of its callers. *)
LEMMA PushFrame ==
  ASSUME NEW stack, Framed(stack), stack # <<>>, NEW f, DOMAIN f = FrameFields, f.in \in Bracketing
  PROVE  /\ Framed(<<f>> \o stack)
         /\ Brackets(<<f>> \o stack) = <<BracketOf[f.in]>> \o Brackets(stack)
<1> DEFINE t == <<f>> \o stack
           b == <<BracketOf[f.in]>> \o Brackets(stack)
<1>1. /\ IsSequence(t) /\ Len(stack) \in Nat /\ Len(t) = Len(stack) + 1 /\ t[1] = f
      /\ \A k \in 1 .. Len(stack) : t[k + 1] = stack[k]
  BY ConsSequence DEF Framed
<1>2. Len(stack) # 0
  BY DEF Framed, IsSequence
<1>3. /\ IsSequence(Brackets(stack)) /\ Len(Brackets(stack)) = Len(stack) - 1
      /\ IsSequence(Brackets(t)) /\ Len(Brackets(t)) = Len(stack)
  <2>1. t # <<>> /\ Len(t) - 1 = Len(stack)
    BY <1>1, ConsSequence DEF Framed
  <2> HIDE DEF t
  <2> QED BY <1>1, <2>1, BracketsSequence DEF Framed
<1>4. /\ IsSequence(b) /\ Len(b) = Len(stack) /\ b[1] = BracketOf[f.in]
      /\ \A k \in 1 .. Len(stack) - 1 : b[k + 1] = Brackets(stack)[k]
  BY <1>1, <1>2, <1>3, ConsSequence
<1> HIDE DEF t, b
<1>5. ASSUME NEW k \in 1 .. Len(t)
      PROVE  /\ DOMAIN t[k] = FrameFields
             /\ k < Len(t) => t[k].in \in Bracketing
             /\ k = Len(t) => t[k].in = "block"
  <2>1. CASE k = 1
    BY <1>1, <1>2, <2>1
  <2>2. CASE k # 1
    <3>1. k - 1 \in 1 .. Len(stack) /\ t[k] = stack[k - 1]
      BY <1>1, <2>2
    <3> QED BY <3>1, <1>1 DEF Framed
  <2> QED BY <2>1, <2>2
<1>6. Framed(t)
  BY <1>1, <1>5 DEF Framed
<1>7. ASSUME NEW k \in 1 .. Len(stack) PROVE Brackets(t)[k] = b[k]
  <2>1. Brackets(t)[k] = BracketOf[t[k].in]
    BY <1>1 DEF Brackets
  <2>2. CASE k = 1
    BY <1>1, <1>4, <2>1, <2>2
  <2>3. CASE k # 1
    <3>1. k - 1 \in 1 .. Len(stack) - 1 /\ (k - 1) + 1 = k /\ k - 1 \in 1 .. Len(stack)
      BY <2>3
    <3>2. t[k] = stack[k - 1] /\ b[k] = Brackets(stack)[k - 1]
      BY <1>1, <1>4, <3>1
    <3> QED BY <2>1, <3>1, <3>2 DEF Brackets
  <2> QED BY <2>2, <2>3
<1>8. Brackets(t) = b
  BY <1>3, <1>4, <1>7, SameSequence
<1> QED BY <1>6, <1>8 DEF t, b

(* Another frame of the same function in place of the innermost.           *)
LEMMA RetopFrame ==
  ASSUME NEW stack, Framed(stack), stack # <<>>, NEW f, DOMAIN f = FrameFields,
         f.in = Head(stack).in
  PROVE  /\ Framed(<<f>> \o Tail(stack))
         /\ Brackets(<<f>> \o Tail(stack)) = Brackets(stack)
         /\ Len(<<f>> \o Tail(stack)) = Len(stack)
         /\ \A k \in 2 .. Len(stack) : (<<f>> \o Tail(stack))[k] = stack[k]
         /\ (<<f>> \o Tail(stack))[1] = f
         /\ <<f>> \o Tail(stack) # <<>>
         /\ Tail(<<f>> \o Tail(stack)) = Tail(stack)
<1> DEFINE t == <<f>> \o Tail(stack)
<1>1. /\ IsSequence(stack) /\ Head(stack) = stack[1] /\ Len(stack) \in Nat \ {0}
      /\ IsSequence(Tail(stack)) /\ Len(Tail(stack)) = Len(stack) - 1
      /\ \A k \in 1 .. Len(stack) - 1 : Tail(stack)[k] = stack[k + 1]
  BY TailSequence DEF Framed
<1>2. /\ IsSequence(t) /\ Len(t) = Len(stack) /\ t[1] = f /\ t # <<>> /\ Tail(t) = Tail(stack)
      /\ \A k \in 1 .. Len(stack) - 1 : t[k + 1] = Tail(stack)[k]
  <2> DEFINE r == Tail(stack)
  <2>1. IsSequence(r)
    BY <1>1
  <2> HIDE DEF r
  <2>2. IsSequence(<<f>> \o r) /\ <<f>> \o r # <<>>
    BY <2>1, ConsSequence
  <2>3. Len(<<f>> \o r) = Len(r) + 1 /\ Tail(<<f>> \o r) = r
    BY <2>1, ConsSequence
  <2>4. (<<f>> \o r)[1] = f /\ \A k \in 1 .. Len(r) : (<<f>> \o r)[k + 1] = r[k]
    BY <2>1, ConsSequence
  <2> QED BY <2>2, <2>3, <2>4, <1>1 DEF r
<1> HIDE DEF t
<1>3. \A k \in 2 .. Len(stack) : t[k] = stack[k]
  <2> TAKE k \in 2 .. Len(stack)
  <2>1. k - 1 \in 1 .. Len(stack) - 1 /\ (k - 1) + 1 = k
    BY <1>1
  <2> QED BY <1>1, <1>2, <2>1
<1>4. \A k \in 1 .. Len(stack) : t[k].in = stack[k].in /\ DOMAIN t[k] = FrameFields
  BY <1>1, <1>2, <1>3 DEF Framed
<1>5. Framed(t)
  BY <1>1, <1>2, <1>4 DEF Framed
<1>6. Brackets(t) = Brackets(stack)
  BY <1>1, <1>2, <1>4 DEF Brackets
<1> QED BY <1>2, <1>3, <1>5, <1>6 DEF t

(* A call that returns leaves the brackets of its callers.                 *)
LEMMA PopFrame ==
  ASSUME NEW stack, Framed(stack), stack # <<>>, Head(stack).in \in Bracketing
  PROVE  /\ Framed(Tail(stack))
         /\ Tail(stack) # <<>>
         /\ Brackets(stack) # <<>>
         /\ Head(Brackets(stack)) = BracketOf[Head(stack).in]
         /\ Tail(Brackets(stack)) = Brackets(Tail(stack))
<1> DEFINE t == Tail(stack)
           b == Tail(Brackets(stack))
<1>1. /\ IsSequence(stack) /\ Head(stack) = stack[1] /\ Len(stack) \in Nat \ {0}
      /\ IsSequence(t) /\ Len(t) = Len(stack) - 1
      /\ \A k \in 1 .. Len(stack) - 1 : t[k] = stack[k + 1]
  BY TailSequence DEF Framed
<1>2. Len(stack) > 1
  BY <1>1 DEF Framed, Bracketing
<1>3. IsSequence(Brackets(stack)) /\ Len(Brackets(stack)) = Len(stack) - 1
  BY <1>1, BracketsSequence
<1>4. \A s : IsSequence(s) /\ Len(s) > 0 => s # <<>>
  OBVIOUS
<1>5. Brackets(stack) # <<>> /\ t # <<>>
  <2>1. Len(Brackets(stack)) > 0 /\ Len(t) > 0
    BY <1>1, <1>2, <1>3
  <2> HIDE DEF t
  <2> QED BY <1>1, <1>3, <1>4, <2>1
<1>6. /\ Head(Brackets(stack)) = Brackets(stack)[1]
      /\ IsSequence(b) /\ Len(b) = Len(Brackets(stack)) - 1
      /\ \A k \in 1 .. Len(Brackets(stack)) - 1 : b[k] = Brackets(stack)[k + 1]
  BY <1>3, <1>5, TailSequence
<1>7. Brackets(stack)[1] = BracketOf[Head(stack).in]
  BY <1>1, <1>2 DEF Brackets
<1> HIDE DEF t, b
<1>8. IsSequence(Brackets(t)) /\ Len(Brackets(t)) = Len(stack) - 2
  BY <1>1, <1>5, BracketsSequence
<1>9. Framed(t)
  <2>1. \A k \in 1 .. Len(t) : k + 1 \in 1 .. Len(stack) /\ t[k] = stack[k + 1]
    BY <1>1
  <2> QED BY <1>1, <2>1 DEF Framed
<1>10. ASSUME NEW k \in 1 .. Len(stack) - 2 PROVE b[k] = Brackets(t)[k]
  <2>1. /\ k + 1 \in 1 .. Len(stack) - 1 /\ k \in 1 .. Len(t) - 1 /\ t[k] = stack[k + 1]
        /\ b[k] = Brackets(stack)[k + 1]
    BY <1>1, <1>3, <1>6
  <2> QED BY <2>1 DEF Brackets
<1>11. b = Brackets(t)
  BY <1>3, <1>6, <1>8, <1>10, SameSequence
<1> QED BY <1>5, <1>6, <1>7, <1>9, <1>11 DEF t, b

-----------------------------------------------------------------------------
(* A text is what TextAssumption says of it.                               *)
ProperText(text) == IsSequence(text) /\ \A i \in 1 .. Len(text) : text[i].t # "end"

(* A place with a token is a place of the text, and there is a token at    *)
(* each of them.                                                           *)
LEMMA TypesOfText ==
  ASSUME NEW text, ProperText(text)
  PROVE  /\ Len(text) \in Nat
         /\ \A i : TypeAt(text, i) # "end" => i \in 1 .. Len(text)
         /\ \A i \in 1 .. Len(text) : TypeAt(text, i) # "end"
<1>1. Len(text) \in Nat
  BY DEF ProperText, IsSequence
<1> QED BY <1>1 DEF ProperText, TypeAt

(* The fields of a TurtleParser.                                           *)
ParserFields ==
  {"input", "pos", "prefixes", "base", "blankNodeCounter", "strictNTriples", "extraTriples",
   "lastTermWasPropertyList", "triples", "stack", "term", "status"}

(* A text whose directives swallow no bracket: in strict N-Triples there   *)
(* are none.                                                               *)
Tame(q) == q.strictNTriples \/ PlainPrefixes(q.input)

(* Between two steps the brackets that are open are those of the calls,    *)
(* if no directive swallowed one.                                          *)
InBrackets(q) ==
  /\ DOMAIN q = ParserFields
  /\ ProperText(q.input)
  /\ q.status = "reading" =>
       /\ q.pos \in 1 .. Len(q.input) + 1
       /\ Framed(q.stack)
       /\ Tame(q) => Nesting(q.input)[q.pos - 1] = Brackets(q.stack)
  /\ q.status = "done" /\ Tame(q) => Balanced(q.input)

(* The outermost call is parseTripleBlock, and no other is.                *)
LEMMA TopFrame ==
  ASSUME NEW stack, Framed(stack), stack # <<>>
  PROVE  /\ DOMAIN Head(stack) = FrameFields
         /\ Head(stack).in \in Bracketing \cup {"block"}
         /\ Head(stack).in = "block" <=> Len(stack) = 1
<1>1. Len(stack) \in Nat \ {0} /\ Head(stack) = stack[1]
  BY TailSequence DEF Framed
<1>2. 1 \in 1 .. Len(stack) /\ (Len(stack) = 1 \/ 1 \in 1 .. Len(stack) - 1)
  <2>1. \A n \in Nat \ {0} : 1 \in 1 .. n /\ (n = 1 \/ 1 \in 1 .. n - 1)
    OBVIOUS
  <2> QED BY <1>1, <2>1
<1>3. \A in \in Bracketing : in # "block"
  BY DEF Bracketing
<1> QED BY <1>1, <1>2, <1>3 DEF Framed

(* The fields of a new call.                                               *)
LEMMA NewFrame ==
  ASSUME NEW in, NEW at, NEW s
  PROVE  DOMAIN Frame(in, at, s) = FrameFields /\ Frame(in, at, s).in = in /\ Frame(in, at, s).at = at
BY DEF Frame, FrameFields

-----------------------------------------------------------------------------
(* The ways a step of the parser moves in its text and its calls.          *)

Kept ==
  /\ DOMAIN parser' = ParserFields
  /\ parser'.input = parser.input /\ parser'.strictNTriples = parser.strictNTriples

(* The parser goes on to n over tokens that are no brackets.               *)
OverPlain(n) ==
  /\ n \in parser.pos .. Len(parser.input) + 1
  /\ Tame(parser) => NoMarks(parser.input, parser.pos, n)

(* The innermost call may go on to another state.                          *)
SameCalls(stack) ==
  \/ stack = parser.stack
  \/ /\ parser.stack # <<>>
     /\ \E f : DOMAIN f = FrameFields /\ f.in = Top.in /\ stack = <<f>> \o Tail(parser.stack)

(* Over tokens that are no brackets.                                       *)
Along ==
  /\ Kept /\ parser'.status = "reading" /\ SameCalls(parser'.stack) /\ OverPlain(parser'.pos)

(* Over an empty pair of brackets.                                         *)
Across ==
  /\ Kept /\ parser'.status = "reading" /\ SameCalls(parser'.stack)
  /\ Here \in Opening /\ Closes(Here, Ahead(1)) /\ parser'.pos = parser.pos + 2

(* Into a call that reads up to the closing bracket.                       *)
Into ==
  /\ Kept /\ parser'.status = "reading"
  /\ \E f, stack : /\ DOMAIN f = FrameFields /\ f.in \in Bracketing /\ BracketOf[f.in] = Here
                   /\ parser.stack # <<>> /\ SameCalls(stack) /\ parser'.stack = <<f>> \o stack
  /\ parser'.pos = parser.pos + 1

(* Out of it, over that bracket.                                           *)
OutOf ==
  /\ Kept /\ parser'.status = "reading"
  /\ parser.stack # <<>> /\ Top.in \in Bracketing /\ parser'.stack = Tail(parser.stack)
  /\ \E n : OverPlain(n) /\ Closes(BracketOf[Top.in], TypeAt(parser.input, n)) /\ parser'.pos = n + 1

(* Into and out of parseTripleBlock.                                       *)
BlockBegins ==
  /\ Kept /\ parser'.status = "reading" /\ parser'.pos = parser.pos
  /\ parser.stack = <<>>
  /\ \E f : DOMAIN f = FrameFields /\ f.in = "block" /\ parser'.stack = <<f>>

BlockEnds ==
  /\ Kept /\ parser'.status = "reading" /\ OverPlain(parser'.pos)
  /\ parser.stack # <<>> /\ Top.in = "block" /\ parser'.stack = <<>>

(* Parse returns, or fails.                                                *)
TextEnds == Kept /\ parser'.status = "done" /\ parser.stack = <<>> /\ Here = "end"

Fails == Kept /\ parser'.status = "failed"

Move == Along \/ Across \/ Into \/ OutOf \/ BlockBegins \/ BlockEnds \/ TextEnds \/ Fails

(* A call that goes on has the brackets it had.                            *)
LEMMA SameCallsKeeps ==
  ASSUME Framed(parser.stack), NEW stack, SameCalls(stack)
  PROVE  Framed(stack) /\ Brackets(stack) = Brackets(parser.stack) /\ (parser.stack # <<>> => stack # <<>>)
<1>1. CASE stack = parser.stack
  BY <1>1
<1>2. CASE stack # parser.stack
  <2>1. PICK f : /\ parser.stack # <<>> /\ DOMAIN f = FrameFields /\ f.in = Head(parser.stack).in
                 /\ stack = <<f>> \o Tail(parser.stack)
    BY <1>2 DEF SameCalls, Top
  <2> DEFINE s == parser.stack
  <2> HIDE DEF s
  <2>2. Framed(s) /\ s # <<>> /\ f.in = Head(s).in /\ stack = <<f>> \o Tail(s)
    BY <2>1 DEF s
  <2>3. Framed(stack) /\ Brackets(stack) = Brackets(s) /\ stack # <<>>
    BY <2>1, <2>2, RetopFrame
  <2> QED BY <2>3 DEF s
<1> QED BY <1>1, <1>2

(* What is read and what is open, at any point of the text.                *)
LEMMA PlaceInText ==
  ASSUME InBrackets(parser), parser.status = "reading"
  PROVE  /\ Len(parser.input) \in Nat
         /\ parser.pos \in Nat \ {0}
         /\ Here = TypeAt(parser.input, parser.pos)
         /\ Ahead(1) = TypeAt(parser.input, parser.pos + 1)
         /\ Brackets(parser.stack) \in Seq(Marks)
         /\ \A n : OverPlain(n) =>
              /\ n \in Nat \ {0}
              /\ Tame(parser) => Nesting(parser.input)[n - 1] = Brackets(parser.stack)
         /\ \A n : TypeAt(parser.input, n) \in Marks => n \in 1 .. Len(parser.input)
<1>1. /\ ProperText(parser.input) /\ parser.pos \in 1 .. Len(parser.input) + 1
      /\ Tame(parser) => Nesting(parser.input)[parser.pos - 1] = Brackets(parser.stack)
  BY DEF InBrackets
<1>2. /\ Len(parser.input) \in Nat
      /\ \A k : TypeAt(parser.input, k) # "end" => k \in 1 .. Len(parser.input)
  BY <1>1, TypesOfText
<1>3. parser.pos \in Nat \ {0} /\ parser.pos + 0 = parser.pos /\ parser.pos - 1 \in Nat
  BY <1>1, <1>2
<1>4. Brackets(parser.stack) \in Seq(Marks)
  BY BracketsAreMarks DEF InBrackets
<1>5. ASSUME NEW n, OverPlain(n)
      PROVE  /\ n \in Nat \ {0}
             /\ Tame(parser) => Nesting(parser.input)[n - 1] = Brackets(parser.stack)
  <2>1. /\ n \in Nat \ {0} /\ parser.pos <= n /\ n \in parser.pos .. n
        /\ Tame(parser) => NoMarks(parser.input, parser.pos, n)
    BY <1>2, <1>3, <1>5 DEF OverPlain
  <2> QED BY <1>1, <1>3, <2>1, NestingPlain
<1>6. "end" \notin Marks
  BY DEF Marks, Opening, Closing
<1> QED BY <1>2, <1>3, <1>4, <1>5, <1>6 DEF Here, Ahead

(* Over tokens that are no brackets.                                       *)
LEMMA AlongKeeps ==
  ASSUME InBrackets(parser), parser.status = "reading", Along
  PROVE  InBrackets(parser)'
<1>1. Framed(parser'.stack) /\ Brackets(parser'.stack) = Brackets(parser.stack)
  BY SameCallsKeeps DEF Along, InBrackets
<1>2. /\ parser'.pos \in Nat \ {0}
      /\ Tame(parser) => Nesting(parser.input)[parser'.pos - 1] = Brackets(parser.stack)
  BY PlaceInText DEF Along
<1>3. parser'.pos \in 1 .. Len(parser.input) + 1
  BY <1>2, PlaceInText DEF Along, OverPlain
<1> QED BY <1>1, <1>2, <1>3 DEF Along, Kept, InBrackets, Tame

(* Over a pair of brackets with nothing in it.                             *)
LEMMA AcrossKeeps ==
  ASSUME InBrackets(parser), parser.status = "reading", Across
  PROVE  InBrackets(parser)'
<1> DEFINE t == parser.input
           i == parser.pos
           B == Brackets(parser.stack)
<1>1. Framed(parser'.stack) /\ Brackets(parser'.stack) = B
  BY SameCallsKeeps DEF Across, InBrackets
<1>2. /\ i \in Nat \ {0} /\ i + 1 \in Nat \ {0} /\ (i + 1) - 1 = i /\ (i + 2) - 1 = i + 1
      /\ B \in Seq(Marks) /\ (Tame(parser) => Nesting(t)[i - 1] = B)
      /\ TypeAt(t, i) = Here /\ TypeAt(t, i + 1) = Ahead(1)
  BY PlaceInText DEF InBrackets
<1>3. Tame(parser) => Nesting(t)[i] = <<Here>> \o B
  BY <1>2, NestingAt, AfterOpening DEF Across
<1>4. <<Here>> \o B # <<>> /\ Head(<<Here>> \o B) = Here /\ Tail(<<Here>> \o B) = B
  BY <1>2
<1>5. Tame(parser) => Nesting(t)[i + 1] = B
  <2>1. Nesting(t)[i + 1] = After(Nesting(t)[i], Ahead(1))
    BY <1>2, NestingAt
  <2>2. After(<<Here>> \o B, Ahead(1)) = Tail(<<Here>> \o B)
    BY <1>4, AfterClosing DEF Across
  <2> QED BY <1>3, <1>4, <2>1, <2>2
<1>6. i + 1 \in 1 .. Len(t)
  <2>1. Ahead(1) \in Marks
    BY DEF Across, Closes, Marks, Closing
  <2> QED BY <1>2, <2>1, PlaceInText
<1>7. parser'.pos = i + 2 /\ i + 2 \in 1 .. Len(t) + 1
  BY <1>2, <1>6, PlaceInText DEF Across
<1> QED BY <1>1, <1>2, <1>5, <1>7 DEF Across, Kept, InBrackets, Tame

(* Into a call that reads up to the closing bracket.                       *)
LEMMA IntoKeeps ==
  ASSUME InBrackets(parser), parser.status = "reading", Into
  PROVE  InBrackets(parser)'
<1> DEFINE t == parser.input
           i == parser.pos
           B == Brackets(parser.stack)
<1>1. PICK f, stack : /\ DOMAIN f = FrameFields /\ f.in \in Bracketing /\ BracketOf[f.in] = Here
                      /\ parser.stack # <<>> /\ SameCalls(stack) /\ parser'.stack = <<f>> \o stack
  BY DEF Into
<1>2. Framed(stack) /\ Brackets(stack) = B /\ stack # <<>>
  BY <1>1, SameCallsKeeps DEF InBrackets
<1>3. Framed(<<f>> \o stack) /\ Brackets(<<f>> \o stack) = <<Here>> \o B
  BY <1>1, <1>2, PushFrame
<1>4. Here \in Opening
  <2>1. \A in \in Bracketing : BracketOf[in] \in Opening
    BY DEF Bracketing, BracketOf, Opening
  <2> QED BY <1>1, <2>1
<1>5. /\ i \in Nat \ {0} /\ (i + 1) - 1 = i
      /\ Tame(parser) => Nesting(t)[i - 1] = B
      /\ TypeAt(t, i) = Here
  BY PlaceInText DEF InBrackets
<1>6. Tame(parser) => Nesting(t)[i] = <<Here>> \o B
  BY <1>4, <1>5, NestingAt, AfterOpening
<1>7. parser'.pos = i + 1 /\ i + 1 \in 1 .. Len(t) + 1
  <2>1. i \in 1 .. Len(t)
    BY <1>4, <1>5, PlaceInText DEF Marks
  <2> QED BY <2>1, <1>5, PlaceInText DEF Into
<1> QED BY <1>1, <1>3, <1>5, <1>6, <1>7 DEF Into, Kept, InBrackets, Tame

(* Out of a call, over the bracket that closes what it opened.             *)
LEMMA OutOfKeeps ==
  ASSUME InBrackets(parser), parser.status = "reading", OutOf
  PROVE  InBrackets(parser)'
<1> DEFINE t == parser.input
           B == Brackets(parser.stack)
<1>1. PICK n : /\ OverPlain(n) /\ Closes(BracketOf[Top.in], TypeAt(t, n)) /\ parser'.pos = n + 1
  BY DEF OutOf
<1>2. /\ Framed(parser.stack) /\ parser.stack # <<>> /\ Head(parser.stack).in \in Bracketing
      /\ parser'.stack = Tail(parser.stack) /\ Top = Head(parser.stack)
  BY DEF OutOf, InBrackets, Top
<1>3. /\ Framed(Tail(parser.stack)) /\ B # <<>> /\ Head(B) = BracketOf[Head(parser.stack).in]
      /\ Tail(B) = Brackets(Tail(parser.stack))
  BY <1>2, PopFrame
<1>4. n \in Nat \ {0} /\ (Tame(parser) => Nesting(t)[n - 1] = B) /\ (n + 1) - 1 = n
  BY <1>1, PlaceInText
<1>5. Tame(parser) => Nesting(t)[n] = Brackets(Tail(parser.stack))
  <2>1. Tame(parser) => Nesting(t)[n] = After(B, TypeAt(t, n))
    BY <1>4, NestingAt
  <2>2. After(B, TypeAt(t, n)) = Tail(B)
    BY <1>1, <1>2, <1>3, AfterClosing
  <2> QED BY <1>3, <2>1, <2>2
<1>6. n \in 1 .. Len(t)
  <2>1. TypeAt(t, n) \in Marks
    BY <1>1 DEF Closes, Marks, Closing
  <2> QED BY <2>1, PlaceInText
<1>7. parser'.pos \in 1 .. Len(t) + 1
  BY <1>1, <1>6, PlaceInText
<1> QED BY <1>1, <1>2, <1>3, <1>4, <1>5, <1>7 DEF OutOf, Kept, InBrackets, Tame

(* A statement begins and ends, and the text ends, with no bracket open.   *)
LEMMA BlockKeeps ==
  ASSUME InBrackets(parser), parser.status = "reading", BlockBegins \/ BlockEnds \/ TextEnds
  PROVE  InBrackets(parser)'
<1>1. CASE BlockBegins
  <2>1. PICK f : DOMAIN f = FrameFields /\ f.in = "block" /\ parser'.stack = <<f>>
    BY <1>1 DEF BlockBegins
  <2>2. Framed(<<f>>) /\ Brackets(<<f>>) = <<>>
    BY <2>1, BlockFrame
  <2>3. Brackets(parser.stack) = <<>>
    BY <1>1, NoFrame DEF BlockBegins
  <2> QED BY <1>1, <2>1, <2>2, <2>3 DEF BlockBegins, Kept, InBrackets, Tame
<1>2. CASE BlockEnds
  <2>1. Brackets(parser.stack) = <<>>
    <3>1. Len(parser.stack) = 1
      BY <1>2, TopFrame DEF BlockEnds, InBrackets, Top
    <3> QED BY <3>1, BracketsSequence DEF InBrackets, Framed
  <2>2. /\ parser'.pos \in Nat \ {0}
        /\ Tame(parser) => Nesting(parser.input)[parser'.pos - 1] = <<>>
    BY <1>2, <2>1, PlaceInText DEF BlockEnds
  <2>3. parser'.pos \in 1 .. Len(parser.input) + 1
    BY <1>2, <2>2, PlaceInText DEF BlockEnds, OverPlain
  <2> QED BY <1>2, <2>2, <2>3, NoFrame DEF BlockEnds, Kept, InBrackets, Tame
<1>3. CASE TextEnds
  <2>1. Brackets(parser.stack) = <<>>
    BY <1>3, NoFrame DEF TextEnds
  <2>2. parser.pos = Len(parser.input) + 1 /\ parser.pos - 1 = Len(parser.input)
    <3>1. parser.pos \notin 1 .. Len(parser.input)
      BY <1>3, PlaceInText, TypesOfText DEF TextEnds, InBrackets
    <3> QED BY <3>1, PlaceInText DEF InBrackets
  <2> QED BY <1>3, <2>1, <2>2 DEF TextEnds, Kept, InBrackets, Balanced, Tame
<1> QED BY <1>1, <1>2, <1>3

(* Every move keeps the brackets that are open those of the calls.         *)
LEMMA MoveKeeps ==
  ASSUME InBrackets(parser), parser.status = "reading", Move
  PROVE  InBrackets(parser)'
<1>1. CASE Fails
  BY <1>1 DEF Fails, Kept, InBrackets
<1> QED BY <1>1, AlongKeeps, AcrossKeeps, IntoKeeps, OutOfKeeps, BlockKeeps DEF Move

(* A term of one token is one of these tokens.                             *)
LEMMA TokenOfTerm ==
  ASSUME NEW q, SimpleTerm(q) # None
  PROVE  TypeAt(q.input, q.pos) \in {"iri", "relative", "name", "label", "string", "boolean", "number", "a"}
<1> SUFFICES ASSUME TypeAt(q.input, q.pos) \notin {"iri", "relative", "name", "label", "string", "boolean", "number", "a"}
    PROVE FALSE
  OBVIOUS
<1> QED BY Zenon DEF SimpleTerm

-----------------------------------------------------------------------------
(* A token that is no bracket.                                             *)
Passable(type) == type \notin Marks \cup {"end"}

(* One token further.                                                      *)
LEMMA OverOne ==
  ASSUME InBrackets(parser), parser.status = "reading",
         NEW n, OverPlain(n), Passable(TypeAt(parser.input, n))
  PROVE  OverPlain(n + 1)
<1>1. /\ Len(parser.input) \in Nat /\ parser.pos \in Nat \ {0}
      /\ n \in 1 .. Len(parser.input)
  <2>1. ProperText(parser.input) /\ TypeAt(parser.input, n) # "end"
    BY DEF InBrackets, Passable
  <2> QED BY <2>1, TypesOfText, PlaceInText
<1>2. /\ n \in parser.pos .. Len(parser.input) + 1
      /\ Tame(parser) => NoMarks(parser.input, parser.pos, n)
  BY DEF OverPlain
<1>3. ASSUME Tame(parser), NEW k \in parser.pos .. (n + 1) - 1 PROVE TypeAt(parser.input, k) \notin Marks
  <2>1. k = n \/ k \in parser.pos .. n - 1
    BY <1>1, <1>2
  <2> QED BY <2>1, <1>2, <1>3 DEF NoMarks, Passable
<1> QED BY <1>1, <1>2, <1>3 DEF OverPlain, NoMarks

(* One, two or three tokens further.                                       *)
LEMMA OverTokens ==
  ASSUME InBrackets(parser), parser.status = "reading"
  PROVE  /\ OverPlain(parser.pos)
         /\ Passable(Here) => OverPlain(parser.pos + 1)
         /\ Passable(Here) /\ Passable(Ahead(1)) => OverPlain(parser.pos + 2)
         /\ Passable(Here) /\ Passable(Ahead(1)) /\ Passable(Ahead(2)) => OverPlain(parser.pos + 3)
<1>1. /\ Len(parser.input) \in Nat /\ parser.pos \in Nat \ {0}
      /\ Here = TypeAt(parser.input, parser.pos)
  BY PlaceInText
<1>2. /\ (parser.pos + 1) + 1 = parser.pos + 2 /\ (parser.pos + 2) + 1 = parser.pos + 3
  BY <1>1
<1>3. OverPlain(parser.pos)
  BY <1>1 DEF OverPlain, NoMarks, InBrackets
<1>4. Passable(Here) => OverPlain(parser.pos + 1)
  BY <1>1, <1>3, OverOne
<1>5. Passable(Here) /\ Passable(Ahead(1)) => OverPlain(parser.pos + 2)
  BY <1>2, <1>4, OverOne DEF Ahead
<1>6. Passable(Here) /\ Passable(Ahead(1)) /\ Passable(Ahead(2)) => OverPlain(parser.pos + 3)
  BY <1>2, <1>5, OverOne DEF Ahead
<1> QED BY <1>3, <1>4, <1>5, <1>6

(* Parse skips a full stop or a semicolon behind a directive.              *)
LEMMA OverEnding ==
  ASSUME InBrackets(parser), parser.status = "reading", NEW n, OverPlain(n)
  PROVE  OverPlain(SkipEnding(n, {".", ";"}))
<1>1. \A type \in {".", ";"} : Passable(type)
  BY DEF Passable, Marks, Opening, Closing
<1> QED BY <1>1, OverOne DEF SkipEnding

(* The first place behind i of those in a set.                             *)
LEMMA FirstBehind ==
  ASSUME NEW S, NEW i \in Nat, NEW m \in Nat, i <= m, m \in S
  PROVE  \E n \in i .. m : n \in S /\ \A k \in i .. n - 1 : k \notin S
<1> DEFINE T == {n \in Nat : i <= n /\ n \in S}
<1>1. m \in T /\ T \subseteq Nat /\ T # {}
  OBVIOUS
<1>2. PICK n \in Nat : n \in T /\ \A k \in T : n <= k
  <2> HIDE DEF T
  <2> QED BY <1>1, Least
<1>3. n \in i .. m /\ n \in S
  BY <1>1, <1>2
<1>4. ASSUME NEW k \in i .. n - 1 PROVE k \notin S
  <2>1. k \in Nat /\ i <= k /\ ~(n <= k)
    OBVIOUS
  <2> QED BY <1>2, <2>1
<1> QED BY <1>3, <1>4

(* parsePredicateObjectList skips repeated semicolons.                     *)
LEMMA OverSemicolons ==
  ASSUME InBrackets(parser), parser.status = "reading"
  PROVE  /\ OverPlain(BehindSemicolons)
         /\ Here # ";" => BehindSemicolons = parser.pos
         /\ \A k \in parser.pos .. BehindSemicolons - 1 : TypeAt(parser.input, k) = ";"
         /\ TypeAt(parser.input, BehindSemicolons) # ";"
<1> DEFINE t == parser.input
           i == parser.pos
           m == Len(t) + 1
           Behind(n) == TypeAt(t, n) # ";" /\ \A k \in i .. n - 1 : TypeAt(t, k) = ";"
           b == BehindSemicolons
<1>1. /\ Len(t) \in Nat /\ i \in Nat /\ i \in 1 .. Len(t) + 1 /\ Here = TypeAt(t, i)
      /\ TypeAt(t, Len(t) + 1) = "end"
  <2>1. Len(t) \in Nat => Len(t) + 1 \notin 1 .. Len(t)
    OBVIOUS
  <2> QED BY <2>1, PlaceInText DEF InBrackets, TypeAt
<1>2. b = CHOOSE n \in i .. m : Behind(n)
  BY DEF BehindSemicolons
<1>3. m \in Nat /\ i <= m /\ TypeAt(t, m) # ";"
  <2>1. \A j, l \in Nat : j \in 1 .. l + 1 => l + 1 \in Nat /\ j <= l + 1
    OBVIOUS
  <2> QED BY <1>1, <2>1
<1> HIDE DEF t, i, m, b
<1>4. \E n \in i .. m : Behind(n)
  <2> DEFINE S == {k \in Nat : TypeAt(t, k) # ";"}
  <2>1. m \in S
    BY <1>3
  <2>2. \E n \in i .. m : n \in S /\ \A k \in i .. n - 1 : k \notin S
    <3> HIDE DEF S
    <3> QED BY <1>1, <1>3, <2>1, FirstBehind
  <2>3. PICK n \in i .. m : n \in S /\ \A k \in i .. n - 1 : k \notin S
    BY <2>2
  <2>4. \A k \in i .. n - 1 : k \in Nat
    BY <1>1
  <2> QED BY <2>3, <2>4
<1>5. b \in i .. m /\ Behind(b)
  <2> HIDE DEF Behind
  <2> QED BY <1>2, <1>4
<1>6. \A k \in i .. b - 1 : TypeAt(t, k) \notin Marks
  BY <1>5 DEF Marks, Opening, Closing
<1>7. Here # ";" => b = i
  <2>1. \A j, l \in Nat : \A n \in j .. l : n # j => j \in j .. n - 1
    OBVIOUS
  <2> QED BY <2>1, <1>1, <1>3, <1>5
<1>8. OverPlain(b)
  BY <1>5, <1>6 DEF OverPlain, NoMarks, t, i, m
<1> QED BY <1>5, <1>7, <1>8 DEF b, t, i

(* Another state of the same call.                                         *)
LEMMA SameFunction ==
  ASSUME InBrackets(parser), parser.status = "reading", parser.stack # <<>>,
         NEW f, DOMAIN f = DOMAIN Top, f.in = Top.in
  PROVE  SameCalls(OnTop(f))
<1>1. DOMAIN Head(parser.stack) = FrameFields
  BY TopFrame DEF InBrackets
<1> QED BY <1>1 DEF SameCalls, OnTop, Callers, Top

(* The fields and the function of the innermost call.                      *)
LEMMA TopOfCalls ==
  ASSUME InBrackets(parser), parser.status = "reading", parser.stack # <<>>
  PROVE  DOMAIN Top = FrameFields /\ Top.in \in Bracketing \cup {"block"}
BY TopFrame DEF InBrackets, Top

-----------------------------------------------------------------------------
(* Every step of a TurtleParser is one of these moves. (Reading, here, is  *)
(* that its status is reading.)                                            *)

USE DEF Reading

(* Up to its colon the name of a prefix has no brackets, in such a text.   *)
LEMMA PrefixName ==
  ASSUME NEW t, ProperText(t), NEW i \in 1 .. Len(t), TypeAt(t, i) = "prefix",
         Colons(t, i + 1) # {}, NEW n, n = First(Colons(t, i + 1))
  PROVE  n \in i + 1 .. Len(t) /\ (PlainPrefixes(t) => NoMarks(t, i, n))
<1> DEFINE S == Colons(t, i + 1)
<1>1. Len(t) \in Nat /\ i \in Nat
  BY TypesOfText
<1>2. n \in S /\ \A j \in S : n <= j
  <2>1. S \subseteq Nat
    BY <1>1 DEF Colons
  <2> QED BY <2>1, FirstIsLeast
<1>3. n \in i + 1 .. Len(t)
  BY <1>2 DEF Colons
<1>4. ASSUME PlainPrefixes(t), NEW k \in i .. n - 1 PROVE TypeAt(t, k) \notin Marks
  <2>1. k \in 1 .. Len(t) /\ TypeAt(t, k) = t[k].t /\ t[i].t = "prefix" /\ k \in Nat /\ i <= k /\ k < n
    BY <1>1, <1>3 DEF TypeAt
  <2>2. CASE k = i
    BY <2>2 DEF Marks, Opening, Closing
  <2>3. CASE k # i /\ t[k].t \in Opening \cup Closing
    <3>1. PICK j \in i + 1 .. k - 1 : t[j].t \in HasColon
      <4>1. i < k
        BY <1>1, <2>1, <2>3
      <4> QED BY <1>4, <4>1, <2>1, <2>3 DEF PlainPrefixes
    <3>2. j \in S /\ j < n
      BY <1>1, <1>3, <2>1, <3>1 DEF Colons
    <3> QED BY <1>2, <1>3, <3>1, <3>2
  <2> QED BY <2>1, <2>2, <2>3 DEF Marks
<1> QED BY <1>3, <1>4 DEF NoMarks

LEMMA OverPrefix ==
  ASSUME InBrackets(parser), parser.status = "reading", Here = "prefix", ~parser.strictNTriples,
         NEW n, n = First(Colons(parser.input, parser.pos + 1)),
         Colons(parser.input, parser.pos + 1) # {}
  PROVE  n \in Nat /\ OverPlain(n)
<1> DEFINE t == parser.input
           i == parser.pos
<1>1. Len(t) \in Nat /\ i \in Nat \ {0} /\ TypeAt(t, i) = "prefix" /\ i \in 1 .. Len(t) /\ ProperText(t)
  <2>1. Here = TypeAt(t, i) /\ Len(t) \in Nat /\ i \in Nat \ {0}
    BY PlaceInText
  <2> QED BY <2>1, TypesOfText DEF InBrackets
<1> HIDE DEF t, i
<1>2. n \in i + 1 .. Len(t) /\ (PlainPrefixes(t) => NoMarks(t, i, n))
  <2>1. Colons(t, i + 1) # {} /\ n = First(Colons(t, i + 1))
    BY DEF t, i
  <2> QED BY <1>1, <2>1, PrefixName
<1>3. n \in Nat /\ n \in i .. Len(t) + 1
  BY <1>1, <1>2
<1> QED BY <1>2, <1>3 DEF OverPlain, Tame, t, i

(* parseVersion, parsePrefix and parseBase go over tokens that are no      *)
(* brackets.                                                               *)
LEMMA DirectiveMoves ==
  ASSUME InBrackets(parser), parser.status = "reading", ReadDirective
  PROVE  Move
<1>1. DOMAIN parser = ParserFields
  BY DEF InBrackets
<1>2. \A n : n \in {"version", "prefix", "@base", "base", "string", "prefixname", "iri", "relative"} => Passable(n)
  BY DEF Passable, Marks, Opening, Closing
<1>3. \A i : IRIAt(parser, i) # None => TypeAt(parser.input, i) \in {"iri", "relative"}
  <2> SUFFICES ASSUME NEW i, TypeAt(parser.input, i) \notin {"iri", "relative"}, IRIAt(parser, i) # None
               PROVE  FALSE
    OBVIOUS
  <2> QED BY Zenon DEF IRIAt
<1>4. CASE ParseVersion
  <2>1. OverPlain(SkipEnding(parser.pos + 2, {".", ";"})) \/ parser.strictNTriples \/ Ahead(1) # "string"
    BY <1>2, <1>4, OverTokens, OverEnding DEF ParseVersion
  <2> QED BY <1>1, <1>4, <2>1 DEF ParseVersion, Fail, Move, Fails, Along, Kept, SameCalls, ParserFields
<1>5. CASE ParsePrefix
  <2> DEFINE colons == Colons(parser.input, parser.pos + 1)
             n == First(colons)
  <2>1. CASE \/ parser.strictNTriples \/ colons = {} \/ TypeAt(parser.input, n) # "prefixname"
             \/ IRIAt(parser, n + 1) = None
    BY <1>1, <1>5, <2>1 DEF ParsePrefix, Fail, Move, Fails, Kept, ParserFields
  <2>2. CASE /\ ~parser.strictNTriples /\ colons # {} /\ TypeAt(parser.input, n) = "prefixname"
             /\ IRIAt(parser, n + 1) # None
    <3>1. n \in Nat /\ OverPlain(n)
      BY <1>5, <2>2, OverPrefix DEF ParsePrefix
    <3>2. OverPlain(n + 1)
      BY <1>2, <2>2, <3>1, OverOne
    <3>3. OverPlain(n + 2)
      <4>1. OverPlain((n + 1) + 1)
        BY <1>2, <1>3, <2>2, <3>2, OverOne
      <4> QED BY <3>1, <4>1
    <3>4. OverPlain(SkipEnding(n + 2, {".", ";"}))
      BY <3>3, OverEnding
    <3>5. /\ Kept /\ parser'.status = "reading" /\ parser'.stack = parser.stack
          /\ parser'.pos = SkipEnding(n + 2, {".", ";"})
      BY <1>1, <1>5, <2>2 DEF ParsePrefix, BetweenStatements, Kept, ParserFields
    <3> QED BY <3>4, <3>5 DEF Move, Along, SameCalls
  <2> QED BY <2>1, <2>2
<1>6. CASE ParseBase
  <2>1. \/ OverPlain(SkipEnding(parser.pos + 2, {".", ";"}))
        \/ parser.strictNTriples \/ IRIAt(parser, parser.pos + 1) = None
    BY <1>2, <1>3, <1>6, OverTokens, OverEnding DEF ParseBase, Ahead
  <2> QED BY <1>1, <1>6, <2>1 DEF ParseBase, Fail, Move, Fails, Along, Kept, SameCalls, ParserFields
<1> QED BY <1>4, <1>5, <1>6 DEF ReadDirective

(* Parse calls parseTripleBlock, or is at the end of the text.             *)
LEMMA TextMoves ==
  ASSUME InBrackets(parser), parser.status = "reading", BeginTripleBlock \/ ReturnTriples
  PROVE  Move
<1>1. DOMAIN parser = ParserFields
  BY DEF InBrackets
<1>2. CASE BeginTripleBlock
  BY <1>1, <1>2, NewFrame DEF BeginTripleBlock, BetweenStatements, Move, BlockBegins, Kept, ParserFields
<1>3. CASE ReturnTriples
  BY <1>1, <1>3 DEF ReturnTriples, BetweenStatements, Move, TextEnds, Kept, ParserFields
<1> QED BY <1>2, <1>3

(* parseTerm goes over a simple term or an empty pair of brackets, or      *)
(* calls what reads a property list, a collection or a triple.             *)
LEMMA TermMoves ==
  ASSUME InBrackets(parser), parser.status = "reading", ParseTerm
  PROVE  Move
<1>1. DOMAIN parser = ParserFields /\ TypeAt(parser.input, parser.pos) = Here
  BY PlaceInText DEF InBrackets
<1>2. CASE ParseSimpleTerm
  <2>1. SimpleTerm(parser) # None => OverPlain(parser.pos + SimpleLength(parser))
    <3>1. SUFFICES ASSUME SimpleTerm(parser) # None PROVE OverPlain(parser.pos + SimpleLength(parser))
      OBVIOUS
    <3>2. Here \in {"iri", "relative", "name", "label", "string", "boolean", "number", "a"}
      BY <1>1, <3>1, TokenOfTerm
    <3>3. Passable(Here) /\ Passable("point") /\ Passable("number")
      BY <3>2 DEF Passable, Marks, Opening, Closing
    <3>4. HasPoint(parser) => Ahead(1) = "point" /\ Ahead(2) = "number"
      BY DEF HasPoint, Ahead
    <3> QED BY <3>3, <3>4, OverTokens DEF SimpleLength
  <2> QED BY <1>1, <1>2, <2>1 DEF ParseSimpleTerm, Fail, Move, Fails, Along, Kept, SameCalls, ParserFields
<1>3. CASE BeginAnonymousBlankNode
  <2>1. CASE Ahead(1) = "]"
    BY <1>1, <1>3, <2>1
       DEF BeginAnonymousBlankNode, Move, Across, Opening, Closes, Kept, SameCalls, ParserFields
  <2>2. CASE Ahead(1) # "]"
    <3> DEFINE f == Frame("anonymous", "predicate", Blank(parser.blankNodeCounter + 1))
    <3>1. DOMAIN f = FrameFields /\ f.in = "anonymous"
      BY NewFrame
    <3>2. parser'.stack = <<f>> \o parser.stack /\ parser'.pos = parser.pos + 1 /\ Kept
          /\ parser'.status = "reading" /\ parser.stack # <<>> /\ Here = "["
      BY <1>1, <1>3, <2>2 DEF BeginAnonymousBlankNode, WantsTerm, Kept, ParserFields
    <3> HIDE DEF f
    <3>3. f.in \in Bracketing /\ BracketOf[f.in] = Here
      BY <3>1, <3>2 DEF Bracketing, BracketOf
    <3> QED BY <3>1, <3>2, <3>3 DEF Move, Into, SameCalls
  <2> QED BY <2>1, <2>2
<1>4. CASE BeginCollection
  <2>1. CASE Ahead(1) = ")"
    BY <1>1, <1>4, <2>1
       DEF BeginCollection, Move, Across, Opening, Closes, Kept, SameCalls, ParserFields
  <2>2. CASE Ahead(1) # ")"
    <3> DEFINE f == Frame("list", "item", None)
    <3>1. DOMAIN f = FrameFields /\ f.in = "list"
      BY NewFrame
    <3>2. parser'.stack = <<f>> \o parser.stack /\ parser'.pos = parser.pos + 1 /\ Kept
          /\ parser'.status = "reading" /\ parser.stack # <<>> /\ Here = "("
      BY <1>1, <1>4, <2>2 DEF BeginCollection, WantsTerm, Kept, ParserFields
    <3> HIDE DEF f
    <3>3. f.in \in Bracketing /\ BracketOf[f.in] = Here
      BY <3>1, <3>2 DEF Bracketing, BracketOf
    <3> QED BY <3>1, <3>2, <3>3 DEF Move, Into, SameCalls
  <2> QED BY <2>1, <2>2
<1>5. CASE BeginQuotedTriple
  <2> DEFINE in == IF Here = "<<" THEN "quoted" ELSE "tripleterm"
             f == Frame(in, "subject", None)
  <2>1. DOMAIN f = FrameFields /\ f.in = in
    BY NewFrame
  <2>2. in \in Bracketing /\ BracketOf[in] = Here
    BY <1>5 DEF BeginQuotedTriple, Bracketing, BracketOf
  <2>3. parser'.stack = <<f>> \o parser.stack /\ parser'.pos = parser.pos + 1 /\ Kept
        /\ parser'.status = "reading" /\ parser.stack # <<>>
    BY <1>1, <1>5 DEF BeginQuotedTriple, WantsTerm, Kept, ParserFields
  <2> HIDE DEF f, in
  <2> QED BY <2>1, <2>2, <2>3 DEF Move, Into, SameCalls
<1> QED BY <1>2, <1>3, <1>4, <1>5 DEF ParseTerm

(* Two elements in front of a sequence.                                    *)
LEMMA ConsTwice ==
  ASSUME NEW s, IsSequence(s), NEW f, NEW g
  PROVE  <<f, g>> \o s = <<f>> \o (<<g>> \o s)
<1> DEFINE S == {s[k] : k \in DOMAIN s} \cup {f, g}
<1>1. s \in Seq(S)
  <2>1. s \in [1 .. Len(s) -> {s[k] : k \in DOMAIN s}] /\ Len(s) \in Nat
    BY DEF IsSequence
  <2>2. s \in [1 .. Len(s) -> S]
    BY <2>1
  <2> HIDE DEF S
  <2> QED BY <2>1, <2>2
<1>2. f \in S /\ g \in S
  OBVIOUS
<1> HIDE DEF S
<1>3. <<f>> \in Seq(S) /\ <<g>> \in Seq(S) /\ <<f, g>> \in Seq(S)
  BY <1>2
<1>4. <<f, g>> = <<f>> \o <<g>>
  <2>1. IsSequence(<<f, g>>) /\ IsSequence(<<g>>)
    BY <1>3, SequenceIntro
  <2>2. Len(<<f, g>>) = 2 /\ <<f, g>>[1] = f /\ <<f, g>>[2] = g /\ Len(<<g>>) = 1 /\ <<g>>[1] = g
    OBVIOUS
  <2> DEFINE one == <<g>>
             two == <<f, g>>
  <2> HIDE DEF one, two
  <2>3. IsSequence(<<f>> \o one) /\ Len(<<f>> \o one) = 2 /\ (<<f>> \o one)[1] = f /\ (<<f>> \o one)[2] = g
    <3>1. 1 \in 1 .. Len(one) /\ 1 + 1 = 2 /\ IsSequence(one) /\ Len(one) = 1
      BY <2>1, <2>2 DEF one
    <3> QED BY <2>2, <3>1, ConsSequence DEF one
  <2>4. two = <<f>> \o one
    <3>1. \A k \in 1 .. Len(two) : k = 1 \/ k = 2
      BY <2>2 DEF two
    <3>2. Len(two) = 2 /\ two[1] = f /\ two[2] = g /\ IsSequence(two)
      BY <2>1, <2>2 DEF two
    <3> QED BY <2>3, <3>1, <3>2, SameSequence
  <2> QED BY <2>4 DEF one, two
<1>5. (<<f>> \o <<g>>) \o s = <<f>> \o (<<g>> \o s)
  BY <1>1, <1>3
<1> QED BY <1>4, <1>5

-----------------------------------------------------------------------------
(* The calls stay as they are, up to the innermost frame's own state.      *)
LEMMA TakeMoves ==
  ASSUME InBrackets(parser), parser.status = "reading",
         \/ TakePredicate \/ TakeObject
         \/ TakeAnnotationPredicate \/ TakeAnnotationObject \/ TakeReifierProperty
         \/ TakeProperty \/ TakeValue \/ TakeItem
         \/ TakeQuotedSubject \/ TakeQuotedPredicate \/ TakeQuotedObject
  PROVE  Move
<1> DEFINE Retops(f) == /\ Kept /\ parser'.status = "reading" /\ parser'.pos = parser.pos
                        /\ parser'.stack = OnTop(f)
<1>1. DOMAIN parser = ParserFields
  BY DEF InBrackets
<1>2. parser.stack # <<>> /\ DOMAIN Top = FrameFields
  BY TopOfCalls DEF TakePredicate, TakeObject, TakeAnnotationPredicate, TakeAnnotationObject,
     TakeReifierProperty, TakeProperty, TakeValue, TakeItem, TakeQuotedSubject,
     TakeQuotedPredicate, TakeQuotedObject, TakeQuotedPart, Returned
<1>3. ASSUME NEW f, DOMAIN f = FrameFields, f.in = Top.in, Fail \/ Retops(f) PROVE Move
  <2>1. CASE Fail
    BY <1>1, <2>1 DEF Fail, Move, Fails, Kept, ParserFields
  <2>2. CASE Retops(f)
    BY <1>2, <1>3, <2>2, SameFunction, OverTokens DEF Move, Along
  <2> QED BY <1>3, <2>1, <2>2
<1> HIDE DEF Retops
<1>4. CASE TakePredicate
  <2> DEFINE f == [Top EXCEPT !.at = "object", !.p = parser.term]
  <2>1. Fail \/ Retops(f)
    BY <1>1, <1>4 DEF TakePredicate, Returned, Retops, Kept, ParserFields
  <2>2. DOMAIN f = FrameFields /\ f.in = Top.in
    BY <1>2 DEF FrameFields
  <2> HIDE DEF f
  <2> QED BY <1>3, <2>1, <2>2
<1>5. CASE TakeObject
  <2> DEFINE f == [Top EXCEPT !.at = "tail", !.o = Denoted(parser.term)]
  <2>1. Fail \/ Retops(f)
    BY <1>1, <1>5 DEF TakeObject, Returned, Retops, Kept, ParserFields
  <2>2. DOMAIN f = FrameFields /\ f.in = Top.in
    BY <1>2 DEF FrameFields
  <2> HIDE DEF f
  <2> QED BY <1>3, <2>1, <2>2
<1>6. CASE TakeAnnotationPredicate
  <2> DEFINE f == [Top EXCEPT !.at = "object", !.p = parser.term]
  <2>1. Fail \/ Retops(f)
    BY <1>1, <1>6 DEF TakeAnnotationPredicate, Returned, Retops, Kept, ParserFields
  <2>2. DOMAIN f = FrameFields /\ f.in = Top.in
    BY <1>2 DEF FrameFields
  <2> HIDE DEF f
  <2> QED BY <1>3, <2>1, <2>2
<1>7. CASE TakeAnnotationObject
  <2> DEFINE f == [Top EXCEPT !.at = "tail", !.o = Denoted(parser.term)]
  <2>1. Fail \/ Retops(f)
    BY <1>1, <1>7 DEF TakeAnnotationObject, Returned, Retops, Kept, ParserFields
  <2>2. DOMAIN f = FrameFields /\ f.in = Top.in
    BY <1>2 DEF FrameFields
  <2> HIDE DEF f
  <2> QED BY <1>3, <2>1, <2>2
<1>8. CASE TakeReifierProperty
  <2> DEFINE f == [Top EXCEPT !.at = "tail"]
  <2>1. Fail \/ Retops(f)
    BY <1>1, <1>8 DEF TakeReifierProperty, Returned, Retops, Kept, ParserFields
  <2>2. DOMAIN f = FrameFields /\ f.in = Top.in
    BY <1>2 DEF FrameFields
  <2> HIDE DEF f
  <2> QED BY <1>3, <2>1, <2>2
<1>9. CASE TakeProperty
  <2> DEFINE f == [Top EXCEPT !.at = "object", !.p = parser.term]
  <2>1. Fail \/ Retops(f)
    BY <1>1, <1>9 DEF TakeProperty, Returned, Retops, Kept, ParserFields
  <2>2. DOMAIN f = FrameFields /\ f.in = Top.in
    BY <1>2 DEF FrameFields
  <2> HIDE DEF f
  <2> QED BY <1>3, <2>1, <2>2
<1>10. CASE TakeValue
  <2> DEFINE f == [Top EXCEPT !.at = "tail"]
  <2>1. Fail \/ Retops(f)
    BY <1>1, <1>10 DEF TakeValue, Returned, Retops, Kept, ParserFields
  <2>2. DOMAIN f = FrameFields /\ f.in = Top.in
    BY <1>2 DEF FrameFields
  <2> HIDE DEF f
  <2> QED BY <1>3, <2>1, <2>2
<1>11. CASE TakeItem
  <2> DEFINE f == [Top EXCEPT !.items = Append(@, parser.term)]
  <2>1. Fail \/ Retops(f)
    BY <1>1, <1>11 DEF TakeItem, Returned, Retops, Kept, ParserFields
  <2>2. DOMAIN f = FrameFields /\ f.in = Top.in
    BY <1>2 DEF FrameFields
  <2> HIDE DEF f
  <2> QED BY <1>3, <2>1, <2>2
<1>12. CASE TakeQuotedSubject
  <2> DEFINE f == [Top EXCEPT !.at = "predicate", !.s = parser.term]
  <2>1. Fail \/ Retops(f)
    BY <1>1, <1>12 DEF TakeQuotedSubject, TakeQuotedPart, Returned, Retops, Kept, ParserFields
  <2>2. DOMAIN f = FrameFields /\ f.in = Top.in
    BY <1>2 DEF FrameFields
  <2> HIDE DEF f
  <2> QED BY <1>3, <2>1, <2>2
<1>13. CASE TakeQuotedPredicate
  <2> DEFINE f == [Top EXCEPT !.at = "object", !.p = parser.term]
  <2>1. Fail \/ Retops(f)
    BY <1>1, <1>13 DEF TakeQuotedPredicate, TakeQuotedPart, Returned, Retops, Kept, ParserFields
  <2>2. DOMAIN f = FrameFields /\ f.in = Top.in
    BY <1>2 DEF FrameFields
  <2> HIDE DEF f
  <2> QED BY <1>3, <2>1, <2>2
<1>14. CASE TakeQuotedObject
  <2> DEFINE f == [Top EXCEPT !.at = "close", !.o = parser.term]
  <2>1. Fail \/ Retops(f)
    BY <1>1, <1>14 DEF TakeQuotedObject, TakeQuotedPart, Returned, Retops, Kept, ParserFields
  <2>2. DOMAIN f = FrameFields /\ f.in = Top.in
    BY <1>2 DEF FrameFields
  <2> HIDE DEF f
  <2> QED BY <1>3, <2>1, <2>2
<1> QED BY <1>4, <1>5, <1>6, <1>7, <1>8, <1>9, <1>10, <1>11, <1>12, <1>13, <1>14

(* What parseTripleBlock takes as its subject, and where that is a         *)
(* statement of its own.                                                   *)
LEMMA SubjectMoves ==
  ASSUME InBrackets(parser), parser.status = "reading", TakeSubject
  PROVE  Move
<1>1. DOMAIN parser = ParserFields /\ OverPlain(parser.pos)
  BY OverTokens DEF InBrackets
<1>2. \A f : parser.stack # <<>> /\ DOMAIN f = DOMAIN Top /\ f.in = Top.in => SameCalls(OnTop(f))
  BY SameFunction
<1>3. parser.stack # <<>> /\ Top.in = "block" /\ DOMAIN Top = FrameFields
  BY TopOfCalls DEF TakeSubject, Returned
<1>4. Here \in FullStop => OverPlain(parser.pos + 1)
  BY OverTokens DEF FullStop, Passable, Marks, Opening, Closing
<1> DEFINE sole == (parser.lastTermWasPropertyList \/ parser.term.kind = "quoted") /\ Here \in FullStop
           f == [Top EXCEPT !.at = "predicate", !.s = Denoted(parser.term)]
<1>5. \/ Fail
      \/ /\ Kept /\ parser'.status = "reading"
         /\ parser'.pos = IF sole THEN parser.pos + 1 ELSE parser.pos
         /\ parser'.stack = IF sole THEN <<>> ELSE OnTop(f)
  BY <1>1, <1>3 DEF TakeSubject, Returned, Kept, ParserFields
<1>6. CASE Fail
  BY <1>1, <1>6 DEF Fail, Move, Fails, Kept, ParserFields
<1>7. SameCalls(OnTop(f))
  BY <1>2, <1>3 DEF FrameFields
<1> HIDE DEF f
<1> QED BY <1>1, <1>3, <1>4, <1>5, <1>6, <1>7 DEF Move, Along, BlockEnds

(* A reifier, and the call that reads an annotation block or the           *)
(* properties of a reifier.                                                *)
LEMMA ReifierMoves ==
  ASSUME InBrackets(parser), parser.status = "reading",
         ParseReifier \/ TakeReifier \/ ParseReifierAnnotation
  PROVE  Move
<1>1. DOMAIN parser = ParserFields /\ OverPlain(parser.pos)
  BY OverTokens DEF InBrackets
<1>2. \A f : parser.stack # <<>> /\ DOMAIN f = DOMAIN Top /\ f.in = Top.in => SameCalls(OnTop(f))
  BY SameFunction
<1>3. parser.stack # <<>> /\ DOMAIN Top = FrameFields
  BY TopOfCalls DEF ParseReifier, TakeReifier, ParseReifierAnnotation, Returned, Expecting
<1>4. Here = "~" => OverPlain(parser.pos + 1)
  BY OverTokens DEF Passable, Marks, Opening, Closing
<1>5. Fail => Move
  BY <1>1 DEF Fail, Move, Fails, Kept, ParserFields
<1>6. CASE ParseReifier
  <2> DEFINE f == [Top EXCEPT !.at = "reified", !.items = <<Blank(parser.blankNodeCounter + 1)>>]
             g == [Top EXCEPT !.at = "reifier"]
  <2>1. \/ Fail
        \/ /\ Kept /\ parser'.status = "reading" /\ parser'.pos = parser.pos + 1 /\ Here = "~"
           /\ parser'.stack \in {OnTop(f), OnTop(g)}
    BY <1>1, <1>6 DEF ParseReifier, Reify, Kept, ParserFields
  <2>2. DOMAIN f = FrameFields /\ f.in = Top.in /\ DOMAIN g = FrameFields /\ g.in = Top.in
    BY <1>3 DEF FrameFields
  <2> HIDE DEF f, g
  <2> QED BY <1>2, <1>3, <1>4, <1>5, <2>1, <2>2 DEF Move, Along
<1>7. CASE TakeReifier
  <2> DEFINE f == [Top EXCEPT !.at = "reified", !.items = <<parser.term>>]
  <2>1. \/ Fail
        \/ /\ Kept /\ parser'.status = "reading" /\ parser'.pos = parser.pos
           /\ parser'.stack = OnTop(f)
    BY <1>1, <1>7 DEF TakeReifier, Reify, Returned, Kept, ParserFields
  <2>2. DOMAIN f = FrameFields /\ f.in = Top.in
    BY <1>3 DEF FrameFields
  <2> HIDE DEF f
  <2> QED BY <1>1, <1>2, <1>3, <1>5, <2>1, <2>2 DEF Move, Along
<1>8. CASE ParseReifierAnnotation
  <2>1. CASE Ahead(1) = "|}"
    BY <1>1, <1>3, <1>8, <2>1
       DEF ParseReifierAnnotation, Expecting, Move, Across, Opening, Closes, Kept, SameCalls, ParserFields
  <2>2. CASE Ahead(1) # "|}"
    <3> DEFINE f == Frame("properties", "predicate", Top.items[1])
    <3>1. DOMAIN f = FrameFields /\ f.in = "properties"
      BY NewFrame
    <3>2. parser'.stack = <<f>> \o parser.stack /\ parser'.pos = parser.pos + 1 /\ Kept
          /\ parser'.status = "reading" /\ Here = "{|"
      BY <1>1, <1>8, <2>2 DEF ParseReifierAnnotation, Expecting, Kept, ParserFields
    <3> HIDE DEF f
    <3>3. f.in \in Bracketing /\ BracketOf[f.in] = Here
      BY <3>1, <3>2 DEF Bracketing, BracketOf
    <3> QED BY <1>3, <3>1, <3>2, <3>3 DEF Move, Into, SameCalls
  <2> QED BY <2>1, <2>2
<1> QED BY <1>6, <1>7, <1>8

(* A comma, a semicolon or what ends a statement, a property list or an    *)
(* annotation block.                                                       *)
LEMMA NextMoves ==
  ASSUME InBrackets(parser), parser.status = "reading",
         NextInBlock \/ NextInAnnotation \/ NextInAnonymous
  PROVE  Move
<1>1. DOMAIN parser = ParserFields /\ OverPlain(parser.pos)
  BY OverTokens DEF InBrackets
<1>2. \A f : parser.stack # <<>> /\ DOMAIN f = DOMAIN Top /\ f.in = Top.in => SameCalls(OnTop(f))
  BY SameFunction
<1>3. parser.stack # <<>> /\ DOMAIN Top = FrameFields
  BY TopOfCalls DEF NextInBlock, NextInAnnotation, NextInAnonymous, Expecting
<1>4. Here = "," => OverPlain(parser.pos + 1)
  BY OverTokens DEF Passable, Marks, Opening, Closing
<1>5. OverPlain(BehindSemicolons)
  BY OverSemicolons
<1>6. ASSUME NextObject, Here = "," PROVE Along
  BY <1>1, <1>2, <1>3, <1>4, <1>6 DEF NextObject, Along, Kept, ParserFields, FrameFields
<1>7. ASSUME NextPredicate PROVE Along
  BY <1>1, <1>2, <1>3, <1>5, <1>7 DEF NextPredicate, Along, Kept, ParserFields, FrameFields
<1>8. ASSUME Fail PROVE Fails
  BY <1>1, <1>8 DEF Fail, Fails, Kept, ParserFields
<1>9. CASE NextInBlock
  <2>1. CASE (NextObject /\ Here = ",") \/ NextPredicate \/ Fail
    BY <2>1, <1>6, <1>7, <1>8 DEF Move
  <2>2. CASE ~((NextObject /\ Here = ",") \/ NextPredicate \/ Fail)
    <3>1. /\ TypeAt(parser.input, BehindSemicolons) \in FullStop /\ Top.in = "block"
          /\ parser' = [parser EXCEPT !.pos = BehindSemicolons + 1, !.stack = <<>>]
      BY <1>9, <2>2 DEF NextInBlock, Expecting
    <3>2. OverPlain(BehindSemicolons + 1)
      BY <1>5, <3>1, OverOne DEF FullStop, Passable, Marks, Opening, Closing
    <3> QED BY <1>1, <1>3, <3>1, <3>2 DEF Move, BlockEnds, Kept, ParserFields
  <2> QED BY <2>1, <2>2
<1>10. CASE NextInAnnotation
  <2>1. CASE (NextObject /\ Here = ",") \/ NextPredicate \/ Fail
    BY <2>1, <1>6, <1>7, <1>8 DEF Move
  <2>2. CASE ~((NextObject /\ Here = ",") \/ NextPredicate \/ Fail)
    <3>1. /\ TypeAt(parser.input, BehindSemicolons) = "|}" /\ Top.in \in {"annotation", "properties"}
          /\ parser' = [parser EXCEPT !.pos = BehindSemicolons + 1, !.stack = Callers]
      BY <1>10, <2>2 DEF NextInAnnotation, Expecting
    <3>2. Top.in \in Bracketing /\ Closes(BracketOf[Top.in], "|}")
      BY <3>1 DEF Bracketing, BracketOf, Closes
    <3> QED BY <1>1, <1>3, <1>5, <3>1, <3>2 DEF Move, OutOf, Kept, ParserFields, Callers
  <2> QED BY <2>1, <2>2
<1>11. CASE NextInAnonymous
  <2>1. CASE (NextObject /\ Here = ",") \/ NextPredicate \/ Fail
    BY <2>1, <1>6, <1>7, <1>8 DEF Move
  <2>2. CASE ~((NextObject /\ Here = ",") \/ NextPredicate \/ Fail)
    <3>1. /\ TypeAt(parser.input, BehindSemicolons) = "]" /\ Top.in = "anonymous"
          /\ parser' = [parser EXCEPT !.pos = BehindSemicolons + 1, !.stack = Callers, !.term = Top.s,
                                      !.lastTermWasPropertyList = TRUE]
      BY <1>11, <2>2 DEF NextInAnonymous, Expecting
    <3>2. Top.in \in Bracketing /\ Closes(BracketOf[Top.in], "]")
      BY <3>1 DEF Bracketing, BracketOf, Closes
    <3> QED BY <1>1, <1>3, <1>5, <3>1, <3>2 DEF Move, OutOf, Kept, ParserFields, Callers
  <2> QED BY <2>1, <2>2
<1> QED BY <1>9, <1>10, <1>11

(* An annotation block begins behind an object or its reifier.             *)
LEMMA AnnotationMoves ==
  ASSUME InBrackets(parser), parser.status = "reading", BeginAnnotation
  PROVE  Move
<1>1. DOMAIN parser = ParserFields
  BY DEF InBrackets
<1>2. parser.stack # <<>> /\ DOMAIN Top = FrameFields /\ Here = "{|"
  BY TopOfCalls DEF BeginAnnotation, Expecting
<1> DEFINE g == Frame("annotation", "predicate", Blank(parser.blankNodeCounter + 1))
           caller == [Top EXCEPT !.at = IF Top.in = "block" THEN "tail" ELSE "annotated"]
<1>3. DOMAIN g = FrameFields /\ g.in = "annotation"
  BY NewFrame
<1>4. SameCalls(OnTop(caller))
  BY <1>2, SameFunction DEF FrameFields
<1>5. \/ Fail
      \/ /\ Kept /\ parser'.status = "reading" /\ parser'.pos = parser.pos + 1
         /\ parser'.stack = <<g, caller>> \o Callers
  BY <1>1 DEF BeginAnnotation, Expecting, Kept, ParserFields
<1> HIDE DEF g, caller
<1>6. <<g, caller>> \o Callers = <<g>> \o OnTop(caller)
  <2>1. IsSequence(Callers)
    BY <1>2, TailSequence DEF InBrackets, Framed, Callers
  <2> QED BY <2>1, ConsTwice DEF OnTop
<1>7. g.in \in Bracketing /\ BracketOf[g.in] = Here
  BY <1>2, <1>3 DEF Bracketing, BracketOf
<1>8. CASE Fail
  BY <1>1, <1>8 DEF Fail, Move, Fails, Kept, ParserFields
<1> QED BY <1>2, <1>3, <1>4, <1>5, <1>6, <1>7, <1>8 DEF Move, Into

(* The bracket that ends a collection, a triple term or a quoted triple.   *)
LEMMA CloseMoves ==
  ASSUME InBrackets(parser), parser.status = "reading",
         \/ EndCollection \/ EndTripleTerm \/ EndQuotedTriple
         \/ ParseIdentifier \/ NewIdentifier \/ TakeIdentifier
  PROVE  Move
<1>1. DOMAIN parser = ParserFields /\ OverPlain(parser.pos) /\ TypeAt(parser.input, parser.pos) = Here
      /\ TypeAt(parser.input, parser.pos + 1) = Ahead(1)
  BY OverTokens, PlaceInText DEF InBrackets
<1>2. \A f : parser.stack # <<>> /\ DOMAIN f = DOMAIN Top /\ f.in = Top.in => SameCalls(OnTop(f))
  BY SameFunction
<1>3. parser.stack # <<>> => DOMAIN Top = FrameFields
  BY TopOfCalls
<1>4. Here = "~" => OverPlain(parser.pos + 1)
  BY OverTokens DEF Passable, Marks, Opening, Closing
<1>5. \A in, type : <<in, type>> \in {<<"list", ")">>, <<"quoted", ">>">>, <<"tripleterm", ")>>">>} =>
        in \in Bracketing /\ Closes(BracketOf[in], type)
  BY DEF Bracketing, BracketOf, Closes
<1>6. ASSUME parser.stack # <<>>, Kept, parser'.status = "reading", parser'.stack = Callers,
             NEW n, OverPlain(n), parser'.pos = n + 1,
             \/ Top.in = "list" /\ TypeAt(parser.input, n) = ")"
             \/ Top.in = "quoted" /\ TypeAt(parser.input, n) = ">>"
             \/ Top.in = "tripleterm" /\ TypeAt(parser.input, n) = ")>>"
      PROVE  Move
  <2>1. Top.in \in Bracketing /\ Closes(BracketOf[Top.in], TypeAt(parser.input, n))
    BY <1>5, <1>6
  <2> QED BY <1>6, <2>1 DEF Move, OutOf, Callers
<1>7. ASSUME Fail PROVE Move
  BY <1>1, <1>7 DEF Fail, Move, Fails, Kept, ParserFields
<1>8. CASE EndCollection
  <2>1. parser.stack # <<>> /\ Kept /\ parser'.status = "reading" /\ parser'.stack = Callers
        /\ parser'.pos = parser.pos + 1 /\ Top.in = "list" /\ Here = ")"
    BY <1>1, <1>8 DEF EndCollection, Expecting, Kept, ParserFields
  <2> QED BY <1>1, <1>6, <2>1
<1>9. CASE EndTripleTerm
  <2>1. \/ Fail
        \/ /\ parser.stack # <<>> /\ Kept /\ parser'.status = "reading" /\ parser'.stack = Callers
           /\ parser'.pos = parser.pos + 1 /\ Top.in = "tripleterm" /\ Here = ")>>"
    BY <1>1, <1>9 DEF EndTripleTerm, Expecting, Kept, ParserFields
  <2> QED BY <1>1, <1>6, <1>7, <2>1
<1>10. CASE EndQuotedTriple
  <2>1. \/ Fail
        \/ /\ parser.stack # <<>> /\ Kept /\ parser'.status = "reading" /\ parser'.stack = Callers
           /\ parser'.pos = parser.pos + 1 /\ Top.in = "quoted" /\ Here = ">>"
    BY <1>1, <1>10 DEF EndQuotedTriple, ReturnQuoted, Expecting, Kept, ParserFields
  <2> QED BY <1>1, <1>6, <1>7, <2>1
<1>11. CASE ParseIdentifier
  BY <1>1, <1>2, <1>3, <1>4, <1>11
     DEF ParseIdentifier, Expecting, Move, Along, Kept, ParserFields, FrameFields
<1>12. CASE NewIdentifier
  <2>1. \/ Fail
        \/ /\ parser.stack # <<>> /\ Kept /\ parser'.status = "reading" /\ parser'.stack = Callers
           /\ parser'.pos = (parser.pos + 1) + 1 /\ Top.in = "quoted" /\ Here = "~" /\ Ahead(1) = ">>"
    BY <1>1, <1>12 DEF NewIdentifier, ReturnReified, ReturnQuoted, Expecting, Kept, ParserFields
  <2> QED BY <1>1, <1>4, <1>6, <1>7, <2>1
<1>13. CASE TakeIdentifier
  <2>1. \/ Fail
        \/ /\ parser.stack # <<>> /\ Kept /\ parser'.status = "reading" /\ parser'.stack = Callers
           /\ parser'.pos = parser.pos + 1 /\ Top.in = "quoted" /\ Here = ">>"
    BY <1>1, <1>13 DEF TakeIdentifier, ReturnReified, ReturnQuoted, Returned, Kept, ParserFields
  <2> QED BY <1>1, <1>6, <1>7, <2>1
<1> QED BY <1>8, <1>9, <1>10, <1>11, <1>12, <1>13

(* Every step of a TurtleParser is one of the moves.                       *)
LEMMA StepMoves ==
  ASSUME InBrackets(parser), ParseStep
  PROVE  parser.status = "reading" /\ Move
<1>1. parser.status = "reading"
  BY DEF ParseStep, ReadDirective, ParseTerm, InTripleBlock, InAnnotation, InAnonymousBlankNode,
         InCollection, InQuotedTriple, ParseVersion, ParsePrefix, ParseBase, BeginTripleBlock,
         ReturnTriples, BetweenStatements, ParseSimpleTerm, BeginAnonymousBlankNode, BeginCollection,
         BeginQuotedTriple, WantsTerm, TakeSubject, TakePredicate, TakeObject, NextInBlock, ParseReifier,
         TakeReifier, ParseReifierAnnotation, BeginAnnotation, TakeAnnotationPredicate,
         TakeAnnotationObject, TakeReifierProperty, NextInAnnotation, TakeProperty, TakeValue,
         NextInAnonymous, TakeItem, EndCollection, TakeQuotedSubject, TakeQuotedPredicate,
         TakeQuotedObject, TakeQuotedPart, EndTripleTerm, EndQuotedTriple, ParseIdentifier,
         NewIdentifier, TakeIdentifier, Returned, Expecting
<1>2. Move
  BY <1>1, DirectiveMoves, TextMoves, TermMoves, TakeMoves, SubjectMoves, ReifierMoves, NextMoves,
     AnnotationMoves, CloseMoves
     DEF ParseStep, InTripleBlock, InAnnotation, InAnonymousBlankNode, InCollection, InQuotedTriple
<1> QED BY <1>1, <1>2

(* A step of a parser leaves it in the brackets of its calls.              *)
LEMMA StepKeepsBrackets ==
  ASSUME InBrackets(parser), ParseStep
  PROVE  InBrackets(parser)' /\ parser'.input = parser.input /\ (Tame(parser) => Tame(parser)')
<1>1. parser.status = "reading" /\ Move
  BY StepMoves
<1>2. Kept
  BY <1>1 DEF Move, Along, Across, Into, OutOf, BlockBegins, BlockEnds, TextEnds, Fails
<1> QED BY <1>1, <1>2, MoveKeeps DEF Kept, Tame
-----------------------------------------------------------------------------
(* The strict parser.                                                      *)

(* Brackets that the strict parser reads as the Turtle parser does.        *)
Shelter == {"[", "(", "<<("}

(* Its calls in brackets: it has none for an annotation block, and << it   *)
(* refuses in the end.                                                     *)
StrictBracketing == {"anonymous", "list", "quoted", "tripleterm"}

(* Where parseTripleBlock can be: at a reifier or an annotation it cannot. *)
StrictPlace == {"subject", "predicate", "object", "tail"}

(* The calls of the strict parser.                                         *)
StrictCalls(stack) ==
  /\ \A k \in 1 .. Len(stack) - 1 : stack[k].in \in StrictBracketing
  /\ stack # <<>> => stack[Len(stack)].at \in StrictPlace

(* What << >> gives, which the strict parser takes for nothing.            *)
IsQuoted(term) == term.kind \in {"quoted", "reified"}

(* What the invariant says of the innermost call.                          *)
StrictTop ==
  /\ parser.strictNTriples
  /\ DOMAIN parser.prefixes = {}
  /\ parser.stack # <<>> =>
       /\ Top.in \in StrictBracketing \cup {"block"}
       /\ Top.in = "block" => Top.at \in StrictPlace

(* A frame in place of the innermost, and a frame for another call.        *)
Replaces(f) == DOMAIN f = FrameFields /\ f.in = Top.in /\ (f.in = "block" => f.at \in StrictPlace)

StrictPush(f) == DOMAIN f = FrameFields /\ f.in \in StrictBracketing

StrictChange ==
  \/ parser'.stack = parser.stack
  \/ parser.stack # <<>> /\ \E f : Replaces(f) /\ parser'.stack = OnTop(f)
  \/ parser.stack # <<>> /\ \E f : StrictPush(f) /\ parser'.stack = <<f>> \o parser.stack
  \/ /\ parser.stack # <<>> /\ Top.in \in StrictBracketing /\ parser'.stack = Callers
     /\ Top.in = "quoted" => IsQuoted(parser'.term)
  \/ parser.stack # <<>> /\ Top.in = "block" /\ parser'.stack = <<>>
  \/ /\ parser.stack = <<>>
     /\ \E f : DOMAIN f = FrameFields /\ f.in = "block" /\ f.at \in StrictPlace /\ parser'.stack = <<f>>

(* Outside brackets it goes over no shorthand, unless it opens a quoted    *)
(* triple.                                                                 *)
StrictPath ==
  parser.stack = <<>> \/ Top.in = "block" =>
    /\ parser.stack # <<>> => ~IsQuoted(parser.term)
    /\ \A k \in parser.pos .. parser'.pos - 1 :
         TypeAt(parser.input, k) \in Shorthand =>
           /\ parser.stack # <<>>
           /\ \E f : StrictPush(f) /\ f.in = "quoted" /\ parser'.stack = <<f>> \o parser.stack

StrictStep ==
  /\ parser'.status = "reading"
  /\ parser'.strictNTriples = parser.strictNTriples /\ parser'.prefixes = parser.prefixes
  /\ StrictChange /\ StrictPath

(* NewNTriplesParser has no prefixes and no base, so a simple term is an   *)
(* IRI, a label or a string.                                               *)
LEMMA StrictTokenOfTerm ==
  ASSUME NEW q, q.strictNTriples, DOMAIN q.prefixes = {}, SimpleTerm(q) # None
  PROVE  TypeAt(q.input, q.pos) \in {"iri", "label", "string"}
<1>1. TypeAt(q.input, q.pos) \in {"iri", "relative", "name", "label", "string"}
  <2> SUFFICES ASSUME TypeAt(q.input, q.pos) \notin {"iri", "relative", "name", "label", "string"}
               PROVE FALSE
    OBVIOUS
  <2> QED BY Zenon DEF SimpleTerm
<1>2. TypeAt(q.input, q.pos) # "name"
  <2> SUFFICES ASSUME TypeAt(q.input, q.pos) = "name" PROVE FALSE
    OBVIOUS
  <2>1. ParsePrefixedName(q) = None
    BY DEF ParsePrefixedName
  <2>2. SimpleTerm(q) = ParsePrefixedName(q)
    BY Zenon DEF SimpleTerm
  <2> QED BY <2>1, <2>2
<1>3. TypeAt(q.input, q.pos) # "relative"
  <2> SUFFICES ASSUME TypeAt(q.input, q.pos) = "relative" PROVE FALSE
    OBVIOUS
  <2>1. IRIAt(q, q.pos) = None
    BY Zenon DEF IRIAt
  <2>2. SimpleTerm(q) = IRIAt(q, q.pos)
    BY Zenon DEF SimpleTerm
  <2> QED BY <2>1, <2>2
<1> QED BY <1>1, <1>2, <1>3

(* It reads no directive.                                                  *)
LEMMA StrictDirectives ==
  ASSUME InBrackets(parser), parser.status = "reading", StrictTop, ReadDirective
  PROVE  Fail
BY DEF StrictTop, ReadDirective, ParseVersion, ParsePrefix, ParseBase

(* It calls parseTripleBlock as the Turtle parser does.                    *)
LEMMA StrictBlock ==
  ASSUME InBrackets(parser), parser.status = "reading", StrictTop, BeginTripleBlock
  PROVE  StrictStep
<1> DEFINE f == Frame("block", "subject", None)
<1>1. DOMAIN parser = ParserFields
  BY DEF InBrackets
<1>2. DOMAIN f = FrameFields /\ f.in = "block" /\ f.at \in StrictPlace
  BY NewFrame DEF StrictPlace
<1>3. /\ parser.stack = <<>> /\ parser'.stack = <<f>> /\ parser'.pos = parser.pos
      /\ parser'.status = "reading" /\ parser'.strictNTriples = parser.strictNTriples
      /\ parser'.prefixes = parser.prefixes
  BY <1>1 DEF BeginTripleBlock, BetweenStatements, ParserFields
<1> HIDE DEF f
<1>4. StrictPath
  BY <1>3, PlaceInText DEF StrictPath
<1> QED BY <1>2, <1>3, <1>4 DEF StrictStep, StrictChange

(* The tokens of a step of one or two.                                     *)
LEMMA TokensOfStep ==
  ASSUME InBrackets(parser), parser.status = "reading"
  PROVE  /\ parser'.pos = parser.pos => \A k \in parser.pos .. parser'.pos - 1 : FALSE
         /\ parser'.pos = parser.pos + 1 =>
              \A k \in parser.pos .. parser'.pos - 1 : TypeAt(parser.input, k) = Here
         /\ parser'.pos = parser.pos + 2 =>
              \A k \in parser.pos .. parser'.pos - 1 : TypeAt(parser.input, k) \in {Here, Ahead(1)}
<1> DEFINE i == parser.pos
           j == parser'.pos
<1>1. i \in Nat /\ Here = TypeAt(parser.input, i) /\ Ahead(1) = TypeAt(parser.input, i + 1)
  BY PlaceInText
<1>2. ASSUME NEW n \in Nat
      PROVE  /\ \A k \in n .. n - 1 : FALSE
             /\ \A k \in n .. (n + 1) - 1 : k = n
             /\ \A k \in n .. (n + 2) - 1 : k = n \/ k = n + 1
  OBVIOUS
<1> HIDE DEF i, j
<1>3. /\ j = i => \A k \in i .. j - 1 : FALSE
      /\ j = i + 1 => \A k \in i .. j - 1 : k = i
      /\ j = i + 2 => \A k \in i .. j - 1 : k = i \/ k = i + 1
  BY <1>1, <1>2
<1> QED BY <1>1, <1>3 DEF i, j

(* Its terms: outside brackets it goes over no shorthand, but into a       *)
(* quoted triple.                                                          *)
LEMMA StrictTerms ==
  ASSUME InBrackets(parser), parser.status = "reading", StrictTop, ParseTerm
  PROVE  Fail \/ StrictStep
<1>1. DOMAIN parser = ParserFields
  BY DEF InBrackets
<1>2. parser.stack # <<>> /\ parser.term = None /\ ~IsQuoted(parser.term)
  <2>1. parser.stack # <<>> /\ parser.term = None
    BY DEF ParseTerm, ParseSimpleTerm, BeginAnonymousBlankNode, BeginCollection,
       BeginQuotedTriple, WantsTerm
  <2> QED BY <2>1 DEF IsQuoted, None
<1>3. \A type : type \in {"iri", "label", "string", "[", "]", "(", ")", "<<("} => type \notin Shorthand
  BY DEF Shorthand
<1> DEFINE Rules == /\ parser'.status = "reading" /\ parser'.strictNTriples = parser.strictNTriples
                    /\ parser'.prefixes = parser.prefixes
<1>4. CASE ParseSimpleTerm
  <2>1. SUFFICES ASSUME ~Fail PROVE StrictStep
    OBVIOUS
  <2>2. SimpleTerm(parser) # None /\ Rules
        /\ parser'.pos = parser.pos + SimpleLength(parser) /\ parser'.stack = parser.stack
    BY <1>1, <1>4, <2>1 DEF ParseSimpleTerm, ParserFields
  <2>3. Here \in {"iri", "label", "string"} /\ parser'.pos = parser.pos + 1
    BY <2>2, StrictTokenOfTerm, PlaceInText DEF StrictTop, SimpleLength
  <2> QED BY <1>2, <1>3, <2>2, <2>3, TokensOfStep DEF StrictStep, StrictChange, StrictPath
<1>5. CASE BeginAnonymousBlankNode
  <2> DEFINE f == Frame("anonymous", "predicate", Blank(parser.blankNodeCounter + 1))
  <2>1. DOMAIN f = FrameFields /\ f.in = "anonymous"
    BY NewFrame
  <2>2. Rules /\ Here = "["
        /\ \/ Ahead(1) = "]" /\ parser'.pos = parser.pos + 2 /\ parser'.stack = parser.stack
           \/ parser'.pos = parser.pos + 1 /\ parser'.stack = <<f>> \o parser.stack
    BY <1>1, <1>5 DEF BeginAnonymousBlankNode, ParserFields
  <2> HIDE DEF f
  <2>3. StrictPath
    BY <1>2, <1>3, <2>2, TokensOfStep DEF StrictPath
  <2> QED BY <1>2, <2>1, <2>2, <2>3 DEF StrictStep, StrictChange, StrictPush, StrictBracketing
<1>6. CASE BeginCollection
  <2> DEFINE f == Frame("list", "item", None)
  <2>1. DOMAIN f = FrameFields /\ f.in = "list"
    BY NewFrame
  <2>2. Rules /\ Here = "("
        /\ \/ Ahead(1) = ")" /\ parser'.pos = parser.pos + 2 /\ parser'.stack = parser.stack
           \/ parser'.pos = parser.pos + 1 /\ parser'.stack = <<f>> \o parser.stack
    BY <1>1, <1>6 DEF BeginCollection, ParserFields
  <2> HIDE DEF f
  <2>3. StrictPath
    BY <1>2, <1>3, <2>2, TokensOfStep DEF StrictPath
  <2> QED BY <1>2, <2>1, <2>2, <2>3 DEF StrictStep, StrictChange, StrictPush, StrictBracketing
<1>7. CASE BeginQuotedTriple
  <2> DEFINE in == IF Here = "<<" THEN "quoted" ELSE "tripleterm"
             f == Frame(in, "subject", None)
  <2>1. DOMAIN f = FrameFields /\ f.in = in
    BY NewFrame
  <2>2. Rules /\ Here \in {"<<", "<<("} /\ parser'.pos = parser.pos + 1
        /\ parser'.stack = <<f>> \o parser.stack
    BY <1>1, <1>7 DEF BeginQuotedTriple, ParserFields
  <2> HIDE DEF f
  <2>3. StrictPush(f) /\ (Here = "<<" => f.in = "quoted")
    BY <2>1, <2>2 DEF StrictPush, StrictBracketing
  <2>4. StrictPath
    BY <1>2, <1>3, <2>2, <2>3, TokensOfStep DEF StrictPath
  <2> QED BY <1>2, <2>2, <2>3, <2>4 DEF StrictStep, StrictChange
<1> QED BY <1>4, <1>5, <1>6, <1>7 DEF ParseTerm

(* What the calls under way take of a term.                                *)
LEMMA StrictTakes ==
  ASSUME InBrackets(parser), parser.status = "reading", StrictTop,
         \/ TakePredicate \/ TakeObject
         \/ TakeProperty \/ TakeValue \/ TakeItem
         \/ TakeQuotedSubject \/ TakeQuotedPredicate \/ TakeQuotedObject
  PROVE  Fail \/ StrictStep
<1> DEFINE Retops(f) == /\ parser'.status = "reading"
                        /\ parser'.strictNTriples = parser.strictNTriples
                        /\ parser'.prefixes = parser.prefixes
                        /\ parser'.pos = parser.pos /\ parser'.stack = OnTop(f)
                        /\ Top.in = "block" => ~IsQuoted(parser.term)
<1>1. DOMAIN parser = ParserFields
  BY DEF InBrackets
<1>2. parser.stack # <<>> /\ DOMAIN Top = FrameFields
  BY TopOfCalls DEF TakePredicate, TakeObject,
     TakeProperty, TakeValue, TakeItem, TakeQuotedSubject,
     TakeQuotedPredicate, TakeQuotedObject, TakeQuotedPart, Returned
<1>3. ASSUME NEW f, Replaces(f), Fail \/ Retops(f) PROVE Fail \/ StrictStep
  <2>1. SUFFICES ASSUME Retops(f) PROVE StrictStep
    BY <1>3
  <2>2. StrictPath
    BY <1>2, <2>1, TokensOfStep DEF StrictPath
  <2> QED BY <1>2, <1>3, <2>1, <2>2 DEF StrictStep, StrictChange
<1> HIDE DEF Retops
<1>4. CASE TakePredicate
  <2> DEFINE f == [Top EXCEPT !.at = "object", !.p = parser.term]
  <2>1. Fail \/ Retops(f)
    BY <1>1, <1>4 DEF TakePredicate, IsQuoted, Returned, Retops, ParserFields
  <2>2. Replaces(f)
    BY <1>2, <1>4 DEF TakePredicate, Returned, Replaces, FrameFields, StrictPlace
  <2> HIDE DEF f
  <2> QED BY <1>3, <2>1, <2>2
<1>5. CASE TakeObject
  <2> DEFINE f == [Top EXCEPT !.at = "tail", !.o = Denoted(parser.term)]
  <2>1. Fail \/ Retops(f)
    BY <1>1, <1>5 DEF TakeObject, IsQuoted, StrictTop, Returned, Retops, ParserFields
  <2>2. Replaces(f)
    BY <1>2, <1>5 DEF TakeObject, Returned, Replaces, FrameFields, StrictPlace
  <2> HIDE DEF f
  <2> QED BY <1>3, <2>1, <2>2
<1>6. CASE TakeProperty
  <2> DEFINE f == [Top EXCEPT !.at = "object", !.p = parser.term]
  <2>1. Fail \/ Retops(f)
    BY <1>1, <1>6 DEF TakeProperty, Returned, Retops, ParserFields
  <2>2. Replaces(f)
    BY <1>2, <1>6 DEF TakeProperty, Returned, Replaces, FrameFields, StrictPlace
  <2> HIDE DEF f
  <2> QED BY <1>3, <2>1, <2>2
<1>7. CASE TakeValue
  <2> DEFINE f == [Top EXCEPT !.at = "tail"]
  <2>1. Fail \/ Retops(f)
    BY <1>1, <1>7 DEF TakeValue, Returned, Retops, ParserFields
  <2>2. Replaces(f)
    BY <1>2, <1>7 DEF TakeValue, Returned, Replaces, FrameFields, StrictPlace
  <2> HIDE DEF f
  <2> QED BY <1>3, <2>1, <2>2
<1>8. CASE TakeItem
  <2> DEFINE f == [Top EXCEPT !.items = Append(@, parser.term)]
  <2>1. Fail \/ Retops(f)
    BY <1>1, <1>8 DEF TakeItem, Returned, Retops, ParserFields
  <2>2. Replaces(f)
    BY <1>2, <1>8 DEF TakeItem, Returned, Replaces, FrameFields, StrictPlace
  <2> HIDE DEF f
  <2> QED BY <1>3, <2>1, <2>2
<1>9. CASE TakeQuotedSubject
  <2> DEFINE f == [Top EXCEPT !.at = "predicate", !.s = parser.term]
  <2>1. Fail \/ Retops(f)
    BY <1>1, <1>9 DEF TakeQuotedSubject, TakeQuotedPart, Returned, Retops, ParserFields
  <2>2. Replaces(f)
    BY <1>2, <1>9 DEF TakeQuotedSubject, TakeQuotedPart, Returned, Replaces, FrameFields, StrictPlace
  <2> HIDE DEF f
  <2> QED BY <1>3, <2>1, <2>2
<1>10. CASE TakeQuotedPredicate
  <2> DEFINE f == [Top EXCEPT !.at = "object", !.p = parser.term]
  <2>1. Fail \/ Retops(f)
    BY <1>1, <1>10 DEF TakeQuotedPredicate, TakeQuotedPart, Returned, Retops, ParserFields
  <2>2. Replaces(f)
    BY <1>2, <1>10 DEF TakeQuotedPredicate, TakeQuotedPart, Returned, Replaces, FrameFields, StrictPlace
  <2> HIDE DEF f
  <2> QED BY <1>3, <2>1, <2>2
<1>11. CASE TakeQuotedObject
  <2> DEFINE f == [Top EXCEPT !.at = "close", !.o = parser.term]
  <2>1. Fail \/ Retops(f)
    BY <1>1, <1>11 DEF TakeQuotedObject, TakeQuotedPart, Returned, Retops, ParserFields
  <2>2. Replaces(f)
    BY <1>2, <1>11 DEF TakeQuotedObject, TakeQuotedPart, Returned, Replaces, FrameFields, StrictPlace
  <2> HIDE DEF f
  <2> QED BY <1>3, <2>1, <2>2
<1> QED BY <1>4, <1>5, <1>6, <1>7, <1>8, <1>9, <1>10, <1>11

(* A quoted triple is read, and refused as the subject only then.          *)
LEMMA StrictSubject ==
  ASSUME InBrackets(parser), parser.status = "reading", StrictTop, TakeSubject
  PROVE  Fail \/ StrictStep
<1>1. DOMAIN parser = ParserFields
  BY DEF InBrackets
<1>2. parser.stack # <<>> /\ Top.in = "block" /\ DOMAIN Top = FrameFields
  BY TopOfCalls DEF TakeSubject, Returned
<1> DEFINE sole == (parser.lastTermWasPropertyList \/ parser.term.kind = "quoted") /\ Here \in FullStop
           f == [Top EXCEPT !.at = "predicate", !.s = Denoted(parser.term)]
<1>3. SUFFICES ASSUME ~Fail PROVE StrictStep
  OBVIOUS
<1>4. /\ parser'.status = "reading" /\ parser'.strictNTriples = parser.strictNTriples
      /\ parser'.prefixes = parser.prefixes
      /\ parser'.pos = IF sole THEN parser.pos + 1 ELSE parser.pos
      /\ parser'.stack = IF sole THEN <<>> ELSE OnTop(f)
      /\ ~IsQuoted(parser.term)
  BY <1>1, <1>3 DEF TakeSubject, Returned, IsQuoted, StrictTop, ParserFields
<1>5. Replaces(f)
  BY <1>2 DEF Replaces, FrameFields, StrictPlace
<1> HIDE DEF f
<1>6. Here \in FullStop => Here \notin Shorthand
  BY DEF FullStop, Shorthand
<1>7. StrictPath
  BY <1>4, <1>6, TokensOfStep DEF StrictPath
<1> QED BY <1>2, <1>4, <1>5, <1>7 DEF StrictStep, StrictChange

(* Outside brackets it takes neither a comma nor a semicolon, and calls in *)
(* brackets take what they take in Turtle.                                 *)
LEMMA StrictNext ==
  ASSUME InBrackets(parser), parser.status = "reading", StrictTop, NextInBlock \/ NextInAnonymous
  PROVE  Fail \/ StrictStep
<1>1. DOMAIN parser = ParserFields
  BY DEF InBrackets
<1>2. parser.stack # <<>> /\ DOMAIN Top = FrameFields /\ ~IsQuoted(parser.term)
  <2>1. parser.stack # <<>> /\ parser.term = None
    BY DEF NextInBlock, NextInAnonymous, Expecting
  <2>2. ~IsQuoted(parser.term)
    BY <2>1 DEF IsQuoted, None
  <2> QED BY <2>1, <2>2, TopOfCalls
<1>3. SUFFICES ASSUME ~Fail PROVE StrictStep
  OBVIOUS
<1>4. CASE NextInBlock
  <2>1. Here \notin {",", ";"}
    BY <1>3, <1>4 DEF NextInBlock, StrictTop
  <2>2. BehindSemicolons = parser.pos
    BY <2>1, OverSemicolons
  <2>3. /\ Here \in FullStop /\ Top.in = "block"
        /\ parser' = [parser EXCEPT !.pos = parser.pos + 1, !.stack = <<>>]
    BY <1>3, <1>4, <2>1, <2>2, PlaceInText DEF NextInBlock, Expecting
  <2>4. Here \notin Shorthand
    BY <2>3 DEF FullStop, Shorthand
  <2>5. /\ parser'.status = "reading" /\ parser'.strictNTriples = parser.strictNTriples
        /\ parser'.prefixes = parser.prefixes /\ parser'.pos = parser.pos + 1 /\ parser'.stack = <<>>
    BY <1>1, <2>3 DEF ParserFields
  <2>6. StrictPath
    BY <1>2, <2>4, <2>5, TokensOfStep DEF StrictPath
  <2> QED BY <1>2, <2>3, <2>5, <2>6 DEF StrictStep, StrictChange
<1>5. CASE NextInAnonymous
  <2> DEFINE f == [Top EXCEPT !.at = "object"]
             g == [Top EXCEPT !.at = "predicate"]
  <2>1. Top.in = "anonymous"
    BY <1>5 DEF NextInAnonymous, Expecting
  <2>2. Replaces(f) /\ Replaces(g)
    BY <1>2, <2>1 DEF Replaces, FrameFields
  <2>3. /\ parser'.status = "reading" /\ parser'.strictNTriples = parser.strictNTriples
        /\ parser'.prefixes = parser.prefixes
        /\ parser'.stack \in {OnTop(f), OnTop(g), Callers}
    BY <1>1, <1>3, <1>5 DEF NextInAnonymous, NextObject, NextPredicate, Expecting, ParserFields
  <2> HIDE DEF f, g
  <2>4. StrictPath
    BY <1>2, <2>1 DEF StrictPath
  <2> QED BY <1>2, <2>1, <2>2, <2>3, <2>4 DEF StrictStep, StrictChange, StrictBracketing
<1> QED BY <1>4, <1>5

(* What ends a call in brackets.                                           *)
LEMMA StrictClose ==
  ASSUME InBrackets(parser), parser.status = "reading", StrictTop,
         \/ EndCollection \/ EndTripleTerm \/ EndQuotedTriple
         \/ ParseIdentifier \/ NewIdentifier \/ TakeIdentifier
  PROVE  Fail \/ StrictStep
<1>1. DOMAIN parser = ParserFields
  BY DEF InBrackets
<1>2. parser.stack # <<>> /\ DOMAIN Top = FrameFields /\ Top.in \in StrictBracketing
  BY TopOfCalls DEF EndCollection, EndTripleTerm, EndQuotedTriple, ParseIdentifier, NewIdentifier,
     TakeIdentifier, Expecting, Returned, StrictBracketing
<1>3. SUFFICES ASSUME ~Fail PROVE StrictStep
  OBVIOUS
<1>4. StrictPath
  BY <1>2 DEF StrictPath, StrictBracketing
<1> DEFINE Rules == /\ parser'.status = "reading" /\ parser'.strictNTriples = parser.strictNTriples
                    /\ parser'.prefixes = parser.prefixes
<1>5. CASE ParseIdentifier
  <2> DEFINE f == [Top EXCEPT !.at = "identifier"]
  <2>1. Rules /\ parser'.stack = OnTop(f)
    BY <1>1, <1>5 DEF ParseIdentifier, Expecting, ParserFields
  <2>2. Replaces(f)
    BY <1>2 DEF Replaces, FrameFields, StrictBracketing
  <2> HIDE DEF f
  <2> QED BY <1>2, <1>4, <2>1, <2>2 DEF StrictStep, StrictChange
<1>6. CASE EndCollection
  <2>1. Rules /\ parser'.stack = Callers /\ Top.in # "quoted"
    BY <1>1, <1>6 DEF EndCollection, Expecting, ParserFields
  <2> QED BY <1>2, <1>4, <2>1 DEF StrictStep, StrictChange
<1>7. CASE EndTripleTerm
  <2>1. Rules /\ parser'.stack = Callers /\ Top.in # "quoted"
    BY <1>1, <1>3, <1>7 DEF EndTripleTerm, Expecting, ParserFields
  <2> QED BY <1>2, <1>4, <2>1 DEF StrictStep, StrictChange
<1>8. CASE EndQuotedTriple
  <2>1. Rules /\ parser'.stack = Callers /\ parser'.term = QuotedTriple(Top.s, Top.p, Top.o)
    BY <1>1, <1>3, <1>8 DEF EndQuotedTriple, ReturnQuoted, ParserFields
  <2>2. IsQuoted(parser'.term)
    BY <2>1 DEF IsQuoted, QuotedTriple
  <2> QED BY <1>2, <1>4, <2>1, <2>2 DEF StrictStep, StrictChange
<1>9. CASE NewIdentifier
  <2> DEFINE id == Blank(parser.blankNodeCounter + 1)
  <2>1. Rules /\ parser'.stack = Callers /\ parser'.term = ReifiedTriple(id)
    BY <1>1, <1>3, <1>9 DEF NewIdentifier, ReturnReified, ReturnQuoted, ParserFields
  <2>2. IsQuoted(parser'.term)
    BY <2>1 DEF IsQuoted, ReifiedTriple
  <2> QED BY <1>2, <1>4, <2>1, <2>2 DEF StrictStep, StrictChange
<1>10. CASE TakeIdentifier
  <2>1. Rules /\ parser'.stack = Callers /\ parser'.term = ReifiedTriple(parser.term)
    BY <1>1, <1>3, <1>10 DEF TakeIdentifier, ReturnReified, ReturnQuoted, ParserFields
  <2>2. IsQuoted(parser'.term)
    BY <2>1 DEF IsQuoted, ReifiedTriple
  <2> QED BY <1>2, <1>4, <2>1, <2>2 DEF StrictStep, StrictChange
<1> QED BY <1>5, <1>6, <1>7, <1>8, <1>9, <1>10

(* It reads neither a reifier nor an annotation block.                     *)
LEMMA StrictRefuses ==
  ASSUME InBrackets(parser), parser.status = "reading", StrictTop,
         \/ ParseReifier \/ TakeReifier \/ ParseReifierAnnotation
         \/ InAnnotation
  PROVE  Fail
<1>1. CASE ParseReifier
  BY <1>1 DEF ParseReifier, StrictTop
<1>2. CASE TakeReifier
  BY <1>2 DEF TakeReifier, Returned, StrictTop, StrictPlace
<1>3. CASE ParseReifierAnnotation
  BY <1>3 DEF ParseReifierAnnotation, Expecting, StrictTop, StrictPlace
<1>4. CASE InAnnotation
  <2>1. Top.in \notin {"annotation", "properties"} \/ parser.stack = <<>>
    BY DEF StrictTop, StrictBracketing
  <2> QED BY <1>4, <2>1 DEF InAnnotation, BeginAnnotation, TakeAnnotationPredicate,
       TakeAnnotationObject, TakeReifierProperty, NextInAnnotation, Returned, Expecting, StrictTop
<1> QED BY <1>1, <1>2, <1>3, <1>4

(* Every step of the strict parser, but the last of a text, refuses the    *)
(* text or is such a step.                                                 *)
LEMMA StrictSteps ==
  ASSUME InBrackets(parser), parser.status = "reading", StrictTop, ParseStep
  PROVE  Fail \/ ReturnTriples \/ StrictStep
BY StrictDirectives, StrictBlock, StrictTerms, StrictTakes, StrictSubject, StrictNext, StrictClose,
   StrictRefuses
   DEF ParseStep, InTripleBlock, InAnonymousBlankNode, InCollection, InQuotedTriple
-----------------------------------------------------------------------------
(* A call within << that a statement began with or comes to: the text will *)
(* be refused.                                                             *)
DoomedCalls(stack) == Len(stack) > 1 /\ stack[Len(stack) - 1].in = "quoted"

(* A call that goes on keeps its function, and so what has been read.      *)
LEMMA StrictRetop ==
  ASSUME NEW stack, Framed(stack), stack # <<>>, StrictCalls(stack),
         NEW f, DOMAIN f = FrameFields, f.in = Head(stack).in, f.in = "block" => f.at \in StrictPlace
  PROVE  /\ StrictCalls(<<f>> \o Tail(stack))
         /\ Len(<<f>> \o Tail(stack)) = Len(stack)
         /\ DoomedCalls(stack) => DoomedCalls(<<f>> \o Tail(stack))
<1> DEFINE t == <<f>> \o Tail(stack)
           n == Len(stack)
<1>1. /\ Len(t) = n /\ t[1] = f /\ t # <<>>
      /\ \A k \in 2 .. n : t[k] = stack[k]
      /\ n \in Nat \ {0} /\ Head(stack) = stack[1]
  BY RetopFrame, TailSequence DEF Framed
<1>2. n = 1 => f.in = "block"
  BY TopFrame
<1> HIDE DEF t, n
<1>3. \A k \in 1 .. n : t[k].in = stack[k].in
  BY <1>1
<1>4. \A m \in Nat \ {0} : (m = 1 \/ m \in 2 .. m) /\ m \in 1 .. m /\ (m > 1 => m - 1 \in 1 .. m) /\ \A k \in 1 .. m - 1 : k \in 1 .. m
  OBVIOUS
<1>5. t[n].at \in StrictPlace
  <2>1. stack[n].at \in StrictPlace
    BY <1>1 DEF StrictCalls, n
  <2> QED BY <1>1, <1>2, <1>4, <2>1
<1>6. \A k \in 1 .. n - 1 : stack[k].in \in StrictBracketing
  BY DEF StrictCalls, n
<1> QED BY <1>1, <1>3, <1>4, <1>5, <1>6 DEF StrictCalls, DoomedCalls, t, n

(* A call in brackets more.                                                *)
LEMMA StrictPushed ==
  ASSUME NEW stack, Framed(stack), stack # <<>>, StrictCalls(stack),
         NEW f, f.in \in StrictBracketing
  PROVE  /\ StrictCalls(<<f>> \o stack)
         /\ Len(<<f>> \o stack) > 1
         /\ DoomedCalls(stack) => DoomedCalls(<<f>> \o stack)
         /\ Len(stack) = 1 /\ f.in = "quoted" => DoomedCalls(<<f>> \o stack)
<1> DEFINE t == <<f>> \o stack
           n == Len(stack)
<1>1. /\ Len(t) = n + 1 /\ t[1] = f /\ t # <<>>
      /\ \A k \in 1 .. n : t[k + 1] = stack[k]
      /\ n \in Nat \ {0}
  BY ConsSequence, TailSequence DEF Framed
<1>2. (\A k \in 1 .. n - 1 : stack[k].in \in StrictBracketing) /\ stack[n].at \in StrictPlace
  BY DEF StrictCalls
<1>3. DoomedCalls(stack) <=> n > 1 /\ stack[n - 1].in = "quoted"
  BY DEF DoomedCalls
<1> HIDE DEF t, n
<1>4. ASSUME NEW k \in 1 .. n PROVE t[k].in \in StrictBracketing
  <2>1. CASE k = 1
    BY <1>1, <2>1
  <2>2. CASE k # 1
    <3>1. k - 1 \in 1 .. n - 1 /\ (k - 1) + 1 = k /\ k - 1 \in 1 .. n
      BY <1>1, <2>2
    <3> QED BY <1>1, <1>2, <3>1
  <2> QED BY <2>1, <2>2
<1>5. t[n + 1].at \in StrictPlace
  <2>1. n \in 1 .. n
    BY <1>1
  <2> QED BY <1>1, <1>2, <2>1
<1>6. n + 1 > 1 /\ (n + 1) - 1 = n
  BY <1>1
<1>7. n > 1 /\ stack[n - 1].in = "quoted" => t[n].in = "quoted"
  <2>1. n > 1 => n - 1 \in 1 .. n /\ (n - 1) + 1 = n
    BY <1>1
  <2> QED BY <1>1, <2>1
<1>8. n = 1 /\ f.in = "quoted" => t[n].in = "quoted"
  BY <1>1
<1>9. StrictCalls(t)
  BY <1>1, <1>4, <1>5, <1>6 DEF StrictCalls
<1>10. Len(t) > 1
  BY <1>1, <1>6
<1>11. t[n].in = "quoted" => DoomedCalls(t)
  BY <1>1, <1>6 DEF DoomedCalls
<1> QED BY <1>3, <1>7, <1>8, <1>9, <1>10, <1>11 DEF t, n

(* A call in brackets less; from << it returns a quoted triple.            *)
LEMMA StrictPopped ==
  ASSUME NEW stack, Framed(stack), StrictCalls(stack), Len(stack) > 1
  PROVE  /\ StrictCalls(Tail(stack)) /\ Tail(stack) # <<>>
         /\ DoomedCalls(stack) =>
              DoomedCalls(Tail(stack)) \/ (Len(Tail(stack)) = 1 /\ Head(stack).in = "quoted")
<1> DEFINE t == Tail(stack)
           n == Len(stack)
<1>0. stack # <<>>
  <2>1. Len(<<>>) = 0
    OBVIOUS
  <2> QED BY <2>1
<1>1. /\ Len(t) = n - 1
      /\ \A k \in 1 .. n - 1 : t[k] = stack[k + 1]
      /\ n \in Nat \ {0} /\ n > 1 /\ Head(stack) = stack[1]
  BY <1>0, TailSequence DEF Framed
<1>2. (\A k \in 1 .. n - 1 : stack[k].in \in StrictBracketing) /\ stack[n].at \in StrictPlace
  BY <1>0 DEF StrictCalls
<1>3. DoomedCalls(stack) => stack[n - 1].in = "quoted"
  BY DEF DoomedCalls
<1>4. t # <<>>
  <2>1. Len(<<>>) = 0 /\ n - 1 # 0
    BY <1>1
  <2> HIDE DEF t
  <2> QED BY <1>1, <2>1
<1> HIDE DEF t, n
<1>5. ASSUME NEW k \in 1 .. (n - 1) - 1 PROVE t[k].in \in StrictBracketing
  <2>1. k + 1 \in 1 .. n - 1 /\ k \in 1 .. n - 1
    BY <1>1
  <2> QED BY <1>1, <1>2, <2>1
<1>6. t[n - 1].at \in StrictPlace
  <2>1. n - 1 \in 1 .. n - 1 /\ (n - 1) + 1 = n
    BY <1>1
  <2> QED BY <1>1, <1>2, <2>1
<1>7. StrictCalls(t)
  BY <1>1, <1>5, <1>6 DEF StrictCalls
<1>8. ASSUME stack[n - 1].in = "quoted"
      PROVE  DoomedCalls(t) \/ (Len(t) = 1 /\ Head(stack).in = "quoted")
  <2>1. CASE n = 2
    BY <1>1, <1>8, <2>1
  <2>2. CASE n # 2
    <3>1. (n - 1) - 1 \in 1 .. n - 1 /\ ((n - 1) - 1) + 1 = n - 1 /\ n - 1 > 1
      BY <1>1, <2>2
    <3> QED BY <1>1, <1>8, <3>1 DEF DoomedCalls
  <2> QED BY <2>1, <2>2
<1> QED BY <1>3, <1>4, <1>7, <1>8 DEF t, n

(* In the brackets of a call that is no quoted triple.                     *)
LEMMA ShelteredBy ==
  ASSUME NEW stack, Framed(stack), StrictCalls(stack), Len(stack) > 1, ~DoomedCalls(stack)
  PROVE  \E k \in DOMAIN Brackets(stack) : Brackets(stack)[k] \in Shelter
<1> DEFINE n == Len(stack)
           k == n - 1
<1>1. n \in Nat
  BY DEF Framed, IsSequence
<1>2. k \in 1 .. n - 1
  BY <1>1
<1>3. DOMAIN Brackets(stack) = 1 .. n - 1 /\ Brackets(stack)[k] = BracketOf[stack[k].in]
  BY <1>2 DEF Brackets
<1>4. stack[k].in \in StrictBracketing /\ stack[k].in # "quoted"
  BY <1>2 DEF StrictCalls, DoomedCalls
<1>5. \A in \in StrictBracketing : in # "quoted" => BracketOf[in] \in Shelter
  BY DEF StrictBracketing, BracketOf, Bracketing, Shelter
<1> QED BY <1>2, <1>3, <1>4, <1>5

(* The tokens of a move stand within the brackets of the calls, or open or *)
(* close one of them.                                                      *)
LEMMA WithinTokens ==
  ASSUME InBrackets(parser), parser.status = "reading", Move, parser'.status = "reading", Tame(parser),
         \E k \in DOMAIN Brackets(parser.stack) : Brackets(parser.stack)[k] \in Shelter
  PROVE  \A k \in parser.pos .. parser'.pos - 1 : Within(parser.input, k, Shelter)
<1> DEFINE t == parser.input
           B == Brackets(parser.stack)
<1>1. IsSequence(B)
  BY BracketsSequence DEF InBrackets, Framed
<1>2. PICK k \in DOMAIN B : B[k] \in Shelter
  OBVIOUS
<1>3. ASSUME NEW n, OverPlain(n) PROVE n \in Nat \ {0} /\ Within(t, n, Shelter)
  <2>1. n \in Nat \ {0} /\ Nesting(t)[n - 1] = B
    BY <1>3, PlaceInText
  <2> QED BY <1>2, <2>1 DEF Within
<1>4. ASSUME NEW n, OverPlain(n), NEW k1 \in parser.pos .. n PROVE Within(t, k1, Shelter)
  <2>1. parser.pos \in Nat \ {0} /\ Len(parser.input) \in Nat /\ n \in Nat \ {0}
    BY <1>3, <1>4, PlaceInText
  <2>2. OverPlain(k1)
    <3>1. n \in parser.pos .. Len(parser.input) + 1 /\ NoMarks(parser.input, parser.pos, n)
      BY <1>4 DEF OverPlain
    <3>2. k1 \in parser.pos .. Len(parser.input) + 1 /\ \A j \in parser.pos .. k1 - 1 : j \in parser.pos .. n - 1
      BY <2>1, <3>1
    <3> QED BY <3>1, <3>2 DEF OverPlain, NoMarks
  <2> QED BY <1>3, <2>2
<1>5. parser.pos \in Nat \ {0} /\ OverPlain(parser.pos) /\ Here = TypeAt(t, parser.pos)
  BY PlaceInText, OverTokens
<1>6. CASE Along \/ BlockBegins \/ BlockEnds \/ TextEnds \/ Fails
  <2>1. OverPlain(parser'.pos)
    BY <1>5, <1>6 DEF Along, BlockBegins, BlockEnds, TextEnds, Fails
  <2>2. parser'.pos \in Nat
    BY <1>3, <2>1
  <2>3. \A j \in parser.pos .. parser'.pos - 1 : j \in parser.pos .. parser'.pos
    BY <1>5, <2>2
  <2> QED BY <1>4, <2>1, <2>3
<1>7. CASE Into
  <2>1. \A i \in Nat : \A j \in i .. (i + 1) - 1 : j \in i .. i
    OBVIOUS
  <2>2. parser'.pos = parser.pos + 1
    BY <1>7 DEF Into
  <2> QED BY <1>4, <1>5, <2>1, <2>2
<1>8. CASE OutOf
  <2>1. PICK n : OverPlain(n) /\ parser'.pos = n + 1
    BY <1>8 DEF OutOf
  <2>2. \A i, m \in Nat : \A j \in i .. (m + 1) - 1 : j \in i .. m
    OBVIOUS
  <2> QED BY <1>3, <1>4, <1>5, <2>1, <2>2
<1>9. CASE Across
  <2>1. Nesting(t)[parser.pos] = <<Here>> \o B
    <3>1. Nesting(t)[parser.pos - 1] = B
      BY DEF InBrackets
    <3> QED BY <1>5, <1>9, <3>1, NestingAt, AfterOpening DEF Across
  <2>2. Within(t, parser.pos + 1, Shelter)
    <3>1. B \in Seq({B[j] : j \in DOMAIN B})
      BY <1>1 DEF IsSequence
    <3>2. k \in 1 .. Len(B)
      BY <3>1
    <3> HIDE DEF B
    <3>3. k + 1 \in DOMAIN (<<Here>> \o B) /\ (<<Here>> \o B)[k + 1] = B[k]
      <4>1. /\ Len(<<Here>> \o B) = Len(B) + 1 /\ IsSequence(<<Here>> \o B) /\ Len(B) \in Nat
            /\ (<<Here>> \o B)[k + 1] = B[k]
        BY <1>1, <3>2, ConsSequence
      <4>2. k + 1 \in 1 .. Len(B) + 1
        BY <3>2, <4>1
      <4>3. \A s : IsSequence(s) => DOMAIN s = 1 .. Len(s)
        BY DEF IsSequence
      <4> QED BY <4>1, <4>2, <4>3
    <3>4. (parser.pos + 1) - 1 = parser.pos
      BY <1>5
    <3> QED BY <1>2, <2>1, <3>3, <3>4 DEF Within
  <2>3. \A i \in Nat : \A j \in i .. (i + 2) - 1 : j = i \/ j = i + 1
    OBVIOUS
  <2>4. parser'.pos = parser.pos + 2
    BY <1>9 DEF Across
  <2> QED BY <1>3, <1>5, <2>2, <2>3, <2>4
<1> QED BY <1>6, <1>7, <1>8, <1>9 DEF Move

-----------------------------------------------------------------------------
(* Before the n-th token every shorthand is within brackets.               *)
Sheltered(text, n) ==
  \A k \in 1 .. n - 1 : TypeAt(text, k) \in Shorthand => Within(text, k, Shelter)

(* Or << >> has just been read there.                                      *)
Doomed(q) == DoomedCalls(q.stack) \/ (Len(q.stack) = 1 /\ IsQuoted(q.term))

(* What holds between two steps of the strict parser.                      *)
InStrict(q) ==
  /\ q.status = "reading" =>
       /\ q.strictNTriples /\ DOMAIN q.prefixes = {}
       /\ StrictCalls(q.stack)
       /\ Doomed(q) \/ Sheltered(q.input, q.pos)
  /\ q.status = "done" => Sheltered(q.input, Len(q.input) + 1)

(* What has been read, and what a move reads, have no shorthand outside    *)
(* brackets.                                                               *)
LEMMA ShelteredOn ==
  ASSUME NEW text, NEW i \in Nat \ {0}, NEW j \in Nat, Sheltered(text, i),
         \A k \in i .. j - 1 : TypeAt(text, k) \in Shorthand => Within(text, k, Shelter)
  PROVE  Sheltered(text, j)
<1>1. \A k \in 1 .. j - 1 : k \in 1 .. i - 1 \/ k \in i .. j - 1
  OBVIOUS
<1> QED BY <1>1 DEF Sheltered

(* A step of the strict parser leaves no shorthand outside brackets behind *)
(* it, but within << >>, which it refuses when it has read it.             *)
LEMMA StepKeepsStrict ==
  ASSUME InBrackets(parser), InStrict(parser), ParseStep
  PROVE  InStrict(parser)'
<1> DEFINE s == parser.stack
           t == parser.input
<1>1. /\ parser.status = "reading" /\ Move /\ parser'.input = t /\ InBrackets(parser)'
      /\ DOMAIN parser = ParserFields
  BY StepMoves, StepKeepsBrackets DEF InBrackets
<1>2. /\ parser.strictNTriples /\ DOMAIN parser.prefixes = {} /\ StrictCalls(s) /\ Framed(s)
      /\ Doomed(parser) \/ Sheltered(t, parser.pos)
  BY <1>1 DEF InStrict, InBrackets
<1>3. /\ Len(s) \in Nat
      /\ Len(s) = 0 <=> s = <<>>
      /\ s # <<>> => Top = s[1] /\ (Top.in = "block" <=> Len(s) = 1) /\ Top = Head(s)
      /\ Callers = Tail(s)
  <2>1. Len(s) \in Nat /\ (Len(s) = 0 <=> s = <<>>)
    BY <1>2 DEF Framed, IsSequence
  <2>2. s # <<>> => Head(s) = s[1] /\ (Head(s).in = "block" <=> Len(s) = 1)
    BY <1>2, TopFrame, TailSequence DEF Framed
  <2> QED BY <2>1, <2>2 DEF Top, Callers
<1> HIDE DEF s
<1>4. StrictTop
  <2>1. ASSUME s # <<>>
        PROVE  Top.in \in StrictBracketing \cup {"block"} /\ (Top.in = "block" => Top.at \in StrictPlace)
    <3>1. Len(s) = 1 => s[1].at \in StrictPlace
      BY <1>2, <2>1 DEF StrictCalls
    <3>2. Len(s) # 1 => s[1].in \in StrictBracketing
      <4>1. \A n \in Nat : n # 0 /\ n # 1 => 1 \in 1 .. n - 1
        OBVIOUS
      <4> QED BY <1>2, <1>3, <2>1, <4>1 DEF StrictCalls
    <3> QED BY <1>3, <2>1, <3>1, <3>2
  <2> QED BY <1>2, <2>1 DEF StrictTop, s
<1>5. CASE Fail
  BY <1>1, <1>5 DEF Fail, InStrict, ParserFields
<1>6. CASE ReturnTriples
  <2>1. s = <<>> /\ Here = "end" /\ parser'.status = "done"
    BY <1>1, <1>6 DEF ReturnTriples, BetweenStatements, s, ParserFields
  <2>2. ~Doomed(parser)
    BY <1>3, <2>1 DEF Doomed, DoomedCalls, s
  <2>3. parser.pos = Len(t) + 1
    <3>1. parser.pos \notin 1 .. Len(t)
      BY <1>1, <2>1, PlaceInText, TypesOfText DEF InBrackets
    <3> QED BY <1>1, <3>1, PlaceInText DEF InBrackets
  <2> QED BY <1>1, <1>2, <2>1, <2>2, <2>3 DEF InStrict
<1>7. CASE StrictStep
  <2> DEFINE u == parser'.stack
             Goes == \A k \in parser.pos .. parser'.pos - 1 :
                       TypeAt(t, k) \in Shorthand => Within(t, k, Shelter)
  <2>1. /\ parser'.status = "reading" /\ parser'.strictNTriples /\ DOMAIN parser'.prefixes = {}
        /\ StrictChange /\ StrictPath
    BY <1>2, <1>7 DEF StrictStep
  <2>2. parser.pos \in Nat \ {0} /\ parser'.pos \in Nat
    <3>1. Len(t) \in Nat /\ parser.pos \in Nat \ {0} /\ parser'.pos \in 1 .. Len(t) + 1
      BY <1>1, <2>1, PlaceInText DEF InBrackets
    <3> QED BY <3>1
  <2>3. Sheltered(t, parser.pos) /\ Goes => Sheltered(t, parser'.pos)
    <3> DEFINE i == parser.pos
               j == parser'.pos
    <3>1. i \in Nat \ {0} /\ j \in Nat
      BY <2>2
    <3> HIDE DEF i, j
    <3>2. (Sheltered(t, i) /\ \A k \in i .. j - 1 : TypeAt(t, k) \in Shorthand => Within(t, k, Shelter)) => Sheltered(t, j)
      BY <3>1, ShelteredOn
    <3> QED BY <3>2 DEF i, j
  <2>4. SUFFICES StrictCalls(u) /\ (Doomed(parser)' \/ Sheltered(t, parser'.pos))
    BY <1>1, <2>1 DEF InStrict
  <2>5. Doomed(parser)' <=> DoomedCalls(u) \/ (Len(u) = 1 /\ IsQuoted(parser'.term))
    BY DEF Doomed
  <2> HIDE DEF u, Goes
  <2>6. /\ u = s => StrictCalls(u) /\ (DoomedCalls(s) => DoomedCalls(u))
        /\ \A f : s # <<>> /\ Replaces(f) /\ u = OnTop(f) =>
             StrictCalls(u) /\ (DoomedCalls(s) => DoomedCalls(u))
        /\ \A f : s # <<>> /\ StrictPush(f) /\ u = <<f>> \o s =>
             /\ StrictCalls(u) /\ (DoomedCalls(s) => DoomedCalls(u))
             /\ Len(s) = 1 /\ f.in = "quoted" => DoomedCalls(u)
    <3>1. u = s => StrictCalls(u) /\ (DoomedCalls(s) => DoomedCalls(u))
      BY <1>2
    <3>2. ASSUME NEW f, s # <<>>, Replaces(f), u = OnTop(f)
          PROVE  StrictCalls(u) /\ (DoomedCalls(s) => DoomedCalls(u))
      <4>1. DOMAIN f = FrameFields /\ f.in = Head(s).in /\ (f.in = "block" => f.at \in StrictPlace)
            /\ u = <<f>> \o Tail(s)
        BY <1>3, <3>2 DEF Replaces, OnTop
      <4> QED BY <1>2, <3>2, <4>1, StrictRetop
    <3>3. ASSUME NEW f, s # <<>>, StrictPush(f), u = <<f>> \o s
          PROVE  /\ StrictCalls(u) /\ (DoomedCalls(s) => DoomedCalls(u))
                 /\ Len(s) = 1 /\ f.in = "quoted" => DoomedCalls(u)
      BY <1>2, <3>3, StrictPushed DEF StrictPush
    <3> QED BY <3>1, <3>2, <3>3
  <2>7. CASE Len(s) > 1
    <3>0. Len(s) # 0 /\ Len(s) # 1
      <4>1. \A n \in Nat : n > 1 => n # 0 /\ n # 1
        OBVIOUS
      <4> QED BY <1>3, <2>7, <4>1
    <3>1. s # <<>> /\ Top.in # "block"
      BY <1>3, <3>0
    <3>2. CASE DoomedCalls(s)
      <4>1. CASE u = Tail(s) /\ (Top.in = "quoted" => IsQuoted(parser'.term))
        BY <1>2, <1>3, <2>5, <2>7, <3>1, <3>2, <4>1, StrictPopped
      <4>2. CASE ~(u = Tail(s) /\ (Top.in = "quoted" => IsQuoted(parser'.term)))
        <5>1. StrictCalls(u) /\ DoomedCalls(u)
          BY <1>3, <2>1, <2>6, <3>1, <3>2, <4>2 DEF StrictChange, s, u
        <5> QED BY <2>5, <5>1
      <4> QED BY <4>1, <4>2
    <3>3. CASE ~DoomedCalls(s)
      <4>1. Sheltered(t, parser.pos)
        BY <1>2, <3>0, <3>3 DEF Doomed, s
      <4>2. Goes
        <5>1. \E k \in DOMAIN Brackets(s) : Brackets(s)[k] \in Shelter
          BY <1>2, <2>7, <3>3, ShelteredBy
        <5>2. \A k \in parser.pos .. parser'.pos - 1 : Within(t, k, Shelter)
          BY <1>1, <1>2, <2>1, <5>1, WithinTokens DEF s, Tame
        <5> QED BY <5>2 DEF Goes
      <4>3. StrictCalls(u)
        <5>1. StrictCalls(Tail(s))
          BY <1>2, <2>7, StrictPopped
        <5> QED BY <1>3, <2>1, <2>6, <3>1, <5>1 DEF StrictChange, s, u
      <4> QED BY <2>3, <4>1, <4>2, <4>3
    <3> QED BY <3>2, <3>3
  <2>8. CASE s # <<>> /\ ~(Len(s) > 1)
    <3>1. Len(s) = 1 /\ Top.in = "block"
      <4>1. \A n \in Nat : n # 0 /\ ~(n > 1) => n = 1
        OBVIOUS
      <4>2. Len(s) = 1
        BY <1>3, <2>8, <4>1
      <4> QED BY <1>3, <2>8, <4>2
    <3>2. ~IsQuoted(parser.term) /\ ~DoomedCalls(s) /\ ~Doomed(parser)
      BY <2>1, <2>8, <3>1 DEF StrictPath, DoomedCalls, Doomed, s
    <3>3. DoomedCalls(u) \/ Goes
      <4>1. ASSUME NEW k \in parser.pos .. parser'.pos - 1, TypeAt(t, k) \in Shorthand
            PROVE  DoomedCalls(u)
        <5>1. PICK f : StrictPush(f) /\ f.in = "quoted" /\ u = <<f>> \o s
          BY <2>1, <3>1, <4>1 DEF StrictPath, s, u
        <5> QED BY <2>6, <2>8, <3>1, <5>1
      <4> QED BY <4>1 DEF Goes
    <3>4. StrictCalls(u)
      <4>1. Top.in \notin StrictBracketing
        BY <3>1 DEF StrictBracketing
      <4>2. StrictCalls(<<>>)
        BY DEF StrictCalls
      <4> QED BY <2>1, <2>6, <2>8, <4>1, <4>2 DEF StrictChange, s, u
    <3>5. Sheltered(t, parser.pos)
      BY <1>2, <3>2
    <3> QED BY <2>3, <2>5, <3>3, <3>4, <3>5
  <2>9. CASE s = <<>>
    <3>1. ~Doomed(parser)
      <4>1. Len(s) = 0
        BY <1>3, <2>9
      <4> QED BY <4>1 DEF Doomed, DoomedCalls, s
    <3>2. Goes
      BY <2>1, <2>9 DEF StrictPath, Goes, s
    <3>3. StrictCalls(u)
      <4>1. CASE u = s
        BY <2>6, <4>1
      <4>2. CASE u # s
        <5>1. PICK f : f.at \in StrictPlace /\ u = <<f>>
          BY <2>1, <2>9, <4>2 DEF StrictChange, s, u
        <5>2. Len(u) = 1 /\ u[1] = f
          BY <5>1
        <5>3. \A k \in 1 .. 1 - 1 : FALSE
          OBVIOUS
        <5> QED BY <5>1, <5>2, <5>3 DEF StrictCalls
      <4> QED BY <4>1, <4>2
    <3> QED BY <1>2, <2>3, <3>1, <3>2, <3>3
  <2> QED BY <2>7, <2>8, <2>9
<1> QED BY <1>1, <1>4, <1>5, <1>6, <1>7, StrictSteps

-----------------------------------------------------------------------------
(* A place of the text where no bracket is open.                           *)
Clear(text, i) == i \in 1 .. Len(text) + 1 /\ Nesting(text)[i - 1] = <<>>

(* At the start of a text no bracket is open.                              *)
LEMMA ClearAtStart ==
  ASSUME NEW text, ProperText(text)
  PROVE  Clear(text, 1)
<1>1. Len(text) \in Nat
  BY TypesOfText
<1>2. 1 \in 1 .. Len(text) + 1 /\ 1 - 1 = 0
  BY <1>1
<1> QED BY <1>2, NestingSteps DEF Clear

(* With none open at its end the brackets of the text match.               *)
LEMMA ClearAtEnd ==
  ASSUME NEW text, ProperText(text), NEW i, Clear(text, i), TypeAt(text, i) = "end"
  PROVE  Balanced(text) /\ i = Len(text) + 1
<1> DEFINE n == Len(text)
<1>1. n \in Nat /\ i \in 1 .. n + 1 /\ i \notin 1 .. n
  BY TypesOfText DEF Clear
<1> HIDE DEF n
<1>2. i = n + 1 /\ i - 1 = n
  BY <1>1
<1> QED BY <1>2 DEF Clear, Balanced, n

(* A token that is no bracket further.                                     *)
LEMMA ClearOn ==
  ASSUME NEW text, ProperText(text), NEW i \in Nat, Clear(text, i), TypeAt(text, i) \notin Marks \cup {"end"}
  PROVE  Clear(text, i + 1)
<1> DEFINE n == Len(text)
<1>1. n \in Nat /\ i \in 1 .. n
  BY TypesOfText
<1> HIDE DEF n
<1>2. i \in Nat \ {0} /\ (i + 1) - 1 = i /\ i + 1 \in 1 .. n + 1
  BY <1>1
<1>3. Nesting(text)[i] = Nesting(text)[i - 1]
  BY <1>2, NestingAt, AfterPlain
<1> QED BY <1>2, <1>3 DEF Clear, n

(* An empty pair of brackets further.                                      *)
LEMMA ClearOver ==
  ASSUME NEW text, ProperText(text), NEW i \in Nat, Clear(text, i),
         TypeAt(text, i) \in Opening, Closes(TypeAt(text, i), TypeAt(text, i + 1))
  PROVE  Clear(text, i + 2)
<1> DEFINE n == Len(text)
           u == TypeAt(text, i)
<1>1. TypeAt(text, i) # "end" /\ TypeAt(text, i + 1) # "end"
  BY DEF Opening, Closes
<1>2. n \in Nat /\ i \in 1 .. n /\ i + 1 \in 1 .. n
  BY <1>1, TypesOfText
<1>3. Nesting(text)[i - 1] = <<>>
  BY DEF Clear
<1> HIDE DEF n
<1>4. /\ i \in Nat \ {0} /\ i + 1 \in Nat \ {0} /\ (i + 1) - 1 = i /\ (i + 2) - 1 = i + 1
      /\ i + 2 \in 1 .. n + 1
  BY <1>2
<1>5. Nesting(text)[i] = <<u>> \o <<>> /\ Nesting(text)[i + 1] = After(<<u>> \o <<>>, TypeAt(text, i + 1))
  BY <1>3, <1>4, NestingAt, AfterOpening
<1>6. <<u>> \o <<>> # <<>> /\ Head(<<u>> \o <<>>) = u /\ Tail(<<u>> \o <<>>) = <<>>
  <2>1. \A x : <<x>> \o <<>> # <<>> /\ Head(<<x>> \o <<>>) = x /\ Tail(<<x>> \o <<>>) = <<>>
    OBVIOUS
  <2> QED BY <2>1
<1>7. Nesting(text)[i + 1] = <<>>
  BY <1>5, <1>6, AfterClosing
<1> QED BY <1>4, <1>7 DEF Clear, n

-----------------------------------------------------------------------------
(* N-Quads.  A stretch of the text from i up to, not including, j that     *)
(* leaves open what was open, and has no shorthand.                        *)
Neutral(text, i, j) ==
  /\ j \in i + 1 .. Len(text) + 1
  /\ Nesting(text)[j - 1] = Nesting(text)[i - 1]
  /\ \A k \in i .. j - 1 : TypeAt(text, k) \notin Shorthand

(* A term that is read at i is such a stretch.                             *)
ReadNeutral(text, terms, i) == ~Stuck(terms[i]) => Neutral(text, i, terms[i].next)

(* A token that is neither a bracket nor a shorthand.                      *)
LEMMA NeutralToken ==
  ASSUME NEW text, ProperText(text), NEW i \in 1 .. Len(text),
         TypeAt(text, i) \notin Marks, TypeAt(text, i) \notin Shorthand
  PROVE  Neutral(text, i, i + 1)
<1> DEFINE n == Len(text)
<1>1. n \in Nat
  BY TypesOfText
<1> HIDE DEF n
<1>2. i \in 1 .. n
  BY DEF n
<1>3. i \in Nat \ {0} /\ i + 1 \in i + 1 .. n + 1 /\ (i + 1) - 1 = i /\ \A k \in i .. (i + 1) - 1 : k = i
  BY <1>1, <1>2
<1>4. Nesting(text)[i] = Nesting(text)[i - 1]
  BY <1>3, NestingAt, AfterPlain
<1> QED BY <1>3, <1>4 DEF Neutral, n

(* One stretch behind the other.                                           *)
LEMMA NeutralChain ==
  ASSUME NEW text, ProperText(text), NEW i \in 1 .. Len(text) + 1, NEW j, NEW k,
         Neutral(text, i, j), Neutral(text, j, k)
  PROVE  Neutral(text, i, k) /\ j \in 1 .. Len(text) + 1
<1> DEFINE n == Len(text)
<1>1. n \in Nat
  BY TypesOfText
<1> HIDE DEF n
<1>2. i \in 1 .. n + 1 /\ j \in i + 1 .. n + 1 /\ k \in j + 1 .. n + 1
  BY DEF Neutral, n
<1>3. k \in i + 1 .. n + 1 /\ j \in 1 .. n + 1 /\ \A l \in i .. k - 1 : l \in i .. j - 1 \/ l \in j .. k - 1
  BY <1>1, <1>2
<1> QED BY <1>3 DEF Neutral, n

(* What is read at one place, when the places behind it are known.         *)
LEMMA QuadTermNeutral ==
  ASSUME NEW text, ProperText(text), NEW i \in 1 .. Len(text) + 1, NEW terms,
         \A k \in i + 1 .. Len(text) + 1 : ReadNeutral(text, terms, k)
  PROVE  /\ ~Stuck(ParseQuadTerm(text, terms, i)) =>
              Neutral(text, i, ParseQuadTerm(text, terms, i).next)
         /\ \A other : (\A k \in i + 1 .. Len(text) + 1 : other[k] = terms[k]) =>
              ParseQuadTerm(text, other, i) = ParseQuadTerm(text, terms, i)
<1> DEFINE n == Len(text)
           r == ParseQuadTerm(text, terms, i)
           s == terms[i + 1]
           p == terms[s.next]
           o == terms[p.next]
           type == TypeAt(text, i)
<1>1. n \in Nat /\ (type # "end" => i \in 1 .. n)
  BY TypesOfText
<1>2. \A read : Stuck(read) <=> read = Refused \/ read = Panicked
  BY DEF Stuck
<1>3. CASE type = "iri"
  <2>1. \A t : ParseQuadTerm(text, t, i) = Read(Named(text[i].ns, text[i].local), i + 1)
    BY <1>3, Zenon DEF ParseQuadTerm
  <2>2. r.next = i + 1
    BY <2>1 DEF Read
  <2>3. "iri" \notin Marks /\ "iri" \notin Shorthand
    BY DEF Marks, Opening, Closing, Shorthand
  <2> QED BY <1>1, <1>3, <2>1, <2>2, <2>3, NeutralToken
<1>4. CASE type = "label"
  <2>1. \A t : ParseQuadTerm(text, t, i) = Read(Blank(text[i].label), i + 1)
    BY <1>4, Zenon DEF ParseQuadTerm
  <2>2. r.next = i + 1
    BY <2>1 DEF Read
  <2>3. "label" \notin Marks /\ "label" \notin Shorthand
    BY DEF Marks, Opening, Closing, Shorthand
  <2> QED BY <1>1, <1>4, <2>1, <2>2, <2>3, NeutralToken
<1>5. CASE type = "string"
  <2>1. \A t : ParseQuadTerm(text, t, i) = Read(Literal(text[i].value), i + 1)
    BY <1>5, Zenon DEF ParseQuadTerm
  <2>2. r.next = i + 1
    BY <2>1 DEF Read
  <2>3. "string" \notin Marks /\ "string" \notin Shorthand
    BY DEF Marks, Opening, Closing, Shorthand
  <2> QED BY <1>1, <1>5, <2>1, <2>2, <2>3, NeutralToken
<1>6. CASE type = "end"
  <2>1. \A t : ParseQuadTerm(text, t, i) = Panicked
    BY <1>6, Zenon DEF ParseQuadTerm
  <2> QED BY <1>2, <2>1
<1>7. CASE type \notin {"end", "iri", "label", "string", "<<("}
  <2>1. \A t : ParseQuadTerm(text, t, i) = Refused
    BY <1>7, Zenon DEF ParseQuadTerm
  <2> QED BY <1>2, <2>1
<1>8. CASE type = "<<("
  <2>1. \A t : ParseQuadTerm(text, t, i) = ParseQuotedTriple(text, t, i)
    BY <1>8, Zenon DEF ParseQuadTerm
  <2>2. i \in 1 .. n
    BY <1>1, <1>8
  <2>3. i + 1 \in i + 1 .. n + 1 /\ i + 1 \in 1 .. n + 1 /\ i \in Nat \ {0} /\ (i + 1) - 1 = i
    <3> HIDE DEF n
    <3> QED BY <1>1, <2>2
  <2>4. ~Stuck(s) => Neutral(text, i + 1, s.next) /\ s.next \in i + 1 .. n + 1
    <3>1. ReadNeutral(text, terms, i + 1)
      BY <2>3
    <3>2. Neutral(text, i + 1, s.next) => s.next \in i + 1 .. n + 1
      <4>1. \A k \in (i + 1) + 1 .. n + 1 : k \in i + 1 .. n + 1
        <5> HIDE DEF n
        <5> QED BY <1>1, <2>3
      <4> QED BY <4>1 DEF Neutral
    <3> QED BY <3>1, <3>2 DEF ReadNeutral
  <2>5. ~Stuck(s) /\ ~Stuck(p) => Neutral(text, i + 1, p.next) /\ p.next \in i + 1 .. n + 1
    <3> SUFFICES ASSUME ~Stuck(s), ~Stuck(p) PROVE Neutral(text, i + 1, p.next) /\ p.next \in i + 1 .. n + 1
      OBVIOUS
    <3>1. Neutral(text, s.next, p.next)
      BY <2>4 DEF ReadNeutral
    <3>2. Neutral(text, i + 1, p.next)
      BY <2>3, <2>4, <3>1, NeutralChain
    <3>3. \A k \in (i + 1) + 1 .. n + 1 : k \in i + 1 .. n + 1
      <4> HIDE DEF n
      <4> QED BY <1>1, <2>3
    <3> QED BY <3>2, <3>3 DEF Neutral
  <2>6. ~Stuck(s) /\ ~Stuck(p) /\ ~Stuck(o) => Neutral(text, i + 1, o.next)
    <3> SUFFICES ASSUME ~Stuck(s), ~Stuck(p), ~Stuck(o) PROVE Neutral(text, i + 1, o.next)
      OBVIOUS
    <3>1. Neutral(text, p.next, o.next)
      BY <2>5 DEF ReadNeutral
    <3> QED BY <2>3, <2>5, <3>1, NeutralChain
  <2>7. ASSUME ~Stuck(r) PROVE Neutral(text, i, r.next)
    <3>1. /\ ~Stuck(s) /\ ~Stuck(p) /\ ~Stuck(o) /\ TypeAt(text, o.next) = ")>>"
          /\ r = Read(TripleTerm(s.term, p.term, o.term), o.next + 1)
      <4>1. r = ParseQuotedTriple(text, terms, i)
        BY <2>1
      <4>2. Stuck(Refused)
        BY <1>2
      <4> HIDE DEF r, s, p, o
      <4>3. \/ Stuck(r)
            \/ /\ ~Stuck(s) /\ ~Stuck(p) /\ ~Stuck(o) /\ TypeAt(text, o.next) = ")>>"
               /\ r = Read(TripleTerm(s.term, p.term, o.term), o.next + 1)
        BY <4>1, <4>2 DEF ParseQuotedTriple, s, p, o
      <4> QED BY <2>7, <4>3
    <3> DEFINE e == o.next
    <3>2. r.next = e + 1
      BY <3>1 DEF Read
    <3>3. /\ e \in (i + 1) + 1 .. n + 1 /\ Nesting(text)[e - 1] = Nesting(text)[i]
          /\ \A k \in i + 1 .. e - 1 : TypeAt(text, k) \notin Shorthand
      BY <2>3, <2>6, <3>1 DEF Neutral
    <3>4. e \in 1 .. n /\ TypeAt(text, e) = ")>>"
      BY <3>1, TypesOfText
    <3> HIDE DEF e, n
    <3>5. /\ e \in Nat \ {0} /\ e + 1 \in i + 1 .. n + 1 /\ (e + 1) - 1 = e
          /\ \A k \in i .. (e + 1) - 1 : k = i \/ k \in i + 1 .. e - 1 \/ k = e
      BY <1>1, <2>2, <3>3, <3>4
    <3>6. Nesting(text)[i] = <<"<<(">> \o Nesting(text)[i - 1]
      <4>1. "<<(" \in Opening
        BY DEF Opening
      <4> QED BY <1>8, <2>3, <4>1, NestingAt, AfterOpening
    <3>7. Nesting(text)[e] = Nesting(text)[i - 1]
      <4> DEFINE b == Nesting(text)[i - 1]
      <4>1. b \in Seq(Marks)
        <5>1. i - 1 \in Nat
          BY <2>3
        <5> QED BY <5>1, NestingType
      <4>2. Nesting(text)[e] = After(<<"<<(">> \o b, ")>>")
        BY <3>3, <3>4, <3>5, <3>6, NestingAt
      <4> HIDE DEF b
      <4>3. <<"<<(">> \o b # <<>> /\ Head(<<"<<(">> \o b) = "<<(" /\ Tail(<<"<<(">> \o b) = b
        BY <4>1
      <4>4. Closes("<<(", ")>>")
        BY DEF Closes
      <4>5. After(<<"<<(">> \o b, ")>>") = b
        BY <4>3, <4>4, AfterClosing
      <4> QED BY <4>2, <4>5 DEF b
    <3>8. "<<(" \notin Shorthand /\ ")>>" \notin Shorthand
      BY DEF Shorthand
    <3> QED BY <1>8, <3>2, <3>3, <3>4, <3>5, <3>7, <3>8 DEF Neutral, n
  <2>8. ASSUME NEW other, \A k \in i + 1 .. n + 1 : other[k] = terms[k]
        PROVE  ParseQuadTerm(text, other, i) = r
    <3>1. /\ other[i + 1] = s
          /\ ~Stuck(s) => other[s.next] = p
          /\ ~Stuck(s) /\ ~Stuck(p) => other[p.next] = o
      BY <2>3, <2>4, <2>5, <2>8
    <3>2. ParseQuotedTriple(text, other, i) = ParseQuotedTriple(text, terms, i)
      <4> HIDE DEF s, p, o
      <4>1. CASE Stuck(s)
        BY <3>1, <4>1 DEF ParseQuotedTriple, s
      <4>2. CASE ~Stuck(s) /\ Stuck(p)
        BY <3>1, <4>2 DEF ParseQuotedTriple, s, p
      <4>3. CASE ~Stuck(s) /\ ~Stuck(p)
        BY <3>1, <4>3 DEF ParseQuotedTriple, s, p, o
      <4> QED BY <4>1, <4>2, <4>3
    <3> QED BY <2>1, <3>2
  <2> QED BY <2>7, <2>8
<1> QED BY <1>3, <1>4, <1>5, <1>6, <1>7, <1>8

-----------------------------------------------------------------------------
(* terms tells what parseTerm makes of each place from i on.               *)
Solves(text, terms, i) ==
  \A k \in i .. Len(text) + 1 : terms[k] = ParseQuadTerm(text, terms, k) /\ ReadNeutral(text, terms, k)

(* From the end of the text backwards, a function that tells what          *)
(* parseTerm makes of each place exists.                                   *)
LEMMA TermsExist ==
  ASSUME NEW text, ProperText(text)
  PROVE  \E terms : Solves(text, terms, 1)
<1> DEFINE n == Len(text)
           T == {m \in Nat : m <= n => \E terms : Solves(text, terms, (n + 1) - m)}
<1>1. n \in Nat
  BY TypesOfText
<1>2. ASSUME NEW i \in 1 .. n + 1, NEW terms, \A k \in i + 1 .. n + 1 :
                terms[k] = ParseQuadTerm(text, terms, k) /\ ReadNeutral(text, terms, k)
      PROVE  \E other : Solves(text, other, i)
  <2> DEFINE r == ParseQuadTerm(text, terms, i)
             other == [k \in Nat |-> IF k = i THEN r ELSE terms[k]]
  <2> HIDE DEF n
  <2>1. i \in Nat /\ \A k \in i + 1 .. n + 1 : k \in Nat /\ k # i
    BY <1>1
  <2>2. other[i] = r /\ \A k \in i + 1 .. n + 1 : other[k] = terms[k]
    <3> HIDE DEF r
    <3> QED BY <2>1
  <2> HIDE DEF other
  <2>3. \A k \in i + 1 .. n + 1 : ReadNeutral(text, terms, k)
    BY <1>2
  <2>4. \A k \in i + 1 .. n + 1 : ReadNeutral(text, other, k)
    BY <2>2, <2>3 DEF ReadNeutral
  <2>5. ASSUME NEW k \in i .. n + 1 PROVE ParseQuadTerm(text, other, k) = ParseQuadTerm(text, terms, k)
    <3>1. /\ k \in 1 .. n + 1
          /\ \A l \in k + 1 .. n + 1 : l \in i + 1 .. n + 1
      BY <1>1
    <3>2. /\ \A l \in k + 1 .. Len(text) + 1 : ReadNeutral(text, terms, l)
          /\ \A l \in k + 1 .. Len(text) + 1 : other[l] = terms[l]
          /\ k \in 1 .. Len(text) + 1
      BY <2>2, <2>3, <3>1 DEF n
    <3> QED BY <3>2, QuadTermNeutral
  <2>6. ReadNeutral(text, other, i)
    <3>1. ~Stuck(r) => Neutral(text, i, r.next)
      BY <2>3, QuadTermNeutral DEF n
    <3> HIDE DEF r
    <3> QED BY <2>2, <3>1 DEF ReadNeutral
  <2>7. ASSUME NEW k \in i .. n + 1
        PROVE  other[k] = ParseQuadTerm(text, other, k) /\ ReadNeutral(text, other, k)
    <3>1. CASE k = i
      BY <2>2, <2>5, <2>6, <3>1
    <3>2. CASE k # i
      <4>1. k \in i + 1 .. n + 1
        BY <1>1, <3>2
      <4> QED BY <1>2, <2>2, <2>4, <2>5, <4>1
    <3> QED BY <3>1, <3>2
  <2> QED BY <2>7 DEF Solves, n
<1>3. 0 \in T
  <2>1. (n + 1) - 0 = n + 1 /\ n + 1 \in 1 .. n + 1 /\ \A k \in (n + 1) + 1 .. n + 1 : FALSE
    <3> HIDE DEF n
    <3> QED BY <1>1
  <2>2. \E terms : Solves(text, terms, n + 1)
    BY <1>2, <2>1
  <2> QED BY <2>1, <2>2
<1>4. ASSUME NEW m \in Nat, m \in T PROVE m + 1 \in T
  <2>1. CASE m + 1 <= n
    <3> DEFINE i == (n + 1) - (m + 1)
    <3>1. i \in 1 .. n + 1 /\ i + 1 = (n + 1) - m /\ m <= n
      <4> HIDE DEF n
      <4> QED BY <1>1, <2>1
    <3>2. PICK g : Solves(text, g, i + 1)
      <4>1. \E g : Solves(text, g, (n + 1) - m)
        BY <1>4, <3>1
      <4> QED BY <3>1, <4>1
    <3>3. \E terms : Solves(text, terms, i)
      <4>1. \A k \in i + 1 .. n + 1 : g[k] = ParseQuadTerm(text, g, k) /\ ReadNeutral(text, g, k)
        BY <3>2 DEF Solves
      <4> HIDE DEF i
      <4> QED BY <1>2, <3>1, <4>1
    <3> QED BY <3>3
  <2> QED BY <2>1
<1> HIDE DEF T
<1>5. n \in T
  BY <1>1, <1>3, <1>4, Induction
<1>6. (n + 1) - n = 1 /\ n <= n
  <2> HIDE DEF n
  <2> QED BY <1>1
<1>7. n <= n => \E terms : Solves(text, terms, (n + 1) - n)
  BY <1>5 DEF T
<1> QED BY <1>6, <1>7

(* So TermsOf is one.                                                      *)
LEMMA TermsUnfold ==
  ASSUME NEW text, ProperText(text)
  PROVE  \A i \in 1 .. Len(text) + 1 : TermsOf(text)[i] = ParseQuadTerm(text, TermsOf(text), i)
<1> DEFINE D == 1 .. Len(text) + 1
           Body(f) == [i \in D |-> ParseQuadTerm(text, f, i)]
<1>1. PICK terms : Solves(text, terms, 1)
  BY TermsExist
<1> DEFINE F == [i \in D |-> terms[i]]
<1>2. \A k \in D : terms[k] = ParseQuadTerm(text, terms, k) /\ ReadNeutral(text, terms, k)
  BY <1>1 DEF Solves
<1>3. \A k \in D : F[k] = terms[k]
  OBVIOUS
<1>4. ASSUME NEW k \in D PROVE ParseQuadTerm(text, F, k) = ParseQuadTerm(text, terms, k)
  <2>1. \A l \in k + 1 .. Len(text) + 1 : l \in 1 .. Len(text) + 1
    <3> DEFINE n == Len(text)
    <3>1. n \in Nat
      BY TypesOfText
    <3> HIDE DEF n
    <3>2. \A l \in k + 1 .. n + 1 : l \in 1 .. n + 1
      <4>1. k \in 1 .. n + 1
        BY DEF n
      <4> QED BY <3>1, <4>1
    <3> QED BY <3>2 DEF n
  <2> HIDE DEF F
  <2> QED BY <1>2, <1>3, <2>1, QuadTermNeutral
<1>5. F = Body(F)
  <2>1. \A k \in D : F[k] = ParseQuadTerm(text, F, k)
    BY <1>2, <1>3, <1>4
  <2>2. F = [k \in D |-> F[k]]
    OBVIOUS
  <2> HIDE DEF F, D
  <2> QED BY <2>1, <2>2
<1>6. TermsOf(text) = Body(TermsOf(text))
  <2> HIDE DEF F
  <2> QED BY <1>5 DEF TermsOf
<1> HIDE DEF F
<1> DEFINE R == TermsOf(text)
<1>7. \A k \in D : R[k] = ParseQuadTerm(text, R, k)
  <2> HIDE DEF R, D
  <2>1. R = Body(R)
    BY <1>6 DEF R
  <2> QED BY <2>1
<1> QED BY <1>7

(* A term that NQuadsParser reads leaves no bracket open, and has no       *)
(* shorthand.                                                              *)
LEMMA TermsNeutral ==
  ASSUME NEW text, ProperText(text)
  PROVE  \A i \in 1 .. Len(text) + 1 : ReadNeutral(text, TermsOf(text), i)
<1> DEFINE R == TermsOf(text)
           n == Len(text)
           T == {m \in Nat : \A k \in 1 .. n + 1 : k + m > n => ReadNeutral(text, R, k)}
<1>1. n \in Nat
  BY TypesOfText
<1>2. \A k \in 1 .. n + 1 : R[k] = ParseQuadTerm(text, R, k)
  BY TermsUnfold
<1> HIDE DEF R
<1>3. ASSUME NEW m \in Nat, \A k \in 1 .. n + 1 : k + m > n + 1 => ReadNeutral(text, R, k)
      PROVE  \A k \in 1 .. n + 1 : k + m > n => ReadNeutral(text, R, k)
  <2> SUFFICES ASSUME NEW k \in 1 .. n + 1, k + m > n PROVE ReadNeutral(text, R, k)
    OBVIOUS
  <2>1. \A l \in k + 1 .. n + 1 : ReadNeutral(text, R, l)
    <3> HIDE DEF n
    <3>1. \A l \in k + 1 .. n + 1 : l \in 1 .. n + 1 /\ l + m > n + 1
      BY <1>1
    <3> QED BY <1>3, <3>1
  <2>2. R[k] = ParseQuadTerm(text, R, k)
    BY <1>2
  <2>3. ~Stuck(ParseQuadTerm(text, R, k)) => Neutral(text, k, ParseQuadTerm(text, R, k).next)
    BY <2>1, QuadTermNeutral
  <2> QED BY <2>2, <2>3 DEF ReadNeutral
<1> HIDE DEF n
<1>4. 0 \in T
  <2>1. \A k \in 1 .. n + 1 : ~(k + 0 > n + 1)
    BY <1>1
  <2> QED BY <1>3, <2>1
<1>5. ASSUME NEW m \in Nat, m \in T PROVE m + 1 \in T
  <2>1. \A k \in 1 .. n + 1 : k + (m + 1) > n + 1 => k + m > n
    BY <1>1
  <2>2. \A k \in 1 .. n + 1 : k + (m + 1) > n + 1 => ReadNeutral(text, R, k)
    BY <1>5, <2>1
  <2>3. m + 1 \in Nat
    OBVIOUS
  <2>4. \A k \in 1 .. n + 1 : k + (m + 1) > n => ReadNeutral(text, R, k)
    BY <1>3, <2>2, <2>3
  <2> QED BY <2>3, <2>4
<1> HIDE DEF T
<1>6. n \in T
  BY <1>1, <1>4, <1>5, Induction
<1>7. \A k \in 1 .. n + 1 : k + n > n
  BY <1>1
<1> QED BY <1>6, <1>7 DEF T, R, n

-----------------------------------------------------------------------------
(* Where a block or a statement of TriG ends.                              *)

(* Braces are counted one token after the other.                           *)
LEMMA BracesCount ==
  ASSUME NEW first \in Nat, NEW kinds
  PROVE  /\ Braces(first, first, kinds) = IF Token(first) \in kinds THEN 1 ELSE 0
         /\ \A i \in Nat : Braces(first, i, kinds) \in Nat
         /\ \A i \in Nat : first <= i =>
              Braces(first, i + 1, kinds) =
                Braces(first, i, kinds) + IF Token(i + 1) \in kinds THEN 1 ELSE 0
<1> DEFINE S(i) == {j \in first .. i : Token(j) \in kinds}
<1>1. \A i \in Nat : IsFiniteSet(S(i)) /\ Cardinality(S(i)) \in Nat
  <2> TAKE i \in Nat
  <2>1. IsFiniteSet(first .. i) /\ S(i) \in SUBSET (first .. i)
    BY FS_Interval
  <2> HIDE DEF S
  <2>2. IsFiniteSet(S(i))
    BY <2>1, FS_Subset
  <2> QED BY <2>2, FS_CardinalityType
<1>2. S(first) = IF Token(first) \in kinds THEN {} \cup {first} ELSE {}
  <2>1. \A j \in first .. first : j = first
    OBVIOUS
  <2>2. first \in first .. first
    OBVIOUS
  <2> QED BY <2>1, <2>2, Zenon
<1>3. Cardinality(S(first)) = IF Token(first) \in kinds THEN 1 ELSE 0
  <2>1. IsFiniteSet({}) /\ Cardinality({}) = 0
    BY FS_EmptySet
  <2>2. Cardinality({} \cup {first}) = 1
    <3>1. Cardinality({} \cup {first}) = IF first \in {} THEN Cardinality({}) ELSE Cardinality({}) + 1
      BY <2>1, FS_AddElement
    <3> QED BY <2>1, <3>1
  <2> HIDE DEF S
  <2> QED BY <1>2, <2>1, <2>2
<1>4. ASSUME NEW i \in Nat, first <= i
      PROVE  Cardinality(S(i + 1)) = Cardinality(S(i)) + IF Token(i + 1) \in kinds THEN 1 ELSE 0
  <2>1. first .. i + 1 = (first .. i) \cup {i + 1} /\ i + 1 \notin first .. i
    BY <1>4
  <2>2. S(i + 1) = IF Token(i + 1) \in kinds THEN S(i) \cup {i + 1} ELSE S(i)
    <3> DEFINE A == first .. i
               B == first .. i + 1
    <3> HIDE DEF A, B
    <3>1. B = A \cup {i + 1}
      BY <2>1 DEF A, B
    <3>2. {j \in B : Token(j) \in kinds} =
            IF Token(i + 1) \in kinds THEN {j \in A : Token(j) \in kinds} \cup {i + 1}
                                      ELSE {j \in A : Token(j) \in kinds}
      BY <3>1, Zenon
    <3> QED BY <3>2 DEF A, B
  <2>3. i + 1 \notin S(i)
    BY <2>1
  <2>4. IsFiniteSet(S(i)) /\ Cardinality(S(i)) \in Nat
    BY <1>1
  <2> HIDE DEF S
  <2>5. Cardinality(S(i) \cup {i + 1}) = Cardinality(S(i)) + 1
    <3>1. Cardinality(S(i) \cup {i + 1}) = IF i + 1 \in S(i) THEN Cardinality(S(i)) ELSE Cardinality(S(i)) + 1
      BY <2>4, FS_AddElement
    <3> QED BY <2>3, <3>1
  <2> QED BY <2>2, <2>4, <2>5
<1> QED BY <1>1, <1>3, <1>4 DEF Braces

(* Before the brace that ends a block every brace that closes was opened   *)
(* in the block, so that brace is a closing one.                           *)
LEMMA BlockEndCloses ==
  ASSUME ProperText(upload.text), NEW first \in Nat, ClosingBraces(first) # {}
  PROVE  /\ First(ClosingBraces(first)) \in first .. Len(upload.text)
         /\ Token(First(ClosingBraces(first))) \in {"}", "|}"}
<1> DEFINE n == Len(upload.text)
           Ends == ClosingBraces(first)
           e == First(Ends)
           C(i) == Braces(first, i, {"}", "|}"})
           O(i) == Braces(first, i, {"{", "{|"})
           Closed(i) == Token(i) \in {"}", "|}"}
           T == {k \in Nat : first + k <= n /\ first + k < e => C(first + k) <= O(first + k)}
<1>1. n \in Nat
  BY TypesOfText
<1>2. Ends = {i \in first .. n : C(i) = O(i) + 1}
  BY DEF ClosingBraces
<1>3. \A i \in Nat : C(i) \in Nat /\ O(i) \in Nat
  BY BracesCount
<1>4. /\ C(first) <= 1 /\ (~Closed(first) => C(first) = 0)
      /\ \A i \in Nat : first <= i =>
           /\ C(i + 1) <= C(i) + 1 /\ (~Closed(i + 1) => C(i + 1) = C(i))
           /\ O(i) <= O(i + 1)
  <2>1. /\ C(first) = (IF Closed(first) THEN 1 ELSE 0)
        /\ \A i \in Nat : first <= i =>
             /\ C(i + 1) = C(i) + IF Closed(i + 1) THEN 1 ELSE 0
             /\ O(i + 1) = O(i) + IF Token(i + 1) \in {"{", "{|"} THEN 1 ELSE 0
    BY BracesCount
  <2> DEFINE Opened(i) == Token(i) \in {"{", "{|"}
  <2>2. \A i \in Nat : first <= i => O(i + 1) = O(i) + IF Opened(i + 1) THEN 1 ELSE 0
    BY <2>1
  <2> HIDE DEF C, O, Closed, Opened
  <2>3. C(first) <= 1 /\ (~Closed(first) => C(first) = 0)
    <3>1. \/ Closed(first) /\ C(first) = 1
          \/ ~Closed(first) /\ C(first) = 0
      BY <2>1, Zenon
    <3> QED BY <3>1
  <2>4. ASSUME NEW i \in Nat, first <= i
        PROVE  /\ C(i + 1) <= C(i) + 1 /\ (~Closed(i + 1) => C(i + 1) = C(i))
               /\ O(i) <= O(i + 1)
    <3>1. C(i) \in Nat /\ O(i) \in Nat
      BY <1>3
    <3>2. \/ Closed(i + 1) /\ C(i + 1) = C(i) + 1
          \/ ~Closed(i + 1) /\ C(i + 1) = C(i) + 0
      BY <2>1, <2>4
    <3>3. O(i + 1) = O(i) + 1 \/ O(i + 1) = O(i) + 0
      BY <2>2, <2>4
    <3> QED BY <3>1, <3>2, <3>3
  <2> QED BY <2>3, <2>4
<1> HIDE DEF n, C, O, Closed
<1>5. e \in first .. n /\ C(e) = O(e) + 1 /\ \A i \in first .. n : C(i) = O(i) + 1 => e <= i
  <2> DEFINE E == {i \in first .. n : C(i) = O(i) + 1}
  <2>1. E \subseteq Nat /\ E # {}
    <3>1. \A i \in first .. n : i \in Nat
      OBVIOUS
    <3>2. E # {}
      BY <1>2
    <3> QED BY <3>1, <3>2
  <2> HIDE DEF E
  <2>2. First(E) \in E /\ \A j \in E : First(E) <= j
    BY <2>1, FirstIsLeast
  <2>3. e = First(E)
    BY <1>2 DEF E
  <2> HIDE DEF e
  <2> QED BY <2>2, <2>3 DEF E
<1> HIDE DEF e
<1>6. 0 \in T
  <2>1. CASE first < e
    <3>1. first \in first .. n /\ first + 0 = first /\ C(first) # O(first) + 1 /\ C(first) \in Nat /\ O(first) \in Nat
      BY <1>1, <1>3, <1>5, <2>1
    <3>2. C(first) <= O(first)
      BY <1>4, <3>1
    <3> QED BY <3>1, <3>2
  <2> QED BY <2>1
<1>7. ASSUME NEW k \in Nat, k \in T PROVE k + 1 \in T
  <2>1. CASE first + (k + 1) <= n /\ first + (k + 1) < e
    <3> DEFINE i == first + k
    <3>1. /\ i \in Nat /\ first <= i /\ i + 1 = first + (k + 1) /\ i <= n /\ i < e
          /\ i + 1 \in first .. n /\ ~(e <= i + 1)
      BY <1>1, <1>5, <2>1
    <3> HIDE DEF i
    <3>2. C(i) <= O(i) /\ C(i) \in Nat /\ O(i) \in Nat /\ C(i + 1) \in Nat /\ O(i + 1) \in Nat
      BY <1>3, <1>7, <3>1 DEF i
    <3>3. C(i + 1) # O(i + 1) + 1
      BY <1>5, <3>1
    <3>4. C(i + 1) <= O(i + 1)
      BY <1>4, <3>1, <3>2, <3>3
    <3> QED BY <3>1, <3>4
  <2> QED BY <2>1
<1>8. Closed(e)
  <2>1. CASE e = first
    <3>1. C(first) \in Nat /\ O(first) \in Nat /\ C(first) = O(first) + 1
      BY <1>3, <1>5, <2>1
    <3>2. Closed(first)
      BY <1>4, <3>1
    <3> QED BY <2>1, <3>2
  <2>2. CASE e # first
    <3> DEFINE i == e - 1
    <3>1. /\ i \in Nat /\ first <= i /\ i + 1 = e /\ i - first \in Nat /\ first + (i - first) = i
          /\ i <= n /\ i < e
      BY <1>1, <1>5, <2>2
    <3> HIDE DEF i
    <3>2. C(i) <= O(i)
      <4> HIDE DEF T
      <4>1. i - first \in T
        BY <1>6, <1>7, <3>1, Induction
      <4> QED BY <3>1, <4>1 DEF T
    <3>3. C(i) \in Nat /\ O(i) \in Nat
      BY <1>3, <3>1
    <3>4. O(i) <= O(e) /\ O(e) \in Nat /\ (~Closed(e) => C(e) = C(i))
      BY <1>3, <1>4, <3>1
    <3> QED BY <1>5, <3>2, <3>3, <3>4
  <2> QED BY <2>1, <2>2
<1> QED BY <1>5, <1>8 DEF e, n, Closed

-----------------------------------------------------------------------------
(* The text a parser of its own is given.                                  *)
LEMMA PieceOfText ==
  ASSUME NEW text, ProperText(text), NEW i \in Nat \ {0}, NEW j \in Nat, i <= j + 1, j <= Len(text)
  PROVE  /\ ProperText(SubSeq(text, i, j))
         /\ Len(SubSeq(text, i, j)) = (j + 1) - i
         /\ \A k \in 1 .. (j + 1) - i :
              /\ TypeAt(SubSeq(text, i, j), k) = TypeAt(text, (i - 1) + k)
              /\ SubSeq(text, i, j)[k] = text[(i - 1) + k] /\ (i - 1) + k \in 1 .. Len(text)
<1> DEFINE S == {text[k] : k \in DOMAIN text}
           n == Len(text)
           m == (j + 1) - i
           c == SubSeq(text, i, j)
<1>1. text \in Seq(S) /\ n \in Nat /\ \A k \in 1 .. n : text[k] \in S
  <2>1. text \in Seq(S)
    BY DEF ProperText, IsSequence
  <2> HIDE DEF S
  <2> QED BY <2>1
<1>2. \A k \in i .. j : k \in 1 .. n
  <2> HIDE DEF n
  <2>1. j <= n
    BY DEF n
  <2> QED BY <2>1, <1>1
<1> HIDE DEF S
<1>3. /\ c \in Seq(S) /\ Len(c) = m
      /\ \A k \in 1 .. m : c[k] = text[(i - 1) + k]
  <2>1. \A k \in i .. j : text[k] \in S
    BY <1>1, <1>2
  <2>2. /\ SubSeq(text, i, j) \in Seq(S)
        /\ Len(SubSeq(text, i, j)) = IF i <= j THEN j - i + 1 ELSE 0
        /\ \A k \in 1 .. j - i + 1 : SubSeq(text, i, j)[k] = text[i + k - 1]
    BY <2>1, SubSeqProperties
  <2>3. /\ (IF i <= j THEN j - i + 1 ELSE 0) = m /\ j - i + 1 = m
        /\ \A k \in 1 .. m : i + k - 1 = (i - 1) + k
    OBVIOUS
  <2> HIDE DEF m
  <2> QED BY <2>2, <2>3
<1>4. m \in Nat /\ \A k \in 1 .. m : (i - 1) + k \in 1 .. n
  <2>1. \A k \in 1 .. m : (i - 1) + k \in i .. j
    OBVIOUS
  <2> QED BY <1>2, <2>1
<1> HIDE DEF m, c, n
<1>5. IsSequence(c)
  BY <1>3, SequenceIntro
<1>6. \A k \in 1 .. m : TypeAt(c, k) = TypeAt(text, (i - 1) + k) /\ TypeAt(c, k) = c[k].t
  BY <1>3, <1>4 DEF TypeAt, n
<1>7. \A k \in 1 .. m : c[k].t # "end"
  BY <1>3, <1>4 DEF ProperText, n
<1> QED BY <1>3, <1>4, <1>5, <1>6, <1>7 DEF ProperText, c, m, n

(* A full stop behind it changes no bracket.                               *)
LEMMA TerminatedPiece ==
  ASSUME NEW c, ProperText(c), NEW d, d = EnsureProperTermination(c)
  PROVE  /\ ProperText(d)
         /\ \A k \in 1 .. Len(c) : TypeAt(d, k) = TypeAt(c, k)
         /\ Balanced(d) => Nesting(d)[Len(c)] = <<>>
         /\ \A k \in 1 .. Len(d) : (k \in 1 .. Len(c) /\ d[k] = c[k]) \/ d[k].t = "."
<1> DEFINE n == Len(c)
           stop == [t |-> "."]
<1>1. n \in Nat
  BY TypesOfText
<1>2. CASE d = c
  BY <1>2 DEF Balanced
<1>3. CASE d = Append(c, stop)
  <2> DEFINE S == {c[k] : k \in DOMAIN c} \cup {stop}
  <2>1. c \in Seq(S) /\ stop \in S
    <3>1. c \in Seq({c[k] : k \in DOMAIN c})
      BY DEF ProperText, IsSequence
    <3> DEFINE R == {c[k] : k \in DOMAIN c}
    <3> HIDE DEF R
    <3>2. c \in Seq(R) /\ S = R \cup {stop}
      BY <3>1 DEF R
    <3> HIDE DEF S, stop
    <3> QED BY <3>2
  <2> HIDE DEF S
  <2>2. /\ d \in Seq(S) /\ Len(d) = n + 1 /\ d[n + 1] = stop
        /\ \A k \in 1 .. n : d[k] = c[k]
    BY <1>3, <2>1, AppendProperties
  <2>3. IsSequence(d)
    BY <2>2, SequenceIntro
  <2>4. stop.t = "." /\ "." # "end" /\ "." \notin Marks
    BY DEF Marks, Opening, Closing
  <2> HIDE DEF n, stop
  <2>5. \A k \in 1 .. n + 1 : k \in 1 .. n \/ k = n + 1
    BY <1>1
  <2>6. n + 1 \in 1 .. n + 1 /\ \A k \in 1 .. n : k \in 1 .. n + 1
    BY <1>1
  <2>7. /\ \A k \in 1 .. n : TypeAt(d, k) = TypeAt(c, k)
        /\ TypeAt(d, n + 1) = "."
    BY <2>2, <2>4, <2>6 DEF TypeAt, n
  <2>8. \A k \in 1 .. n + 1 : d[k].t # "end"
    BY <2>2, <2>4, <2>5 DEF ProperText, n
  <2>9. Nesting(d)[n + 1] = Nesting(d)[n]
    <3>1. n + 1 \in Nat \ {0} /\ (n + 1) - 1 = n
      BY <1>1
    <3> QED BY <3>1, <2>4, <2>7, NestingAt, AfterPlain
  <2>10. \A k \in 1 .. n + 1 : (k \in 1 .. n /\ d[k] = c[k]) \/ d[k].t = "."
    BY <2>2, <2>4, <2>5
  <2> QED BY <2>2, <2>3, <2>7, <2>8, <2>9, <2>10 DEF ProperText, Balanced, n
<1> QED BY <1>2, <1>3 DEF EnsureProperTermination

-----------------------------------------------------------------------------
UploadFields ==
  {"text", "format", "pos", "prefixes", "base", "blankNodeCounter", "graph", "quads", "status"}

(* Before the n-th token there is no shorthand.                            *)
Unabridged(text, n) == \A k \in 1 .. n - 1 : TypeAt(text, k) \notin Shorthand

(* An upload whose directives and names of graphs swallow no bracket: any  *)
(* in N-Triples and N-Quads.                                               *)
Honest == SwallowsNoBracket(upload.text, upload.format)

(* A place of the upload where, if it is such a one, no bracket is open.   *)
AtTop(i) == i \in 1 .. Len(upload.text) + 1 /\ (Honest => Clear(upload.text, i))

(* TriG and N-Quads look at the text between blocks, statements and quads  *)
(* with no bracket open; a TurtleParser is in the brackets of its calls,   *)
(* and once it is done with the piece it was given none is open behind it. *)
IInv ==
  /\ DOMAIN upload = UploadFields /\ upload.format \in Format /\ ProperText(upload.text)
  /\ upload.status = "open" /\ upload.format \in {"trig", "nquads"} => AtTop(upload.pos)
  /\ upload.status = "open" /\ upload.format = "nquads" => Unabridged(upload.text, upload.pos)
  /\ upload.status = "inside" =>
       /\ upload.format # "nquads" /\ InBrackets(parser) /\ (Honest => Tame(parser))
       /\ upload.format = "trig" =>
            /\ upload.pos \in 1 .. Len(upload.text) + 1
            /\ Balanced(parser.input) => AtTop(upload.pos)
       /\ upload.format \in {"turtle", "strict"} => parser.input = upload.text
       /\ upload.format = "strict" => InStrict(parser)
  /\ upload.status = "done" =>
       /\ Honest => Balanced(upload.text)
       /\ upload.format = "strict" => Sheltered(upload.text, Len(upload.text) + 1)
       /\ upload.format = "nquads" => Unabridged(upload.text, Len(upload.text) + 1)

(* A parser that begins is at the start of its text, in no call.           *)
LEMMA FreshParser ==
  ASSUME NEW text, ProperText(text), NEW prefixes, NEW base, NEW counter, NEW strict
  PROVE  /\ InBrackets(NewTurtleParser(text, prefixes, base, counter, strict))
         /\ strict /\ DOMAIN prefixes = {} => InStrict(NewTurtleParser(text, prefixes, base, counter, strict))
<1> DEFINE q == NewTurtleParser(text, prefixes, base, counter, strict)
<1>1. /\ DOMAIN q = ParserFields /\ q.input = text /\ q.pos = 1 /\ q.stack = <<>>
      /\ q.status = "reading" /\ q.strictNTriples = strict /\ q.prefixes = prefixes
  BY DEF NewTurtleParser, ParserFields
<1> HIDE DEF q
<1>2. Clear(text, 1)
  BY ClearAtStart
<1>3. Framed(q.stack) /\ Brackets(q.stack) = <<>> /\ Len(q.stack) = 0
  BY <1>1, NoFrame
<1>4. InBrackets(q)
  BY <1>1, <1>2, <1>3 DEF InBrackets, Clear
<1>5. Sheltered(text, 1)
  <2>1. \A k \in 1 .. 1 - 1 : FALSE
    OBVIOUS
  <2> QED BY <2>1 DEF Sheltered
<1>6. StrictCalls(q.stack)
  <2>1. \A k \in 1 .. 0 - 1 : FALSE
    OBVIOUS
  <2> QED BY <2>1, <1>1, <1>3 DEF StrictCalls
<1>7. strict /\ DOMAIN prefixes = {} => InStrict(q)
  BY <1>1, <1>5, <1>6 DEF InStrict
<1> QED BY <1>4, <1>7 DEF q

(* A refused upload promises nothing.                                      *)
LEMMA GivenUp ==
  ASSUME IInv, GiveUp
  PROVE  IInv'
BY DEF IInv, GiveUp, UploadFields

(* The text and the format of an upload never change.                      *)
LEMMA SameUpload ==
  ASSUME upload'.text = upload.text, upload'.format = upload.format
  PROVE  /\ Honest' <=> Honest
         /\ \A i : AtTop(i)' <=> AtTop(i)
<1>1. Honest' <=> Honest
  BY DEF Honest
<1> QED BY <1>1 DEF AtTop

(* N-Triples and N-Quads have neither directives nor names of graphs.      *)
LEMMA HonestFormats ==
  ASSUME upload.format \in {"strict", "nquads"}
  PROVE  Honest
BY DEF Honest, SwallowsNoBracket

(* An upload handed to a TurtleParser, up to a place where no bracket is   *)
(* open if the parser finds that its brackets match.                       *)
LEMMA Delegated ==
  ASSUME IInv, Outside, NEW content, ProperText(content), NEW graph, NEW pos, NEW counter,
         pos \in 1 .. Len(upload.text) + 1, Honest => PlainPrefixes(content),
         Balanced(content) => AtTop(pos), Delegate(content, graph, pos, counter)
  PROVE  IInv'
<1>1. /\ DOMAIN upload' = UploadFields /\ upload'.text = upload.text /\ upload'.format = "trig"
      /\ upload'.status = "inside" /\ upload'.pos = pos /\ upload.format = "trig"
  BY DEF IInv, Outside, Delegate, UploadFields
<1>2. InBrackets(parser') /\ parser'.input = content /\ parser'.strictNTriples = FALSE
  BY FreshParser DEF Delegate, NewTurtleParser
<1>3. (Honest' <=> Honest) /\ \A i : AtTop(i)' <=> AtTop(i)
  BY <1>1, SameUpload
<1>4. (Honest => Tame(parser))'
  BY <1>2, <1>3 DEF Tame
<1>5. ProperText(upload.text)
  BY DEF IInv
<1>6. Balanced(parser'.input) => AtTop(upload.pos)'
  <2>1. AtTop(pos)' => AtTop(upload.pos)'
    BY <1>1 DEF AtTop
  <2> QED BY <1>2, <1>3, <2>1
<1> QED BY <1>1, <1>2, <1>4, <1>5, <1>6 DEF IInv, Format

(* The text between two blocks, statements or quads.                       *)
LEMMA OpenText ==
  ASSUME IInv, upload.status = "open", upload.format \in {"trig", "nquads"}
  PROVE  /\ ProperText(upload.text) /\ Len(upload.text) \in Nat
         /\ AtTop(upload.pos) /\ upload.pos \in Nat \ {0} /\ upload.pos \in 1 .. Len(upload.text) + 1
<1>1. Len(upload.text) \in Nat
  BY TypesOfText DEF IInv
<1> QED BY <1>1 DEF IInv, AtTop

(* Between blocks the parser moves to another place with no bracket open.  *)
LEMMA MovedOn ==
  ASSUME IInv, Outside, DOMAIN upload' = UploadFields, upload'.text = upload.text,
         upload'.format = upload.format, upload'.status = "open", AtTop(upload'.pos)
  PROVE  IInv'
<1>1. AtTop(upload.pos)'
  BY DEF AtTop, Honest
<1> QED BY <1>1 DEF IInv, Outside

(* A token that is no bracket further.                                     *)
LEMMA AtTopOn ==
  ASSUME ProperText(upload.text), NEW i, AtTop(i), Token(i) # "end", Honest => Token(i) \notin Marks
  PROVE  AtTop(i + 1) /\ i \in 1 .. Len(upload.text) /\ i \in Nat /\ i + 1 \in Nat
<1> DEFINE n == Len(upload.text)
<1>1. n \in Nat /\ i \in 1 .. n
  BY TypesOfText DEF Token
<1>2. i \in Nat /\ i + 1 \in Nat /\ i + 1 \in 1 .. n + 1
  <2> HIDE DEF n
  <2> QED BY <1>1
<1>3. Honest => Clear(upload.text, i + 1)
  BY <1>2, ClearOn DEF AtTop, Token
<1> QED BY <1>1, <1>2, <1>3 DEF AtTop

(* In a piece of a plain text no directive swallows a bracket.             *)
LEMMA PiecePlain ==
  ASSUME NEW text, ProperText(text), PlainPrefixes(text), NEW d, ProperText(d), NEW i \in Nat,
         \A k \in 1 .. Len(d) : d[k] = text[i + k] /\ i + k \in 1 .. Len(text)
  PROVE  PlainPrefixes(d)
<1>1. Len(d) \in Nat /\ Len(text) \in Nat
  BY TypesOfText
<1> SUFFICES ASSUME NEW j \in 1 .. Len(d), NEW l \in 1 .. Len(d), j < l,
                    d[j].t = "prefix", d[l].t \in Opening \cup Closing
             PROVE  \E k \in j + 1 .. l - 1 : d[k].t \in HasColon
  BY DEF PlainPrefixes
<1>2. /\ i + j \in 1 .. Len(text) /\ i + l \in 1 .. Len(text) /\ i + j < i + l
      /\ text[i + j].t = "prefix" /\ text[i + l].t \in Opening \cup Closing
  BY <1>1
<1>3. PICK k \in (i + j) + 1 .. (i + l) - 1 : text[k].t \in HasColon
  BY <1>2 DEF PlainPrefixes
<1>4. k - i \in j + 1 .. l - 1 /\ k - i \in 1 .. Len(d) /\ i + (k - i) = k
  BY <1>1
<1>5. d[k - i].t \in HasColon
  BY <1>3, <1>4
<1> QED BY <1>4, <1>5

(* A full stop behind it swallows nothing.                                 *)
LEMMA TerminatedPlain ==
  ASSUME NEW c, ProperText(c), PlainPrefixes(c), NEW d, d = EnsureProperTermination(c)
  PROVE  PlainPrefixes(d)
<1> DEFINE n == Len(c)
<1>1. n \in Nat
  BY TypesOfText
<1>2. CASE d = c
  BY <1>2
<1>3. CASE d = Append(c, [t |-> "."])
  <2>1. Len(d) = n + 1 /\ d[n + 1].t = "." /\ \A k \in 1 .. n : d[k] = c[k]
    <3> DEFINE R == {c[k] : k \in DOMAIN c}
               S == R \cup {[t |-> "."]}
    <3>1. c \in Seq(R)
      BY DEF ProperText, IsSequence
    <3> HIDE DEF R
    <3>2. c \in Seq(S) /\ [t |-> "."] \in S
      BY <3>1
    <3> HIDE DEF S
    <3>3. Len(d) = n + 1 /\ d[n + 1] = [t |-> "."] /\ \A k \in 1 .. n : d[k] = c[k]
      BY <1>3, <3>2, AppendProperties
    <3> QED BY <3>3
  <2> HIDE DEF n
  <2> SUFFICES ASSUME NEW j \in 1 .. n + 1, NEW l \in 1 .. n + 1, j < l,
                      d[j].t = "prefix", d[l].t \in Opening \cup Closing
               PROVE  \E k \in j + 1 .. l - 1 : d[k].t \in HasColon
    BY <2>1 DEF PlainPrefixes
  <2>2. l # n + 1
    BY <2>1 DEF Opening, Closing
  <2>3. j \in 1 .. n /\ l \in 1 .. n
    BY <1>1, <2>2
  <2>4. PICK k \in j + 1 .. l - 1 : c[k].t \in HasColon
    BY <2>1, <2>3 DEF PlainPrefixes, n
  <2>5. k \in 1 .. n
    BY <1>1, <2>3
  <2> QED BY <2>1, <2>4, <2>5
<1> QED BY <1>2, <1>3 DEF EnsureProperTermination

-----------------------------------------------------------------------------
(* Places behind a place.                                                  *)
LEMMA NextPlaces ==
  \A k \in Nat : /\ k + 1 \in Nat /\ k + 2 \in Nat /\ k + 3 \in Nat
                 /\ (k + 1) + 1 = k + 2 /\ (k + 1) + 2 = k + 3 /\ (k + 2) + 1 = k + 3 /\ (k + 3) + 1 = k + 4
OBVIOUS

(* Places of a block between its braces.                                   *)
LEMMA PlacesOfBlock ==
  ASSUME NEW n \in Nat, NEW b \in 1 .. n, NEW e \in b + 1 .. n
  PROVE  /\ b \in Nat \ {0} /\ b + 1 \in Nat \ {0} /\ (b + 1) - 1 = b
         /\ e \in Nat \ {0} /\ e - 1 \in Nat /\ b + 1 <= (e - 1) + 1 /\ e - 1 <= n
         /\ ((e - 1) + 1) - (b + 1) \in Nat /\ b + (((e - 1) + 1) - (b + 1)) = e - 1
         /\ e + 1 \in 1 .. n + 1 /\ (e + 1) - 1 = e
OBVIOUS

(* One bracket is open.                                                    *)
LEMMA OneOpen ==
  \A x : <<x>> \o <<>> # <<>> /\ Head(<<x>> \o <<>>) = x /\ Tail(<<x>> \o <<>>) = <<>>
OBVIOUS

(* Where the brackets of its content match, so do the braces of a block.   *)
LEMMA ClearBehindBlock ==
  ASSUME NEW text, ProperText(text), NEW b \in 1 .. Len(text), Nesting(text)[b - 1] = <<>>,
         TypeAt(text, b) = "{", NEW e \in b + 1 .. Len(text), TypeAt(text, e) = "}",
         NEW d, d = EnsureProperTermination(SubSeq(text, b + 1, e - 1)), Balanced(d)
  PROVE  Clear(text, e + 1)
<1> DEFINE n == Len(text)
           m == ((e - 1) + 1) - (b + 1)
           c == SubSeq(text, b + 1, e - 1)
<1>1. n \in Nat
  BY TypesOfText
<1>2. /\ b \in Nat \ {0} /\ b + 1 \in Nat \ {0} /\ (b + 1) - 1 = b
      /\ e \in Nat \ {0} /\ e - 1 \in Nat /\ b + 1 <= (e - 1) + 1 /\ e - 1 <= n
      /\ m \in Nat /\ b + m = e - 1
      /\ e + 1 \in 1 .. n + 1 /\ (e + 1) - 1 = e
  BY <1>1, PlacesOfBlock
<1>3. ProperText(c) /\ Len(c) = m /\ \A k \in 1 .. m : TypeAt(c, k) = TypeAt(text, b + k)
  <2>1. /\ ProperText(c) /\ Len(c) = m
        /\ \A k \in 1 .. m : TypeAt(c, k) = TypeAt(text, ((b + 1) - 1) + k)
    <3> DEFINE i == b + 1
               j == e - 1
    <3>1. i \in Nat \ {0} /\ j \in Nat /\ i <= j + 1 /\ j <= Len(text)
      BY <1>2
    <3> HIDE DEF i, j
    <3>2. /\ ProperText(SubSeq(text, i, j))
          /\ Len(SubSeq(text, i, j)) = (j + 1) - i
          /\ \A k \in 1 .. (j + 1) - i :
              /\ TypeAt(SubSeq(text, i, j), k) = TypeAt(text, (i - 1) + k)
              /\ SubSeq(text, i, j)[k] = text[(i - 1) + k] /\ (i - 1) + k \in 1 .. Len(text)
      BY <3>1, PieceOfText
    <3>3. \A k \in 1 .. (j + 1) - i : TypeAt(SubSeq(text, i, j), k) = TypeAt(text, (i - 1) + k)
      BY <3>2
    <3> QED BY <3>2, <3>3 DEF i, j
  <2> HIDE DEF c, m
  <2> QED BY <1>2, <2>1
<1> HIDE DEF c, m
<1>4. (\A k \in 1 .. m : TypeAt(text, b + k) = TypeAt(d, k)) /\ Nesting(d)[m] = <<>>
  <2>1. d = EnsureProperTermination(c)
    BY DEF c
  <2>2. (\A k \in 1 .. Len(c) : TypeAt(d, k) = TypeAt(c, k)) /\ Nesting(d)[Len(c)] = <<>>
    BY <1>3, <2>1, TerminatedPiece
  <2> QED BY <1>3, <2>2
<1>5. Nesting(text)[b + m] = Nesting(text)[b]
  <2>1. b \in Nat /\ m \in Nat
    BY <1>2
  <2> QED BY <1>4, <2>1, NestingWithin, Zenon
<1>6. Nesting(text)[b] = <<"{">> \o <<>>
  <2>1. "{" \in Opening
    BY DEF Opening
  <2>2. Nesting(text)[b] = After(<<>>, "{")
    BY <1>2, NestingAt
  <2> QED BY <2>1, <2>2, AfterOpening
<1>7. Nesting(text)[e] = After(<<"{">> \o <<>>, "}")
  <2>1. Nesting(text)[e] = After(Nesting(text)[e - 1], "}")
    BY <1>2, NestingAt
  <2> QED BY <1>2, <1>5, <1>6, <2>1
<1>8. Closes("{", "}")
  BY DEF Closes
<1>9. Nesting(text)[e] = <<>>
  BY <1>7, <1>8, OneOpen, AfterClosing
<1> QED BY <1>2, <1>9 DEF Clear, n

(* parseTriplesBlock hands on the content of a block, from one brace to    *)
(* the one that it counts as its match.                                    *)
LEMMA BlockDelegated ==
  ASSUME IInv, Outside, NEW brace \in Nat, AtTop(brace), Token(brace) = "{",
         NEW graph, NEW counter, ParseTriplesBlock(brace, graph, counter)
  PROVE  IInv'
<1> DEFINE text == upload.text
           ends == ClosingBraces(brace + 1)
           e == First(ends)
           c == SubSeq(text, brace + 1, e - 1)
           d == EnsureProperTermination(c)
<1>1. ProperText(text) /\ brace \in 1 .. Len(text) /\ (Honest => Nesting(text)[brace - 1] = <<>>)
  BY OpenText, TypesOfText DEF Outside, AtTop, Clear, Token
<1>2. CASE ends = {} \/ Token(e) = "|}" \/ Token(brace + 1) \in {"prefix", "@base", "base"}
  BY <1>2, GivenUp DEF ParseTriplesBlock
<1>3. CASE ~(ends = {} \/ Token(e) = "|}" \/ Token(brace + 1) \in {"prefix", "@base", "base"})
  <2>1. Delegate(d, graph, e + 1, counter)
    BY <1>3 DEF ParseTriplesBlock
  <2>2. brace + 1 \in Nat
    BY NextPlaces
  <2>3. e \in brace + 1 .. Len(text) /\ Token(e) \in {"}", "|}"}
    <3> DEFINE first == brace + 1
    <3>1. ends = ClosingBraces(first) /\ first \in Nat
      BY <2>2
    <3>2. ends # {}
      BY <1>3, Zenon
    <3> HIDE DEF first
    <3>3. e \in first .. Len(text) /\ Token(e) \in {"}", "|}"}
      BY <1>1, <3>1, <3>2, BlockEndCloses, Zenon
    <3> QED BY <3>3 DEF first
  <2>4. Token(e) = "}"
    BY <1>3, <2>3
  <2> HIDE DEF e
  <2> DEFINE m == ((e - 1) + 1) - (brace + 1)
  <2>5. /\ ProperText(c) /\ Len(c) = m /\ m \in Nat
        /\ \A k \in 1 .. m : c[k] = text[brace + k] /\ brace + k \in 1 .. Len(text)
    <3> DEFINE i == brace + 1
               j == e - 1
    <3>1. /\ i \in Nat \ {0} /\ j \in Nat /\ i <= j + 1 /\ j <= Len(text)
          /\ m \in Nat /\ i - 1 = brace
      BY <1>1, <2>3, PlacesOfBlock, TypesOfText
    <3> HIDE DEF i, j
    <3>2. /\ ProperText(SubSeq(text, i, j))
          /\ Len(SubSeq(text, i, j)) = (j + 1) - i
          /\ \A k \in 1 .. (j + 1) - i :
              /\ TypeAt(SubSeq(text, i, j), k) = TypeAt(text, (i - 1) + k)
              /\ SubSeq(text, i, j)[k] = text[(i - 1) + k] /\ (i - 1) + k \in 1 .. Len(text)
      BY <1>1, <3>1, PieceOfText
    <3>3. (j + 1) - i = m
      BY DEF i, j
    <3>4. c = SubSeq(text, i, j)
      BY DEF i, j
    <3> HIDE DEF m, c
    <3> QED BY <3>1, <3>2, <3>3, <3>4
  <2>6. ProperText(d)
    BY <2>5, TerminatedPiece
  <2>7. /\ e + 1 \in 1 .. Len(text) + 1
        /\ Balanced(d) => AtTop(e + 1)
    <3>1. e + 1 \in 1 .. Len(text) + 1
      BY <1>1, <2>3, TypesOfText, PlacesOfBlock
    <3>2. Honest /\ Balanced(d) => Clear(text, e + 1)
      BY <1>1, <2>3, <2>4, ClearBehindBlock DEF Token
    <3> QED BY <3>1, <3>2 DEF AtTop
  <2>8. Honest => PlainPrefixes(d)
    <3>1. Honest => PlainPrefixes(text)
      BY DEF Honest, SwallowsNoBracket, Outside
    <3> HIDE DEF m
    <3>2. PlainPrefixes(text) => PlainPrefixes(c)
      <4> HIDE DEF c
      <4>1. \A k \in 1 .. Len(c) : c[k] = text[brace + k] /\ brace + k \in 1 .. Len(text)
        BY <2>5
      <4> QED BY <1>1, <2>5, <4>1, PiecePlain
    <3>3. PlainPrefixes(c) => PlainPrefixes(d)
      BY <2>5, TerminatedPlain
    <3> QED BY <3>1, <3>2, <3>3
  <2> HIDE DEF d
  <2> QED BY <2>1, <2>6, <2>7, <2>8, Delegated
<1> QED BY <1>2, <1>3

(* parseDefaultGraphTripleBlock hands on a statement with its full stop.   *)
LEMMA StatementDelegated ==
  ASSUME IInv, Outside, ParseDefaultGraphTripleBlock
  PROVE  IInv'
<1> DEFINE text == upload.text
           n == Len(text)
           i == upload.pos
           stops == StatementStops(i)
           e == First(stops)
           c == SubSeq(text, i, e)
<1>1. ProperText(text) /\ n \in Nat /\ i \in Nat \ {0} /\ (Honest => Nesting(text)[i - 1] = <<>>)
  BY OpenText DEF Outside, AtTop, Clear
<1>2. CASE stops = {} \/ Token(e) \notin FullStop
  BY <1>2, GivenUp DEF ParseDefaultGraphTripleBlock
<1>3. CASE ~(stops = {} \/ Token(e) \notin FullStop)
  <2>1. Delegate(c, DefaultGraph, e + 1, upload.blankNodeCounter)
    BY <1>3 DEF ParseDefaultGraphTripleBlock
  <2>2. e \in i .. n
    <3>1. \A j \in stops : j \in i .. n
      BY DEF StatementStops
    <3>2. stops \subseteq Nat
      <4> HIDE DEF n, stops, i
      <4>1. \A j \in i .. n : j \in Nat
        BY <1>1
      <4> QED BY <3>1, <4>1
    <3>3. e \in stops
      <4> HIDE DEF stops
      <4> QED BY <1>3, <3>2, FirstIsLeast
    <3> QED BY <3>1, <3>3
  <2> HIDE DEF n, e, i
  <2> DEFINE m == (e + 1) - i
  <2>3. /\ e \in Nat /\ i <= e + 1 /\ e <= n /\ m \in Nat /\ i - 1 \in Nat /\ (i - 1) + m = e
        /\ e + 1 \in 1 .. n + 1 /\ (e + 1) - 1 = e
    BY <1>1, <2>2
  <2>4. /\ ProperText(c) /\ Len(c) = m
        /\ \A k \in 1 .. m : /\ TypeAt(c, k) = TypeAt(text, (i - 1) + k)
                             /\ c[k] = text[(i - 1) + k] /\ (i - 1) + k \in 1 .. Len(text)
    <3>1. e <= Len(text)
      BY <2>3 DEF n
    <3> QED BY <1>1, <2>3, <3>1, PieceOfText
  <2> HIDE DEF c, m
  <2>5. ASSUME Balanced(c) PROVE AtTop(e + 1)
    <3>1. Nesting(c)[m] = <<>>
      BY <2>4, <2>5 DEF Balanced
    <3>2. \A k \in 1 .. m : TypeAt(text, (i - 1) + k) = TypeAt(c, k)
      BY <2>4
    <3> DEFINE b == i - 1
    <3>3. /\ b \in Nat /\ m \in Nat
          /\ \A k \in 1 .. m : TypeAt(text, b + k) = TypeAt(c, k)
      BY <2>3, <3>2
    <3>4. Nesting(text)[b + m] = Nesting(text)[b]
      <4> HIDE DEF b, text, stops
      <4> QED BY <3>1, <3>3, NestingWithin
    <3> QED BY <1>1, <2>3, <3>4 DEF AtTop, Clear, n
  <2>6. Honest => PlainPrefixes(c)
    <3>1. Honest => PlainPrefixes(text)
      BY DEF Honest, SwallowsNoBracket, Outside
    <3>2. \A k \in 1 .. Len(c) : c[k] = text[(i - 1) + k] /\ (i - 1) + k \in 1 .. Len(text)
      BY <2>4
    <3> QED BY <1>1, <2>3, <2>4, <3>1, <3>2, PiecePlain
  <2>7. e + 1 \in 1 .. Len(upload.text) + 1
    BY <2>3 DEF n
  <2> QED BY <2>1, <2>4, <2>5, <2>6, <2>7, Delegated
<1> QED BY <1>2, <1>3

-----------------------------------------------------------------------------
(* A stretch of the text, and a term behind it.                            *)
LEMMA ChainedRead ==
  ASSUME NEW text, ProperText(text), NEW i \in 1 .. Len(text) + 1, NEW j, Neutral(text, i, j),
         ~Stuck(TermsOf(text)[j])
  PROVE  Neutral(text, i, TermsOf(text)[j].next)
<1>1. j \in 1 .. Len(text) + 1
  <2> DEFINE n == Len(text)
  <2>1. n \in Nat /\ i \in 1 .. n + 1 /\ j \in i + 1 .. n + 1
    BY TypesOfText DEF Neutral
  <2> HIDE DEF n
  <2>2. j \in 1 .. n + 1
    BY <2>1
  <2> QED BY <2>2 DEF n
<1>2. Neutral(text, j, TermsOf(text)[j].next)
  BY <1>1, TermsNeutral DEF ReadNeutral
<1> QED BY <1>2, NeutralChain

(* A quad that is read leaves no bracket open, and has no shorthand.       *)
LEMMA QuadNeutral ==
  ASSUME ProperText(upload.text), NEW i \in 1 .. Len(upload.text) + 1, ~Stuck(QuadAt(i))
  PROVE  Neutral(upload.text, i, QuadAt(i).next)
<1> DEFINE text == upload.text
           s == TermsOf(text)[i]
           p == TermsOf(text)[s.next]
           o == TermsOf(text)[p.next]
           g == IF GraphAhead(o.next) THEN TermsOf(text)[o.next] ELSE Read(DefaultGraph, o.next)
           quad == Read([triple |-> Triple(s.term, p.term, o.term), g |-> g.term], g.next + 1)
<1>1. Stuck(Refused)
  BY DEF Stuck
<1>2. QuadAt(i) = IF Stuck(s) THEN s
                  ELSE IF s.term.kind = "triple" THEN Refused
                  ELSE IF Stuck(p) THEN p
                  ELSE IF p.term.kind = "triple" THEN Refused
                  ELSE IF Stuck(o) THEN o
                  ELSE IF Stuck(g) THEN g
                  ELSE IF Token(g.next) \notin FullStop THEN Refused
                  ELSE quad
  BY DEF QuadAt
<1>3. /\ ~Stuck(s) /\ ~Stuck(p) /\ ~Stuck(o) /\ ~Stuck(g)
      /\ Token(g.next) \in FullStop /\ QuadAt(i) = quad
  <2> HIDE DEF s, p, o, g, quad
  <2> QED BY <1>1, <1>2
<1>4. QuadAt(i).next = g.next + 1
  <2>1. \A x, y : Read(x, y).next = y
    BY DEF Read
  <2> HIDE DEF s, p, o, g
  <2>2. quad.next = g.next + 1
    BY <2>1
  <2> HIDE DEF quad
  <2> QED BY <1>3, <2>2
<1>5. Neutral(text, i, s.next)
  BY <1>3, TermsNeutral DEF ReadNeutral
<1> HIDE DEF s
<1>6. Neutral(text, i, p.next)
  BY <1>3, <1>5, ChainedRead
<1> HIDE DEF p
<1>7. Neutral(text, i, o.next)
  BY <1>3, <1>6, ChainedRead
<1> HIDE DEF o
<1>8. Neutral(text, i, g.next)
  <2>1. CASE GraphAhead(o.next)
    BY <1>3, <1>7, <2>1, ChainedRead
  <2>2. CASE ~GraphAhead(o.next)
    <3>1. g.next = o.next
      BY <2>2 DEF Read
    <3> QED BY <1>7, <3>1
  <2> QED BY <2>1, <2>2
<1> HIDE DEF g, quad
<1>9. Neutral(text, g.next, g.next + 1)
  <2>1. Token(g.next) \in {".", "point"}
    BY <1>3 DEF FullStop
  <2>2. Token(g.next) \notin Marks /\ Token(g.next) \notin Shorthand /\ Token(g.next) # "end"
    BY <2>1 DEF Marks, Opening, Closing, Shorthand
  <2>3. g.next \in 1 .. Len(text)
    BY <2>2, TypesOfText DEF Token
  <2> QED BY <2>2, <2>3, NeutralToken DEF Token
<1> QED BY <1>4, <1>8, <1>9, NeutralChain

(* parseQuad, and the end of a text of quads.                              *)
LEMMA QuadsKept ==
  ASSUME IInv, ParseQuad \/ ReturnNQuads
  PROVE  IInv'
<1> DEFINE text == upload.text
           i == upload.pos
           quad == QuadAt(i)
<1>1. /\ upload.status = "open" /\ upload.format = "nquads" /\ DOMAIN upload = UploadFields
      /\ ProperText(text) /\ Clear(text, i) /\ Unabridged(text, i) /\ upload.format \in Format
  BY HonestFormats DEF IInv, AtTop, ParseQuad, ReturnNQuads, ReadingQuads
<1>2. CASE ReturnNQuads
  <2>1. Balanced(text) /\ i = Len(text) + 1
    BY <1>1, <1>2, ClearAtEnd DEF ReturnNQuads, NextToken, Token
  <2>2. upload' = [upload EXCEPT !.status = "done"]
    BY <1>2 DEF ReturnNQuads
  <2> QED BY <1>1, <2>1, <2>2 DEF IInv, UploadFields
<1>3. CASE ParseQuad
  <2>1. \/ upload' = [upload EXCEPT !.status = "failed"]
        \/ upload' = [upload EXCEPT !.status = "panicked"]
        \/ ~Stuck(quad) /\ upload' = [upload EXCEPT !.quads = @ \cup {quad.term}, !.pos = quad.next]
    <3>1. upload' = CASE quad = Refused -> [upload EXCEPT !.status = "failed"]
                 [] quad = Panicked -> [upload EXCEPT !.status = "panicked"]
                 [] OTHER -> [upload EXCEPT !.quads = @ \cup {quad.term}, !.pos = quad.next]
      BY <1>3 DEF ParseQuad
    <3>2. Stuck(quad) <=> quad = Refused \/ quad = Panicked
      BY DEF Stuck
    <3> HIDE DEF quad
    <3>3. CASE quad = Refused
      <4>1. Refused # Panicked
        BY DEF Refused, Panicked, Read, None
      <4> QED BY <3>1, <3>3, <4>1, Zenon
    <3>4. CASE quad # Refused
      BY <3>1, <3>2, <3>4, Zenon
    <3> QED BY <3>3, <3>4
  <2>2. CASE upload' = [upload EXCEPT !.status = "failed"] \/ upload' = [upload EXCEPT !.status = "panicked"]
    BY <1>1, <2>2 DEF IInv, UploadFields
  <2>3. CASE ~Stuck(quad) /\ upload' = [upload EXCEPT !.quads = @ \cup {quad.term}, !.pos = quad.next]
    <3>1. Neutral(text, i, quad.next)
      BY <1>1, <2>3, QuadNeutral DEF Clear
    <3> HIDE DEF quad
    <3> DEFINE j == quad.next
               n == Len(text)
    <3>2. n \in Nat /\ i \in 1 .. n + 1 /\ j \in i + 1 .. n + 1 /\ Nesting(text)[j - 1] = <<>>
      BY <1>1, <3>1, TypesOfText DEF Neutral, Clear
    <3>3. \A k \in i .. j - 1 : TypeAt(text, k) \notin Shorthand
      BY <3>1 DEF Neutral
    <3>4. /\ DOMAIN upload' = UploadFields /\ upload'.text = text /\ upload'.format = "nquads"
          /\ upload'.pos = j /\ upload'.status = "open"
      BY <1>1, <2>3 DEF UploadFields
    <3> HIDE DEF j, n, i
    <3>5. j \in 1 .. n + 1 /\ \A k \in 1 .. j - 1 : k \in 1 .. i - 1 \/ k \in i .. j - 1
      BY <3>2
    <3>6. Clear(text, j) /\ AtTop(upload.pos)'
      BY <3>2, <3>4, <3>5 DEF Clear, AtTop, n
    <3>7. Unabridged(text, j)
      BY <1>1, <3>3, <3>5 DEF Unabridged
    <3> QED BY <1>1, <3>4, <3>6, <3>7 DEF IInv
  <2> QED BY <2>1, <2>2, <2>3
<1> QED BY <1>2, <1>3

-----------------------------------------------------------------------------
(* A block opens.                                                          *)
OpensBlock(i) == Token(i) = "{"

(* An IRI of TriG that swallows no bracket is one token.                   *)
LEMMA IRIAtTop ==
  ASSUME IInv, Outside, NEW j \in Nat, AtTop(j), TriGIRI(j) # None,
         \/ OpensBlock(j + GraphTermLength(j))
         \/ Token(j - 1) \in {"prefixname", "@base", "base"}
  PROVE  AtTop(j + GraphTermLength(j)) /\ j + GraphTermLength(j) \in Nat
<1> DEFINE text == upload.text
           n == Len(text)
           ends == TriGIRIEnds(text, j)
           end == First(ends)
<1>1. ProperText(text) /\ n \in Nat
  BY OpenText DEF Outside
<1>2. IsAngle(j) /\ ends # {} /\ Token(end) \notin {">>", ")>>"}
  BY Zenon DEF TriGIRI
<1>3. j \in 1 .. n /\ Token(j) # "end"
  BY <1>1, <1>2, TypesOfText DEF IsAngle, Token
<1>4. Token(j) = text[j].t
  BY <1>3 DEF Token, TypeAt
<1>5. ends \subseteq j .. n /\ (Token(j) \in {"iri", "relative"} /\ j \in j .. n => j \in ends)
  BY <1>4 DEF TriGIRIEnds
<1>6. GraphTermLength(j) = end + 1 - j
  BY <1>2 DEF GraphTermLength
<1>7. Token(j) \in {"<<", "<<("} /\ Honest =>
        /\ Token(j - 1) \notin {"prefixname", "@base", "base"}
        /\ \A k \in ends : k = end => ~OpensBlock(k + 1)
  <2>1. Honest => PlainIRIs(text)
    BY DEF Honest, SwallowsNoBracket, Outside
  <2> QED BY <1>3, <1>4, <2>1 DEF PlainIRIs, Token, OpensBlock
<1>8. Token(j) \in {"iri", "relative"} => Token(j) \notin Marks
  BY DEF Marks, Opening, Closing
<1> HIDE DEF ends, n
<1>9. j \in Nat /\ j .. n \subseteq Nat /\ j \in j .. n
  BY <1>1, <1>3
<1>10. end \in ends /\ (\A k \in ends : end <= k)
  <2>1. ends \subseteq Nat
    BY <1>5, <1>9
  <2> QED BY <1>2, <2>1, FirstIsLeast
<1> HIDE DEF end
<1>11. /\ j + GraphTermLength(j) = end + 1 /\ end + 1 \in 1 .. n + 1 /\ end + 1 \in Nat
       /\ end \in Nat /\ j <= end
  BY <1>1, <1>3, <1>5, <1>6, <1>10
<1>12. CASE Token(j) \in {"iri", "relative"}
  <2>1. end = j
    BY <1>5, <1>9, <1>10, <1>11, <1>12
  <2>2. AtTop(j + 1)
    BY <1>1, <1>3, <1>8, <1>12, AtTopOn
  <2> QED BY <1>11, <2>1, <2>2
<1>13. CASE Token(j) \in {"<<", "<<("}
  <2>1. ~Honest
    <3>1. ASSUME OpensBlock(end + 1), Honest PROVE FALSE
      BY <1>7, <1>10, <1>13, <3>1
    <3>2. OpensBlock(end + 1) \/ Token(j - 1) \in {"prefixname", "@base", "base"}
      BY <1>11
    <3> QED BY <1>7, <1>13, <3>1, <3>2
  <2> QED BY <1>11, <2>1 DEF AtTop, n
<1> QED BY <1>2, <1>12, <1>13 DEF IsAngle

(* Any other term of TriGParser.parseTerm is one token that is no bracket, *)
(* or a number of three.                                                   *)
LEMMA TermAtTop ==
  ASSUME IInv, Outside, NEW i \in Nat, AtTop(i), GraphTerm(i) # None, OpensBlock(i + GraphTermLength(i))
  PROVE  AtTop(i + GraphTermLength(i)) /\ i + GraphTermLength(i) \in Nat /\ Token(i) # "["
<1> DEFINE text == upload.text
           q == Unread(i)
<1>1. ProperText(text)
  BY OpenText DEF Outside
<1>2. CASE IsAngle(i)
  <2>1. TriGIRI(i) # None
    BY <1>2 DEF GraphTerm
  <2>2. Token(i) # "["
    BY <1>2 DEF IsAngle
  <2> QED BY <2>1, <2>2, IRIAtTop
<1>3. CASE ~IsAngle(i)
  <2>1. q.input = text /\ q.pos = i
    BY DEF Unread
  <2>2. Token(i) \in {"iri", "relative", "name", "label", "string", "boolean", "number", "a"}
    <3>1. SimpleTerm(q) # None
      BY <1>3 DEF GraphTerm
    <3> HIDE DEF q
    <3> QED BY <2>1, <3>1, TokenOfTerm DEF Token
  <2>3. /\ Token(i) \notin Marks /\ Token(i) # "end" /\ Token(i) # "["
        /\ "point" \notin Marks \cup {"end"} /\ "number" \notin Marks \cup {"end"}
    BY <2>2 DEF Marks, Opening, Closing
  <2>4. i \in Nat /\ i + 1 \in Nat /\ AtTop(i + 1)
    BY <1>1, <2>3, AtTopOn
  <2>5. GraphTermLength(i) = IF Token(i) = "number" /\ HasPoint(q) THEN 3 ELSE 1
    <3>1. GraphTermLength(i) = SimpleLength(q)
      BY <1>3 DEF GraphTermLength
    <3> HIDE DEF q
    <3> QED BY <2>1, <3>1 DEF SimpleLength, Token
  <2>6. CASE GraphTermLength(i) = 1
    BY <2>3, <2>4, <2>6
  <2>7. CASE HasPoint(q) /\ GraphTermLength(i) = 3
    <3>1. Token(i + 1) = "point" /\ Token(i + 2) = "number"
      BY <2>7 DEF Unread, HasPoint, Token
    <3>2. AtTop((i + 1) + 1)
      BY <1>1, <2>3, <2>4, <3>1, AtTopOn
    <3>3. (i + 1) + 1 = i + 2 /\ (i + 2) + 1 = i + 3 /\ i + 3 \in Nat
      BY <2>4
    <3>4. AtTop((i + 2) + 1)
      BY <1>1, <2>3, <3>1, <3>2, <3>3, AtTopOn
    <3> QED BY <2>3, <2>7, <3>3, <3>4
  <2> QED BY <2>5, <2>6, <2>7
<1> QED BY <1>2, <1>3

(* [] may name a graph.                                                    *)
LEMMA AnonymousAtTop ==
  ASSUME IInv, Outside, NEW i, AtTop(i), AnonymousAt(i)
  PROVE  AtTop(i + 2) /\ i + 2 \in Nat
<1> DEFINE n == Len(upload.text)
<1>1. ProperText(upload.text)
  BY OpenText DEF Outside
<1>2. "[" \in Opening /\ Closes("[", "]")
  BY DEF Opening, Closes
<1>3. n \in Nat /\ i \in 1 .. n /\ i + 1 \in 1 .. n
  BY <1>1, TypesOfText DEF AnonymousAt, Token
<1> HIDE DEF n
<1>4. i \in Nat /\ i + 2 \in Nat /\ i + 2 \in 1 .. n + 1
  BY <1>3
<1>5. Honest => Clear(upload.text, i + 2)
  BY <1>1, <1>2, <1>4, ClearOver DEF AnonymousAt, Token, AtTop
<1> QED BY <1>4, <1>5 DEF AtTop, n

(* The directives of TriG.                                                 *)
LEMMA DirectivesKept ==
  ASSUME IInv, ParseTriGPrefix \/ ParseTriGBase
  PROVE  IInv'
<1> DEFINE text == upload.text
           i == upload.pos
<1>1. /\ Outside /\ ProperText(text) /\ Len(text) \in Nat /\ AtTop(i) /\ i \in Nat
      /\ DOMAIN upload = UploadFields /\ upload.status = "open" /\ upload.format = "trig"
  BY OpenText DEF ParseTriGPrefix, ParseTriGBase, Outside, IInv
<1>2. \A type \in {"prefix", "@base", "base", "prefixname", "."} : type \notin Marks \cup {"end"}
  BY DEF Marks, Opening, Closing
<1>3. ASSUME NEW j, upload'.pos = j, AtTop(j), DOMAIN upload' = UploadFields,
             upload'.text = text, upload'.format = upload.format, upload'.status = "open"
      PROVE  IInv'
  BY <1>1, <1>3, MovedOn
<1>4. ASSUME NEW j, AtTop(j)
      PROVE  AtTop(IF Token(j) = "." THEN j + 1 ELSE j)
  BY <1>1, <1>2, <1>4, AtTopOn
<1>5. CASE ParseTriGPrefix
  <2> DEFINE colons == Colons(text, i + 1)
             name == First(colons)
             j == name + 1
             next == j + GraphTermLength(j)
  <2>1. CASE GiveUp
    BY <2>1, GivenUp
  <2>2. CASE ~GiveUp
    <3>1. /\ Token(i) = "prefix" /\ colons # {} /\ Token(name) = "prefixname" /\ TriGIRI(j) # None
          /\ \E prefixes : upload' = [upload EXCEPT !.prefixes = prefixes,
                                                    !.pos = IF Token(next) = "." THEN next + 1 ELSE next]
      BY <1>5, <2>2, Zenon DEF ParseTriGPrefix, NextToken
    <3>2. i \in 1 .. Len(text)
      BY <1>1, <3>1, TypesOfText DEF Token
    <3>3. name \in i + 1 .. Len(text) /\ (PlainPrefixes(text) => NoMarks(text, i, name))
      BY <1>1, <3>1, <3>2, PrefixName DEF Token
    <3> HIDE DEF name
    <3>4. name \in Nat /\ name \in 1 .. Len(text) + 1 /\ i <= name /\ i \in Nat \ {0} /\ name \in i .. name
      BY <1>1, <3>2, <3>3
    <3>5. AtTop(name)
      <4> SUFFICES ASSUME Honest PROVE Clear(text, name)
        BY <3>4 DEF AtTop
      <4>1. NoMarks(text, i, name)
        BY <1>1, <3>3 DEF Honest, SwallowsNoBracket
      <4>2. Nesting(text)[name - 1] = Nesting(text)[i - 1]
        BY <3>4, <4>1, NestingPlain
      <4> QED BY <1>1, <3>4, <4>2 DEF AtTop, Clear
    <3>6. AtTop(j) /\ j - 1 = name /\ j \in Nat
      BY <1>1, <1>2, <3>1, <3>4, <3>5, AtTopOn
    <3> HIDE DEF j
    <3>7. AtTop(next)
      BY <1>1, <3>1, <3>6, IRIAtTop
    <3> HIDE DEF next
    <3>8. AtTop(IF Token(next) = "." THEN next + 1 ELSE next)
      BY <1>4, <3>7
    <3> HIDE DEF i
    <3> QED BY <1>1, <1>3, <3>1, <3>8 DEF UploadFields
  <2> QED BY <2>1, <2>2
<1>6. CASE ParseTriGBase
  <2> DEFINE j == i + 1
             next == j + GraphTermLength(j)
  <2>1. CASE GiveUp
    BY <2>1, GivenUp
  <2>2. CASE ~GiveUp
    <3>1. /\ Token(i) \in {"@base", "base"} /\ TriGIRI(j) # None
          /\ \E base : upload' = [upload EXCEPT !.base = base,
                                                !.pos = IF Token(next) = "." THEN next + 1 ELSE next]
      BY <1>6, <2>2, Zenon DEF ParseTriGBase, NextToken
    <3>2. AtTop(j) /\ j - 1 = i /\ j \in Nat
      BY <1>1, <1>2, <3>1, AtTopOn
    <3> HIDE DEF j
    <3>3. AtTop(next)
      BY <1>1, <3>1, <3>2, IRIAtTop
    <3> HIDE DEF next
    <3>4. AtTop(IF Token(next) = "." THEN next + 1 ELSE next)
      BY <1>4, <3>3
    <3> HIDE DEF i
    <3> QED BY <1>1, <1>3, <3>1, <3>4 DEF UploadFields
  <2> QED BY <2>1, <2>2
<1> QED BY <1>5, <1>6

(* Blocks with and without a name.                                         *)
LEMMA BlocksKept ==
  ASSUME IInv, ParseGraphBlock \/ ParseAnonymousGraphBlock \/ ParseNamedGraphBlock
  PROVE  IInv'
<1> DEFINE text == upload.text
           i == upload.pos
<1>1. Outside /\ ProperText(text) /\ AtTop(i) /\ i \in Nat /\ NextToken = Token(i)
  BY OpenText DEF ParseGraphBlock, ParseAnonymousGraphBlock, ParseNamedGraphBlock, Outside, NextToken
<1> HIDE DEF i
<1>2. ASSUME NEW brace \in Nat, AtTop(brace), Token(brace) = "{",
             \E graph, counter : ParseTriplesBlock(brace, graph, counter)
      PROVE  IInv'
  BY <1>1, <1>2, BlockDelegated
<1>3. CASE ParseAnonymousGraphBlock
  BY <1>1, <1>2, <1>3 DEF ParseAnonymousGraphBlock, i
<1>4. CASE ParseGraphBlock
  <2> DEFINE j == i + 1
             b == j + GraphTermLength(j)
  <2>1. \/ GiveUp
        \/ /\ AnonymousAt(j) /\ Token(j + 2) = "{"
           /\ \E graph, counter : ParseTriplesBlock(j + 2, graph, counter)
        \/ /\ GraphTerm(j) # None /\ Token(b) = "{"
           /\ \E graph, counter : ParseTriplesBlock(b, graph, counter)
    <3>1. None.kind \notin {"iri", "blank"}
      BY DEF None
    <3>2. \/ GiveUp
          \/ /\ AnonymousAt(j) /\ Token(j + 2) = "{"
             /\ \E graph, counter : ParseTriplesBlock(j + 2, graph, counter)
          \/ /\ GraphTerm(j).kind \in {"iri", "blank"} /\ Token(b) = "{"
             /\ \E graph, counter : ParseTriplesBlock(b, graph, counter)
      BY <1>4, Zenon DEF ParseGraphBlock, i
    <3> HIDE DEF b, j
    <3> QED BY <3>1, <3>2
  <2>2. AtTop(j) /\ j \in Nat
    <3>1. Token(i) = "graph"
      BY <1>1, <1>4 DEF ParseGraphBlock
    <3>2. "graph" \notin Marks \cup {"end"}
      BY DEF Marks, Opening, Closing
    <3> QED BY <1>1, <3>1, <3>2, AtTopOn
  <2> HIDE DEF j
  <2>3. AnonymousAt(j) => AtTop(j + 2) /\ j + 2 \in Nat
    BY <1>1, <2>2, AnonymousAtTop
  <2>4. GraphTerm(j) # None /\ Token(b) = "{" => AtTop(b) /\ b \in Nat
    BY <1>1, <2>2, TermAtTop DEF OpensBlock
  <2> HIDE DEF b
  <2> QED BY <1>2, <2>1, <2>3, <2>4, GivenUp
<1>5. CASE ParseNamedGraphBlock
  <2> DEFINE j == i + GraphTermLength(i)
  <2>1. GraphTerm(i) # None /\ Token(j) = "{" => AtTop(j) /\ j \in Nat /\ Token(i) # "["
    BY <1>1, TermAtTop DEF OpensBlock
  <2>2. AnonymousAt(i) => AtTop(i + 2) /\ i + 2 \in Nat
    BY <1>1, AnonymousAtTop
  <2>3. \/ AnonymousAt(i) /\ Token(i + 2) = "{"
        \/ GraphTerm(i) # None /\ Token(j) = "{"
    BY <1>5 DEF ParseNamedGraphBlock, NamedBlockAhead, i
  <2>4. \/ Token(i) = "[" /\ \E graph, counter : ParseTriplesBlock(i + 2, graph, counter)
        \/ Token(i) # "[" /\ \E graph, counter : ParseTriplesBlock(j, graph, counter)
    <3>1. \/ NextToken = "[" /\ \E graph, counter : ParseTriplesBlock(i + 2, graph, counter)
          \/ NextToken # "[" /\ \E graph, counter : ParseTriplesBlock(j, graph, counter)
      BY <1>5, Zenon DEF ParseNamedGraphBlock, i
    <3> QED BY <1>1, <3>1
  <2> HIDE DEF j
  <2>5. CASE AnonymousAt(i) /\ Token(i + 2) = "{"
    <3>1. Token(i) = "["
      BY <2>5 DEF AnonymousAt
    <3> QED BY <1>2, <2>2, <2>4, <2>5, <3>1
  <2>6. CASE GraphTerm(i) # None /\ Token(j) = "{"
    BY <1>2, <2>1, <2>4, <2>6
  <2> QED BY <2>3, <2>5, <2>6
<1> QED BY <1>3, <1>4, <1>5

(* The start and the end of an upload, and the steps of a TurtleParser.    *)
LEMMA ParsersKept ==
  ASSUME IInv, ReadWhole \/ ParseInside \/ TakeOver \/ PassError \/ ReturnQuads
  PROVE  IInv'
<1>1. DOMAIN upload = UploadFields /\ upload.format \in Format /\ ProperText(upload.text)
  BY DEF IInv
<1>2. CASE ReadWhole
  <2>1. /\ DOMAIN upload' = UploadFields /\ upload'.text = upload.text /\ upload'.format = upload.format
        /\ upload'.status = "inside" /\ upload.format \in {"turtle", "strict"}
    BY <1>1, <1>2 DEF ReadWhole, UploadFields
  <2>2. parser' = NewTurtleParser(upload.text, NoPrefixes, NoBase, 0, upload.format = "strict")
    BY <1>2 DEF ReadWhole
  <2>3. parser'.input = upload.text
    BY <2>2 DEF NewTurtleParser
  <2>4. DOMAIN NoPrefixes = {}
    BY DEF NoPrefixes
  <2>5. InBrackets(parser') /\ (upload.format = "strict" => InStrict(parser'))
    BY <1>1, <2>2, <2>4, FreshParser
  <2>6. (Honest => Tame(parser))'
    <3>1. parser'.strictNTriples = (upload.format = "strict")
      BY <2>2 DEF NewTurtleParser
    <3>2. Honest => upload.format = "strict" \/ PlainPrefixes(upload.text)
      BY <2>1 DEF Honest, SwallowsNoBracket
    <3> QED BY <2>1, <2>3, <3>1, <3>2, SameUpload DEF Tame
  <2> QED BY <1>1, <2>1, <2>3, <2>5, <2>6 DEF IInv
<1>3. CASE ParseInside
  <2>1. upload' = upload /\ upload.status = "inside" /\ ParseStep
    BY <1>3 DEF ParseInside
  <2>2. InBrackets(parser)' /\ parser'.input = parser.input /\ (Tame(parser) => Tame(parser)')
    BY <2>1, StepKeepsBrackets DEF IInv
  <2>3. upload.format = "strict" => InStrict(parser)'
    BY <2>1, StepKeepsStrict DEF IInv
  <2>4. Honest' = Honest /\ AtTop(upload.pos)' = AtTop(upload.pos)
    BY <2>1 DEF Honest, AtTop
  <2> QED BY <2>1, <2>2, <2>3, <2>4 DEF IInv
<1>4. CASE TakeOver
  <2>1. upload.status = "inside" /\ parser.status = "done" /\ (Honest => Balanced(parser.input))
    BY <1>4 DEF TakeOver, IInv, InBrackets
  <2>2. /\ DOMAIN upload' = UploadFields /\ upload'.text = upload.text /\ upload'.format = upload.format
        /\ upload'.pos = upload.pos
        /\ upload'.status = IF upload.format = "trig" THEN "open" ELSE "done"
    BY <1>1, <1>4 DEF TakeOver, UploadFields
  <2>3. upload.format = "strict" => Sheltered(parser.input, Len(parser.input) + 1)
    BY <2>1 DEF IInv, InStrict
  <2>4. CASE upload.format = "trig"
    <3>1. AtTop(upload.pos)
      BY <2>1, <2>4 DEF IInv, AtTop
    <3>2. AtTop(upload.pos)'
      BY <2>2, <3>1 DEF AtTop, Honest
    <3> QED BY <1>1, <2>1, <2>2, <2>4, <3>2 DEF IInv
  <2>5. CASE upload.format # "trig"
    <3>1. upload.format \in {"turtle", "strict"} /\ parser.input = upload.text
      BY <1>1, <2>1, <2>5 DEF IInv, Format
    <3> QED BY <1>1, <2>1, <2>2, <2>3, <3>1, SameUpload DEF IInv
  <2> QED BY <2>4, <2>5
<1>5. CASE PassError
  BY <1>5, GivenUp DEF PassError
<1>6. CASE ReturnQuads
  <2>1. upload.status = "open" /\ upload.format = "trig" /\ upload' = [upload EXCEPT !.status = "done"]
    BY <1>6 DEF ReturnQuads, Outside
  <2>2. Honest => Balanced(upload.text)
    BY <1>1, <1>6, <2>1, OpenText, ClearAtEnd DEF AtTop, ReturnQuads, NextToken, Token
  <2>3. Honest' <=> Honest
    BY <1>1, <2>1, SameUpload DEF UploadFields
  <2> QED BY <1>1, <2>1, <2>2, <2>3 DEF IInv, UploadFields
<1> QED BY <1>2, <1>3, <1>4, <1>5, <1>6

-----------------------------------------------------------------------------
(* The invariant holds of any upload.                                      *)
LEMMA InitIInv ==
  ASSUME Init
  PROVE  IInv
<1>1. PICK text \in Text, format \in Format : upload = Uploaded(text, format)
  BY DEF Init
<1>2. ProperText(text)
  <2>1. IsSequence(text) /\ \A i \in DOMAIN text : text[i].t # "end"
    BY TextAssumption DEF IsSequence
  <2>2. DOMAIN text = 1 .. Len(text)
    <3> DEFINE S == {text[k] : k \in DOMAIN text}
    <3>1. text \in Seq(S)
      BY <2>1 DEF IsSequence
    <3> HIDE DEF S
    <3> QED BY <3>1
  <2> QED BY <2>1, <2>2 DEF ProperText
<1>3. /\ DOMAIN upload = UploadFields /\ upload.text = text /\ upload.format = format
      /\ upload.pos = 1 /\ upload.status = "open"
  BY <1>1 DEF Uploaded, UploadFields
<1>4. AtTop(1)
  BY <1>2, <1>3, ClearAtStart DEF AtTop, Clear
<1>5. Unabridged(text, 1)
  <2>1. \A k \in 1 .. 1 - 1 : FALSE
    OBVIOUS
  <2> QED BY <2>1 DEF Unabridged
<1> QED BY <1>2, <1>3, <1>4, <1>5 DEF IInv

(* Every step of every parser keeps the invariant.                         *)
LEMMA NextIInv ==
  ASSUME IInv, [ReadingNext]_vars
  PROVE  IInv'
<1>1. CASE UNCHANGED vars
  BY <1>1 DEF vars, IInv, InBrackets, InStrict, Honest, AtTop, Tame
<1>2. CASE Next
  BY <1>2, DirectivesKept, BlocksKept, StatementDelegated, ParsersKept
     DEF Next, ParseDefaultGraphTripleBlock
<1>3. CASE ParseQuad \/ ReturnNQuads
  BY <1>3, QuadsKept
<1> QED BY <1>1, <1>2, <1>3 DEF ReadingNext

(* At every moment of reading an upload in any of the formats the brackets *)
(* that are open are those of the calls under way, and outside the calls   *)
(* there is none, if no directive and no name of a graph swallows one; and *)
(* the strict parsers have gone over no shorthand outside brackets.        *)
THEOREM Invariance == ReadingSpec => []IInv
<1>1. Init => IInv
  BY InitIInv
<1>2. IInv /\ [ReadingNext]_vars => IInv'
  BY NextIInv
<1> QED BY <1>1, <1>2, PTL DEF ReadingSpec

(* Turtle, N-Triples, TriG and N-Quads are accepted only if the brackets   *)
(* of the whole text match, though parseTriplesBlock counts braces and     *)
(* findTripleBlockEnd skips to what looks like the end of an IRI or an     *)
(* annotation.  Only a bracket in the name of a prefix, or one with a <    *)
(* where TriG reads the IRI of a directive or of a graph, may stay open.   *)
THEOREM AcceptedAlwaysBalanced == ReadingSpec => []AcceptedIsBalanced
<1>1. IInv => AcceptedIsBalanced
  BY DEF IInv, AcceptedIsBalanced, Honest
<1> QED BY <1>1, Invariance, PTL

(* Whatever the text: NQuadsParser accepts no shorthand of Turtle, and the *)
(* parser of NewNTriplesParser none outside the brackets that it reads as  *)
(* Turtle does.                                                            *)
THEOREM StrictAlwaysRefuses == ReadingSpec => []StrictRefusesShorthand
<1>1. IInv => StrictRefusesShorthand
  <2> SUFFICES ASSUME IInv, upload.status = "done", upload.format \in {"strict", "nquads"},
                      NEW i \in 1 .. Len(upload.text), TypeAt(upload.text, i) \in Shorthand
               PROVE  upload.format = "strict" /\ Within(upload.text, i, {"[", "(", "<<("})
    BY DEF StrictRefusesShorthand
  <2> DEFINE n == Len(upload.text)
  <2>1. n \in Nat
    BY TypesOfText DEF IInv
  <2>2. i \in 1 .. (n + 1) - 1
    <3> HIDE DEF n
    <3>1. i \in 1 .. n
      BY DEF n
    <3> QED BY <2>1, <3>1
  <2>3. CASE upload.format = "nquads"
    BY <2>2, <2>3 DEF IInv, Unabridged
  <2>4. CASE upload.format = "strict"
    BY <2>2, <2>4 DEF IInv, Sheltered, Shelter
  <2> QED BY <2>3, <2>4
<1> QED BY <1>1, Invariance, PTL

-----------------------------------------------------------------------------
(* Labels that the parsers make up.                                        *)

(* The labels of a text are its author's: none looks like _:anon1.         *)
OwnLabels(text) ==
  \A i \in 1 .. Len(text) : text[i].t = "label" => text[i].label \notin Nat

(* The terms that a set has to have the parts of one term, and a label     *)
(* that was made up is one of the first n.                                 *)
Numbered(n, terms, x) ==
  /\ x.kind = "blank" /\ x.label \in Nat => x.label \in 1 .. n
  /\ x.kind \in {"triple", "quoted"} => x.s \in terms /\ x.p \in terms /\ x.o \in terms
  /\ x.kind = "reified" => x.id \in terms

NumberedTo(n, terms) == \A x \in terms : Numbered(n, terms, x)

(* The terms every parser has.                                             *)
Vocabulary == {None, RDF("type"), RDF("first"), RDF("rest"), RDF("nil"), RDF("reifies")}

TriplesOver(triples, terms) == \A t \in triples : t.s \in terms /\ t.p \in terms /\ t.o \in terms

(* What a call holds; a reifier is there once it was read, and the node of *)
(* a property list from the start.                                         *)
CallOver(f, terms) ==
  /\ f.s \in terms /\ f.p \in terms /\ f.o \in terms
  /\ IsSequence(f.items) /\ \A i \in 1 .. Len(f.items) : f.items[i] \in terms
  /\ f.at = "reified" => f.items # <<>>
  /\ f.in = "anonymous" => f.s # None

(* What the calls under way hold; an annotation is one of a statement or   *)
(* of an annotation.                                                       *)
CallsOver(stack, terms) ==
  /\ \A k \in 1 .. Len(stack) : CallOver(stack[k], terms)
  /\ \A k \in 1 .. Len(stack) - 1 :
       stack[k].in \in {"annotation", "properties"} => stack[k + 1].in \in {"block", "annotation"}

(* A collection that has no item yet has one ahead.                        *)
ItemAhead(q) ==
  q.stack # <<>> /\ Head(q.stack).in = "list" /\ Head(q.stack).items = <<>> /\ q.term = None
    => TypeAt(q.input, q.pos) # ")"

(* A parser that has read these terms and counted its labels.              *)
Counted(q, terms) ==
  /\ q.blankNodeCounter \in Nat /\ NumberedTo(q.blankNodeCounter, terms)
  /\ Vocabulary \subseteq terms
  /\ TriplesOver(q.triples, terms) /\ TriplesOver(q.extraTriples, terms)
  /\ q.term \in terms /\ CallsOver(q.stack, terms) /\ ItemAhead(q)

(* More terms do no harm.                                                  *)
LEMMA MoreTerms ==
  ASSUME NEW T, NEW U, T \subseteq U
  PROVE  /\ \A triples : TriplesOver(triples, T) => TriplesOver(triples, U)
         /\ \A f : CallOver(f, T) => CallOver(f, U)
         /\ \A stack : CallsOver(stack, T) => CallsOver(stack, U)
<1>1. \A triples : TriplesOver(triples, T) => TriplesOver(triples, U)
  BY DEF TriplesOver
<1>2. \A f : CallOver(f, T) => CallOver(f, U)
  BY DEF CallOver
<1>3. \A stack : CallsOver(stack, T) => CallsOver(stack, U)
  BY <1>2 DEF CallsOver
<1> QED BY <1>1, <1>2, <1>3

(* New terms beside those there are, with more labels made up.             *)
LEMMA MoreNumbered ==
  ASSUME NEW T, NEW n \in Nat, NumberedTo(n, T), NEW m \in Nat, n <= m,
         NEW New, \A x \in New : Numbered(m, T \cup New, x)
  PROVE  NumberedTo(m, T \cup New)
<1>1. ASSUME NEW x \in T PROVE Numbered(m, T \cup New, x)
  <2>1. Numbered(n, T, x)
    BY DEF NumberedTo
  <2>2. \A l \in 1 .. n : l \in 1 .. m
    OBVIOUS
  <2> QED BY <2>1, <2>2 DEF Numbered
<1> QED BY <1>1 DEF NumberedTo

(* The innermost call.                                                     *)
LEMMA TopOver ==
  ASSUME NEW T, NEW stack, Framed(stack), stack # <<>>, CallsOver(stack, T)
  PROVE  CallOver(Head(stack), T)
<1>1. Len(stack) \in Nat \ {0} /\ Head(stack) = stack[1]
  BY TailSequence DEF Framed
<1>2. 1 \in 1 .. Len(stack)
  BY <1>1
<1> QED BY <1>1, <1>2 DEF CallsOver

(* The innermost call in another state.                                    *)
LEMMA RetopOver ==
  ASSUME NEW T, NEW stack, Framed(stack), stack # <<>>, CallsOver(stack, T),
         NEW f, DOMAIN f = FrameFields, f.in = Head(stack).in, CallOver(f, T)
  PROVE  CallsOver(<<f>> \o Tail(stack), T)
<1> DEFINE t == <<f>> \o Tail(stack)
<1>1. /\ Len(t) = Len(stack) /\ t[1] = f /\ Len(stack) \in Nat /\ Head(stack) = stack[1]
      /\ \A k \in 2 .. Len(stack) : t[k] = stack[k]
  BY RetopFrame, TailSequence DEF Framed
<1> HIDE DEF t
<1>2. \A k \in 1 .. Len(stack) : k = 1 \/ k \in 2 .. Len(stack)
  BY <1>1
<1>3. \A k \in 1 .. Len(stack) - 1 : k \in 1 .. Len(stack) /\ k + 1 \in 2 .. Len(stack)
  BY <1>1
<1>4. \A k \in 1 .. Len(stack) : CallOver(t[k], T) /\ t[k].in = stack[k].in
  BY <1>1, <1>2 DEF CallsOver
<1>5. \A k \in 1 .. Len(t) - 1 :
        t[k].in \in {"annotation", "properties"} => t[k + 1].in \in {"block", "annotation"}
  BY <1>1, <1>3, <1>4 DEF CallsOver
<1> QED BY <1>1, <1>4, <1>5 DEF CallsOver, t

(* A call of another function.                                             *)
LEMMA PushOver ==
  ASSUME NEW T, NEW stack, Framed(stack), stack # <<>>, CallsOver(stack, T), NEW f, CallOver(f, T),
         f.in \in {"annotation", "properties"} => Head(stack).in \in {"block", "annotation"}
  PROVE  CallsOver(<<f>> \o stack, T)
<1> DEFINE t == <<f>> \o stack
<1>1. /\ Len(stack) \in Nat /\ Len(t) = Len(stack) + 1 /\ t[1] = f
      /\ \A k \in 1 .. Len(stack) : t[k + 1] = stack[k]
  BY ConsSequence DEF Framed
<1>2. Head(stack) = stack[1] /\ Len(stack) # 0
  BY TailSequence DEF Framed
<1> HIDE DEF t
<1>3. ASSUME NEW k \in 1 .. Len(t)
      PROVE  /\ CallOver(t[k], T)
             /\ k < Len(t) /\ t[k].in \in {"annotation", "properties"} => t[k + 1].in \in {"block", "annotation"}
  <2>1. CASE k = 1
    <3>1. 1 \in 1 .. Len(stack)
      BY <1>1, <1>2
    <3> QED BY <1>1, <1>2, <2>1, <3>1
  <2>2. CASE k # 1
    <3>1. k - 1 \in 1 .. Len(stack) /\ (k - 1) + 1 = k
      BY <1>1, <2>2
    <3>2. k < Len(t) => k - 1 \in 1 .. Len(stack) - 1 /\ k \in 1 .. Len(stack)
      BY <1>1, <2>2
    <3> QED BY <1>1, <3>1, <3>2 DEF CallsOver
  <2> QED BY <2>1, <2>2
<1>4. \A k \in 1 .. Len(t) - 1 : k \in 1 .. Len(t) /\ k < Len(t)
  BY <1>1
<1> QED BY <1>3, <1>4 DEF CallsOver, t

(* A call returns.                                                         *)
LEMMA PopOver ==
  ASSUME NEW T, NEW stack, Framed(stack), stack # <<>>, CallsOver(stack, T)
  PROVE  /\ CallsOver(Tail(stack), T)
         /\ Head(stack).in \in {"annotation", "properties"} /\ Tail(stack) # <<>> =>
              Head(Tail(stack)).in \in {"block", "annotation"}
<1> DEFINE t == Tail(stack)
<1>1. /\ IsSequence(t) /\ Len(stack) \in Nat \ {0} /\ Len(t) = Len(stack) - 1 /\ Head(stack) = stack[1]
      /\ \A k \in 1 .. Len(stack) - 1 : t[k] = stack[k + 1]
  BY TailSequence DEF Framed
<1>2. t # <<>> => Head(t) = t[1] /\ Len(t) # 0
  BY <1>1, TailSequence
<1> HIDE DEF t
<1>3. \A k \in 1 .. Len(t) : k \in 1 .. Len(stack) - 1 /\ k + 1 \in 1 .. Len(stack)
  BY <1>1
<1>4. \A k \in 1 .. Len(t) - 1 : k \in 1 .. Len(stack) - 1 /\ k + 1 \in 1 .. Len(stack) - 1
  BY <1>1
<1>5. CallsOver(t, T)
  BY <1>1, <1>3, <1>4 DEF CallsOver
<1>6. ASSUME Head(stack).in \in {"annotation", "properties"}, t # <<>>
      PROVE  Head(t).in \in {"block", "annotation"}
  <2>1. 1 \in 1 .. Len(stack) - 1
    BY <1>1, <1>2, <1>6
  <2> QED BY <1>1, <1>2, <1>6, <2>1 DEF CallsOver
<1> QED BY <1>5, <1>6 DEF t

(* A step that reads more terms and perhaps makes up labels.               *)
Advances(T) ==
  \E U : T \subseteq U /\ Counted(parser', U) /\ parser.blankNodeCounter <= parser'.blankNodeCounter

(* What a step has to show of its new terms and labels.                    *)
LEMMA Advance ==
  ASSUME NEW T, Counted(parser, T), NEW New, NEW m \in Nat, parser.blankNodeCounter <= m,
         \A x \in New : Numbered(m, T \cup New, x), parser'.blankNodeCounter = m,
         TriplesOver(parser'.triples, T \cup New), TriplesOver(parser'.extraTriples, T \cup New),
         parser'.term \in T \cup New, CallsOver(parser'.stack, T \cup New), ItemAhead(parser')
  PROVE  Advances(T)
<1>1. NumberedTo(m, T \cup New)
  BY MoreNumbered DEF Counted
<1>2. Counted(parser', T \cup New)
  BY <1>1 DEF Counted
<1> QED BY <1>2 DEF Advances

(* What there was before the step is there after it.                       *)
LEMMA StillOver ==
  ASSUME NEW T, Counted(parser, T), NEW New
  PROVE  /\ TriplesOver(parser.triples, T \cup New) /\ TriplesOver(parser.extraTriples, T \cup New)
         /\ parser.term \in T \cup New /\ CallsOver(parser.stack, T \cup New)
         /\ Vocabulary \subseteq T \cup New
         /\ InBrackets(parser) /\ parser.status = "reading" /\ parser.stack # <<>> =>
              /\ CallOver(Top, T \cup New) /\ CallsOver(Callers, T \cup New)
              /\ Framed(parser.stack) /\ DOMAIN Top = FrameFields
              /\ Top.in \in {"annotation", "properties"} /\ Callers # <<>> =>
                   Head(Callers).in \in {"block", "annotation"}
<1>1. /\ TriplesOver(parser.triples, T \cup New) /\ TriplesOver(parser.extraTriples, T \cup New)
      /\ CallsOver(parser.stack, T \cup New)
  BY MoreTerms DEF Counted
<1>2. ASSUME InBrackets(parser), parser.status = "reading", parser.stack # <<>>
      PROVE  /\ CallOver(Top, T \cup New) /\ CallsOver(Callers, T \cup New)
             /\ Framed(parser.stack) /\ DOMAIN Top = FrameFields
             /\ Top.in \in {"annotation", "properties"} /\ Callers # <<>> =>
                  Head(Callers).in \in {"block", "annotation"}
  <2>1. Framed(parser.stack)
    BY <1>2 DEF InBrackets
  <2>2. CallOver(Head(parser.stack), T \cup New)
    BY <1>1, <1>2, <2>1, TopOver
  <2>3. /\ CallsOver(Tail(parser.stack), T \cup New)
        /\ Head(parser.stack).in \in {"annotation", "properties"} /\ Tail(parser.stack) # <<>> =>
             Head(Tail(parser.stack)).in \in {"block", "annotation"}
    BY <1>1, <1>2, <2>1, PopOver
  <2> QED BY <1>2, <2>1, <2>2, <2>3, TopOfCalls DEF Top, Callers
<1> QED BY <1>1, <1>2 DEF Counted

(* A call that has just begun.                                             *)
LEMMA NewCall ==
  ASSUME NEW U, None \in U, NEW in, NEW at, at # "reified", NEW s \in U,
         in = "anonymous" => s # None
  PROVE  CallOver(Frame(in, at, s), U)
<1>1. IsSequence(<<>>) /\ Len(<<>>) = 0
  BY NoFrame DEF Framed
<1>2. \A i \in 1 .. 0 : FALSE
  OBVIOUS
<1> DEFINE f == Frame(in, at, s)
<1>3. f.in = in /\ f.at = at /\ f.s = s /\ f.p = None /\ f.o = None /\ f.items = <<>>
  BY DEF Frame
<1> HIDE DEF f
<1> QED BY <1>1, <1>2, <1>3 DEF CallOver, f

(* A call that has read a part of a triple.                                *)
LEMMA CallGoesOn ==
  ASSUME NEW U, NEW f, CallOver(f, U), DOMAIN f = FrameFields, NEW at, at # "reified", NEW x \in U
  PROVE  /\ CallOver([f EXCEPT !.at = at], U)
         /\ CallOver([f EXCEPT !.at = at, !.p = x], U)
         /\ CallOver([f EXCEPT !.at = at, !.o = x], U)
         /\ f.in # "anonymous" => CallOver([f EXCEPT !.at = at, !.s = x], U)
BY DEF CallOver, FrameFields

(* A refused text adds nothing.                                            *)
LEMMA FailAdvances ==
  ASSUME NEW T, Counted(parser, T), DOMAIN parser = ParserFields, Fail
  PROVE  Advances(T)
<1>1. Counted(parser', T) /\ parser'.blankNodeCounter = parser.blankNodeCounter
  BY DEF Fail, Counted, ItemAhead, ParserFields
<1>2. parser.blankNodeCounter <= parser'.blankNodeCounter
  BY <1>1 DEF Counted
<1> QED BY <1>1, <1>2 DEF Advances

(* Directives, and the beginning and the end of statements.                *)
LEMMA BetweenAdvances ==
  ASSUME NEW T, Counted(parser, T), InBrackets(parser), parser.status = "reading",
         ReadDirective \/ BeginTripleBlock \/ ReturnTriples
  PROVE  Advances(T)
<1>1. DOMAIN parser = ParserFields /\ parser.stack = <<>>
  BY DEF InBrackets, ReadDirective, BeginTripleBlock, ReturnTriples, ParseVersion, ParsePrefix,
         ParseBase, BetweenStatements
<1>2. \/ Fail
      \/ /\ parser'.blankNodeCounter = parser.blankNodeCounter /\ parser'.triples = parser.triples
         /\ parser'.extraTriples = parser.extraTriples /\ parser'.term = parser.term
         /\ parser'.stack \in {<<>>, <<Frame("block", "subject", None)>>}
  BY <1>1 DEF ReadDirective, BeginTripleBlock, ReturnTriples, ParseVersion, ParsePrefix,
         ParseBase, ParserFields
<1>3. CASE Fail
  BY <1>1, <1>3, FailAdvances
<1>4. CASE ~Fail
  <2> DEFINE f == Frame("block", "subject", None)
  <2>1. None \in T
    BY DEF Counted, Vocabulary
  <2>2. CallOver(f, T) /\ DOMAIN f = FrameFields /\ f.in = "block"
    BY <2>1, NewCall, NewFrame
  <2> HIDE DEF f
  <2>3. Len(<<>>) = 0 /\ Len(<<f>>) = 1 /\ <<f>>[1] = f /\ Head(<<f>>) = f
    BY <2>2, BlockFrame
  <2>4. CallsOver(<<>>, T) /\ CallsOver(<<f>>, T)
    <3>1. (\A k \in 1 .. 0 : FALSE) /\ (\A k \in 1 .. 1 : k = 1) /\ (\A k \in 1 .. 0 - 1 : FALSE)
          /\ (\A k \in 1 .. 1 - 1 : FALSE)
      OBVIOUS
    <3> QED BY <2>2, <2>3, <3>1 DEF CallsOver
  <2>5. CallsOver(parser'.stack, T) /\ ItemAhead(parser')
    BY <1>2, <1>4, <2>2, <2>3, <2>4 DEF ItemAhead, f
  <2>6. Counted(parser', T)
    BY <1>2, <1>4, <2>5 DEF Counted
  <2>7. parser.blankNodeCounter <= parser'.blankNodeCounter
    BY <1>2, <1>4 DEF Counted
  <2> QED BY <2>6, <2>7 DEF Advances
<1> QED BY <1>3, <1>4

(* A term of one token has no label that was made up.                      *)
LEMMA SimpleNumbered ==
  ASSUME NEW q, OwnLabels(q.input), NEW n, NEW U
  PROVE  Numbered(n, U, SimpleTerm(q))
<1> DEFINE x == SimpleTerm(q)
           type == TypeAt(q.input, q.pos)
<1>1. \/ x.kind \in {"iri", "literal", "decimal", "none"}
      \/ x = Blank(q.input[q.pos].label) /\ type = "label"
  <2>1. CASE type \in {"iri", "relative"}
    <3>1. x = IRIAt(q, q.pos)
      BY <2>1 DEF SimpleTerm
    <3>2. IRIAt(q, q.pos) = None \/ \E ns, local : IRIAt(q, q.pos) = Named(ns, local)
      <4>1. CASE type = "iri"
        BY <4>1 DEF IRIAt
      <4> DEFINE resolved == ~q.strictNTriples /\ (q.base # NoBase \/ q.input[q.pos].local \in Bare)
      <4>2. CASE type # "iri" /\ type = "relative" /\ resolved
        BY <4>2, Zenon DEF IRIAt
      <4>3. CASE type # "iri" /\ ~(type = "relative" /\ resolved)
        BY <4>3, Zenon DEF IRIAt
      <4> QED BY <4>1, <4>2, <4>3
    <3>3. None.kind = "none" /\ \A ns, local : Named(ns, local).kind = "iri"
      BY DEF Named, None
    <3> HIDE DEF x
    <3> QED BY <3>1, <3>2, <3>3
  <2>2. CASE type = "name"
    <3>1. x = ParsePrefixedName(q)
      BY <2>2 DEF SimpleTerm
    <3> QED BY <3>1 DEF ParsePrefixedName, Named, None
  <2>3. CASE type = "label"
    BY <2>3 DEF SimpleTerm, ParseBlankNode
  <2>4. CASE type = "string"
    BY <2>4 DEF SimpleTerm, ParseLiteral, Literal
  <2>5. CASE type = "boolean" /\ ~q.strictNTriples
    BY <2>5 DEF SimpleTerm, ParseLiteral, Literal
  <2>6. CASE type = "number" /\ ~q.strictNTriples
    <3>1. x = ParseNumber(q)
      BY <2>6 DEF SimpleTerm
    <3> QED BY <3>1 DEF ParseNumber, Literal, Decimal
  <2>7. CASE type = "a" /\ ~q.strictNTriples
    BY <2>7 DEF SimpleTerm, RDF, Named
  <2>8. CASE ~(\/ type \in {"iri", "relative", "name", "label", "string"}
               \/ type \in {"boolean", "number", "a"} /\ ~q.strictNTriples)
    <3>1. x = None
      BY <2>8, Zenon DEF SimpleTerm
    <3> QED BY <3>1 DEF None
  <2> QED BY <2>1, <2>2, <2>3, <2>4, <2>5, <2>6, <2>7, <2>8
<1>2. CASE x.kind \in {"iri", "literal", "decimal", "none"}
  <2> HIDE DEF x
  <2> QED BY <1>2 DEF Numbered, x
<1>3. CASE x = Blank(q.input[q.pos].label) /\ type = "label"
  <2>1. q.input[q.pos].label \notin Nat
    BY <1>3 DEF OwnLabels, TypeAt
  <2>2. x.kind = "blank" /\ x.label \notin Nat
    BY <1>3, <2>1 DEF Blank
  <2> HIDE DEF x
  <2> QED BY <2>2 DEF Numbered, x
<1> QED BY <1>1, <1>2, <1>3

(* A node that is made up, and the terms made of others.                   *)
LEMMA NewTerms ==
  ASSUME NEW n \in Nat, NEW U
  PROVE  /\ \A l \in 1 .. n : Numbered(n, U, Blank(l))
         /\ \A s \in U, p \in U, o \in U : /\ Numbered(n, U, TripleTerm(s, p, o))
                                           /\ Numbered(n, U, QuotedTriple(s, p, o))
         /\ \A x \in U : Numbered(n, U, ReifiedTriple(x))
         /\ \A l : Blank(l) # None
         /\ \A s, p, o : TripleTerm(s, p, o) # None /\ QuotedTriple(s, p, o) # None
         /\ \A x : ReifiedTriple(x) # None
         /\ Numbered(n, U, None) /\ \A local : Numbered(n, U, RDF(local)) /\ RDF(local) # None
<1>1. \A l \in 1 .. n : Numbered(n, U, Blank(l))
  BY DEF Numbered, Blank
<1>2. \A s \in U, p \in U, o \in U : Numbered(n, U, TripleTerm(s, p, o)) /\ Numbered(n, U, QuotedTriple(s, p, o))
  BY DEF Numbered, TripleTerm, QuotedTriple
<1>3. \A x \in U : Numbered(n, U, ReifiedTriple(x))
  BY DEF Numbered, ReifiedTriple
<1>4. /\ \A l : Blank(l).kind = "blank"
      /\ \A s, p, o : TripleTerm(s, p, o).kind = "triple" /\ QuotedTriple(s, p, o).kind = "quoted"
      /\ \A x : ReifiedTriple(x).kind = "reified"
      /\ None.kind = "none" /\ \A local : RDF(local).kind = "iri"
  BY DEF Blank, TripleTerm, QuotedTriple, ReifiedTriple, None, RDF, Named
<1>5. Numbered(n, U, None) /\ \A local : Numbered(n, U, RDF(local))
  BY <1>4 DEF Numbered
<1> QED BY <1>1, <1>2, <1>3, <1>4, <1>5

(* rdf:reifies between a node and a triple term.                           *)
LEMMA ReifiesOver ==
  ASSUME NEW U, Vocabulary \subseteq U, NEW id \in U, NEW s, NEW p, NEW o, TripleTerm(s, p, o) \in U
  PROVE  TriplesOver({Reifies(id, s, p, o)}, U)
<1>1. RDF("reifies") \in U
  BY DEF Vocabulary
<1> QED BY <1>1 DEF TriplesOver, Reifies, Triple

(* What a subject or an object stands for, the label made up for it, and   *)
(* the triple that says what it reifies.                                   *)
LEMMA Denotes ==
  ASSUME NEW T, Counted(parser, T), NEW term \in T
  PROVE  \E New : /\ CounterAfter(term) \in Nat /\ parser.blankNodeCounter <= CounterAfter(term)
                  /\ \A x \in New : Numbered(CounterAfter(term), T \cup New, x)
                  /\ Denoted(term) \in T \cup New
                  /\ TriplesOver(Reification(term), T \cup New)
<1> DEFINE c == parser.blankNodeCounter
<1>1. c \in Nat /\ Numbered(c, T, term) /\ Vocabulary \subseteq T
  BY DEF Counted, NumberedTo
<1>2. CASE term.kind = "quoted"
  <2> DEFINE t == TripleTerm(term.s, term.p, term.o)
             New == {Blank(c + 1), t}
  <2>1. CounterAfter(term) = c + 1 /\ c + 1 \in Nat /\ c <= c + 1 /\ c + 1 \in 1 .. c + 1
    BY <1>1, <1>2 DEF CounterAfter
  <2>2. Denoted(term) = Blank(c + 1) /\ Reification(term) = {Reifies(Blank(c + 1), term.s, term.p, term.o)}
    BY <1>2 DEF Denoted, Reification
  <2>3. term.s \in T /\ term.p \in T /\ term.o \in T
    BY <1>1, <1>2 DEF Numbered
  <2> DEFINE U == T \cup New
  <2>4. Numbered(c + 1, U, Blank(c + 1)) /\ Numbered(c + 1, U, t)
    <3> HIDE DEF c, U
    <3>1. term.s \in U /\ term.p \in U /\ term.o \in U
      BY <2>3 DEF U
    <3> QED BY <2>1, <3>1, NewTerms
  <2>5. TriplesOver({Reifies(Blank(c + 1), term.s, term.p, term.o)}, U)
    <3>1. Vocabulary \subseteq U /\ Blank(c + 1) \in U /\ t \in U
      BY <1>1
    <3> HIDE DEF c, U
    <3> QED BY <3>1, ReifiesOver
  <2> HIDE DEF c, t
  <2> QED BY <2>1, <2>2, <2>4, <2>5 DEF c
<1>3. CASE term.kind # "quoted"
  <2>1. CounterAfter(term) = c /\ c <= c /\ Reification(term) = {}
    BY <1>1, <1>3 DEF CounterAfter, Reification
  <2>2. Denoted(term) \in T
    <3>1. CASE term.kind = "reified"
      BY <1>1, <1>3, <3>1 DEF Denoted, Numbered
    <3>2. CASE term.kind # "reified"
      BY <1>3, <3>2 DEF Denoted
    <3> QED BY <3>1, <3>2
  <2>3. TriplesOver({}, T \cup {}) /\ \A x \in {} : Numbered(c, T \cup {}, x)
    BY DEF TriplesOver
  <2> QED BY <1>1, <2>1, <2>2, <2>3
<1> QED BY <1>2, <1>3

(* A call takes the term it asked for, and its state changes.              *)
LEMMA RetopAdvances ==
  ASSUME NEW T, Counted(parser, T), InBrackets(parser), parser.status = "reading", parser.stack # <<>>,
         NEW New, NEW m \in Nat, parser.blankNodeCounter <= m,
         \A x \in New : Numbered(m, T \cup New, x), parser'.blankNodeCounter = m,
         TriplesOver(parser'.triples, T \cup New), TriplesOver(parser'.extraTriples, T \cup New),
         parser'.term = None,
         NEW f, parser'.stack = OnTop(f), DOMAIN f = FrameFields, f.in = Top.in, CallOver(f, T \cup New),
         f.in # "list" \/ f.items # <<>>
  PROVE  Advances(T)
<1>1. Framed(parser.stack) /\ CallsOver(parser.stack, T \cup New) /\ None \in T \cup New
  BY StillOver DEF Vocabulary
<1>2. CallsOver(OnTop(f), T \cup New)
  BY <1>1, RetopOver DEF OnTop, Callers, Top
<1>3. Head(OnTop(f)) = f
  BY <1>1, TailSequence, ConsSequence DEF Framed, OnTop, Callers
<1>4. ItemAhead(parser')
  BY <1>3 DEF ItemAhead
<1> QED BY <1>1, <1>2, <1>4, Advance

(* Without new terms.                                                      *)
LEMMA RetopOnly ==
  ASSUME NEW T, Counted(parser, T), InBrackets(parser), parser.status = "reading", parser.stack # <<>>,
         parser'.blankNodeCounter = parser.blankNodeCounter,
         TriplesOver(parser'.triples, T), TriplesOver(parser'.extraTriples, T),
         parser'.term = None,
         NEW f, parser'.stack = OnTop(f), DOMAIN f = FrameFields, f.in = Top.in, CallOver(f, T),
         f.in # "list" \/ f.items # <<>>
  PROVE  Advances(T)
<1>1. T \cup {} = T /\ \A x \in {} : Numbered(parser.blankNodeCounter, T \cup {}, x)
  OBVIOUS
<1>2. parser.blankNodeCounter \in Nat /\ parser.blankNodeCounter <= parser.blankNodeCounter
  BY DEF Counted
<1> QED BY <1>1, <1>2, RetopAdvances

(* Triples that are added to others.                                       *)
LEMMA TriplesTogether ==
  ASSUME NEW U
  PROVE  /\ \A X, Y : TriplesOver(X, U) /\ TriplesOver(Y, U) => TriplesOver(X \cup Y, U)
         /\ \A s \in U, p \in U, o \in U : TriplesOver({Triple(s, p, o)}, U)
         /\ TriplesOver({}, U)
BY DEF TriplesOver, Triple

(* The calls that take a part of a triple, and make no label up.           *)
LEMMA PartAdvances ==
  ASSUME NEW T, Counted(parser, T), InBrackets(parser), parser.status = "reading",
         \/ TakePredicate \/ TakeAnnotationPredicate \/ TakeProperty
         \/ TakeQuotedSubject \/ TakeQuotedPredicate \/ TakeQuotedObject
  PROVE  Advances(T)
<1>1. DOMAIN parser = ParserFields
  BY DEF InBrackets
<1>2. /\ parser.stack # <<>> /\ DOMAIN Top = FrameFields
      /\ Top.in \in {"block", "annotation", "properties", "anonymous", "quoted", "tripleterm"}
  BY TopOfCalls DEF TakePredicate, TakeAnnotationPredicate, TakeProperty, TakeQuotedSubject,
     TakeQuotedPredicate, TakeQuotedObject, TakeQuotedPart, Returned
<1>3. /\ TriplesOver(parser.triples, T) /\ TriplesOver(parser.extraTriples, T) /\ parser.term \in T
      /\ CallOver(Top, T) /\ TriplesOver({}, T)
  <2>1. T \cup {} = T
    OBVIOUS
  <2> QED BY <1>2, <2>1, StillOver, TriplesTogether
<1>4. TriplesOver(parser.triples \cup parser.extraTriples, T)
  BY <1>3, TriplesTogether
<1> DEFINE f == [Top EXCEPT !.at = "object", !.p = parser.term]
           g == [Top EXCEPT !.at = "predicate", !.s = parser.term]
           h == [Top EXCEPT !.at = "close", !.o = parser.term]
<1>5. /\ CallOver(f, T) /\ CallOver(h, T) /\ (Top.in # "anonymous" => CallOver(g, T))
      /\ DOMAIN f = FrameFields /\ DOMAIN g = FrameFields /\ DOMAIN h = FrameFields
      /\ f.in = Top.in /\ g.in = Top.in /\ h.in = Top.in
  BY <1>2, <1>3, CallGoesOn DEF FrameFields
<1>6. \/ Fail
      \/ /\ parser'.blankNodeCounter = parser.blankNodeCounter /\ parser'.term = None
         /\ parser'.triples \in {parser.triples, parser.triples \cup parser.extraTriples}
         /\ parser'.extraTriples \in {parser.extraTriples, {}}
         /\ \/ parser'.stack = OnTop(f)
            \/ parser'.stack = OnTop(g) /\ Top.in # "anonymous"
            \/ parser'.stack = OnTop(h)
  BY <1>1 DEF TakePredicate, TakeAnnotationPredicate, TakeProperty, TakeQuotedSubject,
     TakeQuotedPredicate, TakeQuotedObject, TakeQuotedPart, Returned, ParserFields
<1>7. CASE Fail
  BY <1>1, <1>7, FailAdvances
<1> HIDE DEF f, g, h
<1>8. CASE ~Fail
  <2>1. /\ parser'.blankNodeCounter = parser.blankNodeCounter /\ parser'.term = None
        /\ TriplesOver(parser'.triples, T) /\ TriplesOver(parser'.extraTriples, T)
    BY <1>3, <1>4, <1>6, <1>8
  <2>2. Top.in # "list"
    BY <1>2
  <2>3. CASE parser'.stack = OnTop(f)
    BY <1>2, <1>5, <2>1, <2>2, <2>3, RetopOnly
  <2>4. CASE parser'.stack = OnTop(g) /\ Top.in # "anonymous"
    BY <1>2, <1>5, <2>1, <2>2, <2>4, RetopOnly
  <2>5. CASE parser'.stack = OnTop(h)
    BY <1>2, <1>5, <2>1, <2>2, <2>5, RetopOnly
  <2> QED BY <1>6, <1>8, <2>3, <2>4, <2>5
<1> QED BY <1>7, <1>8

(* The object of a triple.                                                 *)
LEMMA ObjectAdvances ==
  ASSUME NEW T, Counted(parser, T), InBrackets(parser), parser.status = "reading",
         TakeObject \/ TakeAnnotationObject
  PROVE  Advances(T)
<1>1. DOMAIN parser = ParserFields
  BY DEF InBrackets
<1>2. parser.stack # <<>> /\ DOMAIN Top = FrameFields /\ Top.in # "list"
  BY TopOfCalls DEF TakeObject, TakeAnnotationObject, Returned
<1> DEFINE term == parser.term
           object == Denoted(term)
           f == [Top EXCEPT !.at = "tail", !.o = object]
<1>3. PICK New : /\ CounterAfter(term) \in Nat /\ parser.blankNodeCounter <= CounterAfter(term)
                 /\ \A x \in New : Numbered(CounterAfter(term), T \cup New, x)
                 /\ object \in T \cup New
                 /\ TriplesOver(Reification(term), T \cup New)
  BY Denotes DEF Counted
<1> DEFINE U == T \cup New
<1>4. /\ TriplesOver(parser.triples, U) /\ TriplesOver(parser.extraTriples, U) /\ CallOver(Top, U)
  BY <1>2, StillOver
<1>5. CallOver(f, U) /\ DOMAIN f = FrameFields /\ f.in = Top.in
  <2> HIDE DEF object
  <2> QED BY <1>2, <1>3, <1>4, CallGoesOn DEF FrameFields
<1>6. TriplesOver({Triple(Top.s, Top.p, object)}, U)
  <2>1. Top.s \in U /\ Top.p \in U /\ object \in U
    BY <1>3, <1>4 DEF CallOver
  <2> HIDE DEF U, object
  <2> QED BY <2>1, TriplesTogether
<1> DEFINE all == parser.triples \cup parser.extraTriples \cup Reification(term)
                  \cup {Triple(Top.s, Top.p, object)}
<1>7. TriplesOver(all, U) /\ TriplesOver({}, U)
  <2> HIDE DEF U, object
  <2> QED BY <1>3, <1>4, <1>6, TriplesTogether DEF U, object
<1>8. \/ Fail
      \/ /\ parser'.blankNodeCounter = CounterAfter(term) /\ parser'.term = None
         /\ parser'.triples = all /\ parser'.extraTriples = {} /\ parser'.stack = OnTop(f)
  BY <1>1 DEF TakeObject, TakeAnnotationObject, ParserFields
<1>9. CASE Fail
  BY <1>1, <1>9, FailAdvances
<1> HIDE DEF f, all, object, term
<1>10. CASE ~Fail
  BY <1>2, <1>3, <1>5, <1>7, <1>8, <1>10, RetopAdvances
<1> QED BY <1>9, <1>10

(* The subject of a statement.                                             *)
LEMMA SubjectAdvances ==
  ASSUME NEW T, Counted(parser, T), InBrackets(parser), parser.status = "reading", TakeSubject
  PROVE  Advances(T)
<1>1. DOMAIN parser = ParserFields
  BY DEF InBrackets
<1>2. parser.stack # <<>> /\ DOMAIN Top = FrameFields /\ Top.in = "block"
  BY TopOfCalls DEF TakeSubject, Returned
<1> DEFINE term == parser.term
           subject == Denoted(term)
           f == [Top EXCEPT !.at = "predicate", !.s = subject]
<1>3. PICK New : /\ CounterAfter(term) \in Nat /\ parser.blankNodeCounter <= CounterAfter(term)
                 /\ \A x \in New : Numbered(CounterAfter(term), T \cup New, x)
                 /\ subject \in T \cup New
                 /\ TriplesOver(Reification(term), T \cup New)
  BY Denotes DEF Counted
<1> DEFINE U == T \cup New
<1>4. /\ TriplesOver(parser.triples, U) /\ TriplesOver(parser.extraTriples, U) /\ CallOver(Top, U)
      /\ None \in U
  BY <1>2, StillOver DEF Vocabulary
<1>5. CallOver(f, U) /\ DOMAIN f = FrameFields /\ f.in = Top.in
  <2> HIDE DEF subject
  <2> QED BY <1>2, <1>3, <1>4, CallGoesOn DEF FrameFields
<1> DEFINE all == parser.triples \cup parser.extraTriples \cup Reification(term)
<1>6. TriplesOver(all, U) /\ TriplesOver({}, U)
  <2> HIDE DEF U
  <2> QED BY <1>3, <1>4, TriplesTogether DEF U
<1>7. \/ Fail
      \/ /\ parser'.blankNodeCounter = CounterAfter(term) /\ parser'.term = None
         /\ parser'.triples = all /\ parser'.extraTriples = {}
         /\ parser'.stack \in {<<>>, OnTop(f)}
  BY <1>1 DEF TakeSubject, ParserFields
<1>8. CASE Fail
  BY <1>1, <1>8, FailAdvances
<1> HIDE DEF f, all, subject, term
<1>9. CASE ~Fail /\ parser'.stack = OnTop(f)
  BY <1>2, <1>3, <1>5, <1>6, <1>7, <1>9, RetopAdvances
<1>10. CASE ~Fail /\ parser'.stack = <<>>
  <2>1. CallsOver(<<>>, U)
    <3>1. (\A k \in 1 .. 0 : FALSE) /\ (\A k \in 1 .. 0 - 1 : FALSE)
      OBVIOUS
    <3> QED BY <3>1, NoFrame DEF CallsOver
  <2>2. ItemAhead(parser')
    BY <1>10 DEF ItemAhead
  <2> QED BY <1>3, <1>4, <1>6, <1>7, <1>10, <2>1, <2>2, Advance
<1> QED BY <1>7, <1>8, <1>9, <1>10

(* A call of another function.                                             *)
LEMMA PushAdvances ==
  ASSUME NEW T, Counted(parser, T), InBrackets(parser), parser.status = "reading", parser.stack # <<>>,
         NEW New, NEW m \in Nat, parser.blankNodeCounter <= m,
         \A x \in New : Numbered(m, T \cup New, x), parser'.blankNodeCounter = m,
         TriplesOver(parser'.triples, T \cup New), TriplesOver(parser'.extraTriples, T \cup New),
         parser'.term \in T \cup New,
         NEW f, parser'.stack = <<f>> \o parser.stack, CallOver(f, T \cup New),
         f.in \in {"annotation", "properties"} => Top.in \in {"block", "annotation"},
         f.in = "list" => TypeAt(parser'.input, parser'.pos) # ")"
  PROVE  Advances(T)
<1>1. Framed(parser.stack) /\ CallsOver(parser.stack, T \cup New)
  BY StillOver
<1>2. CallsOver(parser'.stack, T \cup New)
  BY <1>1, PushOver DEF Top
<1>3. Head(parser'.stack) = f
  BY <1>1, ConsSequence DEF Framed
<1>4. ItemAhead(parser')
  BY <1>3 DEF ItemAhead
<1> QED BY <1>2, <1>4, Advance

(* A call returns.                                                         *)
LEMMA PopAdvances ==
  ASSUME NEW T, Counted(parser, T), InBrackets(parser), parser.status = "reading", parser.stack # <<>>,
         NEW New, NEW m \in Nat, parser.blankNodeCounter <= m,
         \A x \in New : Numbered(m, T \cup New, x), parser'.blankNodeCounter = m,
         TriplesOver(parser'.triples, T \cup New), TriplesOver(parser'.extraTriples, T \cup New),
         parser'.term \in T \cup New, parser'.stack = Callers,
         parser'.term # None \/ Top.in \in {"annotation", "properties"}
  PROVE  Advances(T)
<1>1. /\ CallsOver(Callers, T \cup New)
      /\ Top.in \in {"annotation", "properties"} /\ Callers # <<>> =>
           Head(Callers).in \in {"block", "annotation"}
  BY StillOver
<1>2. ItemAhead(parser')
  BY <1>1 DEF ItemAhead
<1> QED BY <1>1, <1>2, Advance

(* Without new terms.                                                      *)
LEMMA AdvanceOnly ==
  ASSUME NEW T, Counted(parser, T), parser'.blankNodeCounter = parser.blankNodeCounter,
         TriplesOver(parser'.triples, T), TriplesOver(parser'.extraTriples, T),
         parser'.term \in T, CallsOver(parser'.stack, T), ItemAhead(parser')
  PROVE  Advances(T)
<1>1. Counted(parser', T)
  BY DEF Counted
<1>2. parser.blankNodeCounter <= parser'.blankNodeCounter
  BY DEF Counted
<1> QED BY <1>1, <1>2 DEF Advances

(* A call returns, without new terms.                                     *)
LEMMA PopOnly ==
  ASSUME NEW T, Counted(parser, T), InBrackets(parser), parser.status = "reading", parser.stack # <<>>,
         parser'.blankNodeCounter = parser.blankNodeCounter,
         TriplesOver(parser'.triples, T), TriplesOver(parser'.extraTriples, T),
         parser'.term \in T, parser'.stack = Callers,
         parser'.term # None \/ Top.in \in {"annotation", "properties"}
  PROVE  Advances(T)
<1> DEFINE New == {}
<1>1. T \cup New = T /\ \A x \in New : Numbered(parser.blankNodeCounter, T \cup New, x)
  OBVIOUS
<1>2. parser.blankNodeCounter \in Nat /\ parser.blankNodeCounter <= parser.blankNodeCounter
  BY DEF Counted
<1> HIDE DEF New
<1> QED BY <1>1, <1>2, PopAdvances

(* parseTerm, where it begins.                                             *)
LEMMA TermAdvances ==
  ASSUME NEW T, Counted(parser, T), InBrackets(parser), parser.status = "reading",
         OwnLabels(parser.input), ParseTerm
  PROVE  Advances(T)
<1> DEFINE c == parser.blankNodeCounter
           node == Blank(c + 1)
<1>1. /\ DOMAIN parser = ParserFields /\ parser.stack # <<>> /\ DOMAIN Top = FrameFields /\ parser.term = None
      /\ c \in Nat /\ c + 1 \in Nat /\ c <= c /\ c <= c + 1 /\ c + 1 \in 1 .. c + 1
  BY TopOfCalls DEF InBrackets, Counted, ParseTerm, ParseSimpleTerm, BeginAnonymousBlankNode,
     BeginCollection, BeginQuotedTriple, WantsTerm
<1>2. \A New : /\ TriplesOver(parser.triples, T \cup New) /\ TriplesOver(parser.extraTriples, T \cup New)
               /\ parser.term \in T \cup New /\ CallsOver(parser.stack, T \cup New)
               /\ Vocabulary \subseteq T \cup New
  BY StillOver
<1>3. T \cup {} = T /\ \A x \in {} : Numbered(c, T \cup {}, x)
  OBVIOUS
<1>4. ASSUME ParseSimpleTerm PROVE Advances(T)
  <2>1. CASE Fail
    BY <1>1, <2>1, FailAdvances
  <2>2. CASE ~Fail
    <3> DEFINE x == SimpleTerm(parser)
    <3>1. /\ x # None /\ parser'.term = x /\ parser'.blankNodeCounter = c
          /\ parser'.triples = parser.triples /\ parser'.extraTriples = parser.extraTriples
          /\ parser'.stack = parser.stack
      BY <1>1, <1>4, <2>2 DEF ParseSimpleTerm, ParserFields
    <3>2. \A y \in {x} : Numbered(c, T \cup {x}, y)
      BY SimpleNumbered
    <3> HIDE DEF x
    <3>3. ItemAhead(parser')
      BY <3>1 DEF ItemAhead
    <3>4. /\ TriplesOver(parser'.triples, T \cup {x}) /\ TriplesOver(parser'.extraTriples, T \cup {x})
          /\ CallsOver(parser'.stack, T \cup {x}) /\ parser'.term \in T \cup {x}
      BY <1>2, <3>1
    <3> DEFINE New == {x}
    <3> HIDE DEF c, New
    <3>5. /\ \A y \in New : Numbered(c, T \cup New, y)
          /\ TriplesOver(parser'.triples, T \cup New) /\ TriplesOver(parser'.extraTriples, T \cup New)
          /\ CallsOver(parser'.stack, T \cup New) /\ parser'.term \in T \cup New
      BY <3>2, <3>4 DEF New
    <3>6. c \in Nat /\ parser.blankNodeCounter <= c /\ parser'.blankNodeCounter = c
      BY <1>1, <3>1 DEF c
    <3> QED BY <3>3, <3>5, <3>6, Advance
  <2> QED BY <2>1, <2>2
<1>5. ASSUME BeginAnonymousBlankNode PROVE Advances(T)
  <2> DEFINE f == Frame("anonymous", "predicate", node)
  <2>1. /\ parser'.blankNodeCounter = c + 1
        /\ parser'.triples = parser.triples /\ parser'.extraTriples = parser.extraTriples
        /\ \/ parser'.term = node /\ parser'.stack = parser.stack
           \/ parser'.term = parser.term /\ parser'.stack = <<f>> \o parser.stack
    BY <1>1, <1>5 DEF BeginAnonymousBlankNode, ParserFields
  <2>2. \A y \in {node} : Numbered(c + 1, T \cup {node}, y)
    <3> HIDE DEF c
    <3> QED BY <1>1, NewTerms
  <2>3. node # None /\ node \in T \cup {node} /\ None \in T \cup {node}
    BY <1>2, NewTerms DEF Vocabulary
  <2> HIDE DEF node, c
  <2>4. CallOver(f, T \cup {node}) /\ f.in = "anonymous"
    BY <2>3, NewCall, NewFrame
  <2> HIDE DEF f
  <2>5. CASE parser'.term = node /\ parser'.stack = parser.stack
    <3>1. ItemAhead(parser')
      BY <2>3, <2>5 DEF ItemAhead
    <3>2. /\ TriplesOver(parser'.triples, T \cup {node}) /\ TriplesOver(parser'.extraTriples, T \cup {node})
          /\ CallsOver(parser'.stack, T \cup {node}) /\ parser'.term \in T \cup {node}
      BY <1>2, <2>1, <2>3, <2>5
    <3> DEFINE New == {node}
    <3>3. /\ \A y \in New : Numbered(c + 1, T \cup New, y)
          /\ TriplesOver(parser'.triples, T \cup New) /\ TriplesOver(parser'.extraTriples, T \cup New)
          /\ CallsOver(parser'.stack, T \cup New) /\ parser'.term \in T \cup New
      BY <2>2, <3>2
    <3> HIDE DEF New
    <3>4. c + 1 \in Nat /\ parser.blankNodeCounter <= c + 1 /\ parser'.blankNodeCounter = c + 1
      BY <1>1, <2>1 DEF c
    <3> QED BY <3>1, <3>3, <3>4, Advance
  <2>6. CASE parser'.term = parser.term /\ parser'.stack = <<f>> \o parser.stack
    BY <1>1, <1>2, <2>1, <2>2, <2>4, <2>6, PushAdvances DEF c
  <2> QED BY <2>1, <2>5, <2>6
<1>6. ASSUME BeginCollection PROVE Advances(T)
  <2> DEFINE f == Frame("list", "item", None)
  <2>1. /\ parser'.blankNodeCounter = c
        /\ parser'.triples = parser.triples /\ parser'.extraTriples = parser.extraTriples
        /\ \/ parser'.term = RDF("nil") /\ parser'.stack = parser.stack
           \/ /\ parser'.term = parser.term /\ parser'.stack = <<f>> \o parser.stack
              /\ TypeAt(parser'.input, parser'.pos) # ")"
    <3>1. CASE Ahead(1) = ")"
      BY <1>1, <1>6, <3>1 DEF BeginCollection, ParserFields
    <3>2. CASE Ahead(1) # ")"
      <4>1. /\ parser'.input = parser.input /\ parser'.pos = parser.pos + 1
            /\ parser'.blankNodeCounter = c
            /\ parser'.triples = parser.triples /\ parser'.extraTriples = parser.extraTriples
            /\ parser'.term = parser.term /\ parser'.stack = <<f>> \o parser.stack
        BY <1>1, <1>6, <3>2 DEF BeginCollection, ParserFields
      <4> QED BY <3>2, <4>1 DEF Ahead
    <3> QED BY <3>1, <3>2
  <2>2. None \in T \cup {} /\ RDF("nil") \in T \cup {} /\ RDF("nil") # None
    BY <1>2, <1>1, NewTerms DEF Vocabulary
  <2>3. CallOver(f, T \cup {}) /\ f.in = "list"
    BY <2>2, NewCall, NewFrame
  <2> HIDE DEF f, c
  <2>4. CASE parser'.term = RDF("nil") /\ parser'.stack = parser.stack
    <3>1. ItemAhead(parser')
      BY <2>2, <2>4 DEF ItemAhead
    <3>2. /\ TriplesOver(parser'.triples, T) /\ TriplesOver(parser'.extraTriples, T)
          /\ CallsOver(parser'.stack, T) /\ parser'.term \in T
      BY <1>2, <1>3, <2>1, <2>2, <2>4
    <3> QED BY <2>1, <3>1, <3>2, AdvanceOnly DEF c
  <2>5. CASE /\ parser'.term = parser.term /\ parser'.stack = <<f>> \o parser.stack
             /\ TypeAt(parser'.input, parser'.pos) # ")"
    BY <1>1, <1>2, <1>3, <2>1, <2>3, <2>5, PushAdvances DEF c
  <2> QED BY <2>1, <2>4, <2>5
<1>7. ASSUME BeginQuotedTriple PROVE Advances(T)
  <2> DEFINE in == IF Here = "<<" THEN "quoted" ELSE "tripleterm"
             f == Frame(in, "subject", None)
  <2>1. /\ parser'.blankNodeCounter = c /\ parser'.term = parser.term
        /\ parser'.triples = parser.triples /\ parser'.extraTriples = parser.extraTriples
        /\ parser'.stack = <<f>> \o parser.stack
    BY <1>1, <1>7 DEF BeginQuotedTriple, ParserFields
  <2>2. None \in T \cup {} /\ in \in {"quoted", "tripleterm"}
    BY <1>2 DEF Vocabulary
  <2> HIDE DEF in
  <2>3. CallOver(f, T \cup {}) /\ f.in = in
    BY <2>2, NewCall, NewFrame
  <2> HIDE DEF f, c
  <2> QED BY <1>1, <1>2, <1>3, <2>1, <2>2, <2>3, PushAdvances DEF c
<1> QED BY <1>4, <1>5, <1>6, <1>7 DEF ParseTerm

(* The next object or predicate of the same subject, or the end of the     *)
(* list of them.                                                           *)
LEMMA NextAdvances ==
  ASSUME NEW T, Counted(parser, T), InBrackets(parser), parser.status = "reading",
         NextInBlock \/ NextInAnnotation \/ NextInAnonymous \/ ParseIdentifier
  PROVE  Advances(T)
<1> DEFINE c == parser.blankNodeCounter
           f(at) == [Top EXCEPT !.at = at]
<1>1. /\ DOMAIN parser = ParserFields /\ parser.stack # <<>> /\ DOMAIN Top = FrameFields
      /\ parser.term = None /\ c \in Nat /\ c <= c
      /\ Top.in \in {"block", "annotation", "properties", "anonymous", "quoted"}
  <2>1. /\ parser.stack # <<>> /\ parser.term = None
        /\ Top.in \in {"block", "annotation", "properties", "anonymous", "quoted"}
    BY DEF NextInBlock, NextInAnnotation, NextInAnonymous, ParseIdentifier, Expecting
  <2>2. DOMAIN Top = FrameFields
    BY <2>1, TopOfCalls
  <2>3. DOMAIN parser = ParserFields
    BY DEF InBrackets
  <2>4. c \in Nat /\ c <= c
    BY DEF Counted
  <2> HIDE DEF c
  <2> QED BY <2>1, <2>2, <2>3, <2>4
<1>2. T \cup {} = T /\ \A x \in {} : Numbered(c, T \cup {}, x)
  OBVIOUS
<1>3. /\ TriplesOver(parser.triples, T) /\ TriplesOver(parser.extraTriples, T)
      /\ parser.term \in T /\ CallOver(Top, T)
  BY <1>1, <1>2, StillOver
<1>4. \/ Fail
      \/ /\ parser'.blankNodeCounter = c
         /\ parser'.triples = parser.triples /\ parser'.extraTriples = parser.extraTriples
         /\ \/ /\ parser'.term = None
               /\ \E at \in {"object", "predicate", "identifier"} : parser'.stack = OnTop(f(at))
            \/ parser'.term = None /\ parser'.stack = <<>>
            \/ parser'.term = None /\ parser'.stack = Callers /\ Top.in \in {"annotation", "properties"}
            \/ parser'.term = Top.s /\ parser'.stack = Callers /\ Top.in = "anonymous"
  BY <1>1 DEF NextInBlock, NextInAnnotation, NextInAnonymous, ParseIdentifier, NextObject,
     NextPredicate, Expecting, ParserFields
<1>5. CASE Fail
  BY <1>1, <1>5, FailAdvances
<1>6. ASSUME ~Fail, parser'.term = None, NEW at \in {"object", "predicate", "identifier"},
             parser'.stack = OnTop(f(at))
      PROVE  Advances(T)
  <2>1. CallOver(f(at), T) /\ DOMAIN f(at) = FrameFields /\ f(at).in = Top.in
    BY <1>1, <1>3, CallGoesOn DEF FrameFields
  <2> HIDE DEF f
  <2>2. parser'.stack = OnTop(f(at)) /\ f(at).in # "list"
    BY <1>1, <1>6, <2>1
  <2>3. /\ parser'.blankNodeCounter = c
        /\ TriplesOver(parser'.triples, T) /\ TriplesOver(parser'.extraTriples, T)
    BY <1>3, <1>4, <1>6
  <2> QED BY <1>1, <1>6, <2>1, <2>2, <2>3, RetopOnly
<1>7. CASE ~Fail /\ parser'.term = None /\ parser'.stack = <<>>
  <2>1. CallsOver(<<>>, T)
    <3>1. (\A k \in 1 .. 0 : FALSE) /\ (\A k \in 1 .. 0 - 1 : FALSE)
      OBVIOUS
    <3> QED BY <3>1, NoFrame DEF CallsOver
  <2>2. ItemAhead(parser')
    BY <1>7 DEF ItemAhead
  <2>3. /\ TriplesOver(parser'.triples, T) /\ TriplesOver(parser'.extraTriples, T)
        /\ parser'.term \in T /\ CallsOver(parser'.stack, T)
    BY <1>1, <1>3, <1>4, <1>7, <2>1
  <2> HIDE DEF f
  <2> QED BY <1>4, <1>7, <2>2, <2>3, AdvanceOnly
<1>8. CASE /\ ~Fail /\ parser'.stack = Callers
           /\ \/ parser'.term = None /\ Top.in \in {"annotation", "properties"}
              \/ parser'.term = Top.s /\ Top.in = "anonymous"
  <2>1. parser'.term \in T /\ (parser'.term # None \/ Top.in \in {"annotation", "properties"})
    BY <1>1, <1>3, <1>8 DEF CallOver
  <2>2. TriplesOver(parser'.triples, T) /\ TriplesOver(parser'.extraTriples, T)
    BY <1>3, <1>4, <1>8
  <2> HIDE DEF f
  <2> QED BY <1>1, <1>4, <1>8, <2>1, <2>2, PopOnly
<1> QED BY <1>4, <1>5, <1>6, <1>7, <1>8

(* The parts of the call that is innermost.                                *)
LEMMA PartsOfTop ==
  ASSUME NEW T, Counted(parser, T), InBrackets(parser), parser.status = "reading", parser.stack # <<>>
  PROVE  /\ DOMAIN Top = FrameFields /\ DOMAIN parser = ParserFields
         /\ parser.blankNodeCounter \in Nat /\ parser.blankNodeCounter <= parser.blankNodeCounter
         /\ Top.s \in T /\ Top.p \in T /\ Top.o \in T /\ parser.term \in T /\ CallOver(Top, T)
         /\ TriplesOver(parser.triples, T) /\ TriplesOver(parser.extraTriples, T)
<1>1. T \cup {} = T
  OBVIOUS
<1>2. /\ TriplesOver(parser.triples, T) /\ TriplesOver(parser.extraTriples, T) /\ parser.term \in T
      /\ CallOver(Top, T) /\ DOMAIN Top = FrameFields
  BY <1>1, StillOver
<1>3. Top.s \in T /\ Top.p \in T /\ Top.o \in T
  BY <1>2 DEF CallOver
<1>4. DOMAIN parser = ParserFields
  BY DEF InBrackets
<1>5. parser.blankNodeCounter \in Nat /\ parser.blankNodeCounter <= parser.blankNodeCounter
  BY DEF Counted
<1> QED BY <1>2, <1>3, <1>4, <1>5

(* A statement, or an annotation, with a reifier: a node that was read, or *)
(* one that is made up.                                                    *)
LEMMA Reified ==
  ASSUME NEW T, Counted(parser, T), InBrackets(parser), parser.status = "reading", parser.stack # <<>>,
         NEW m \in Nat, parser.blankNodeCounter <= m,
         NEW id, id \in T \/ (id = Blank(m) /\ m \in 1 .. m)
  PROVE  \E New : /\ \A x \in New : Numbered(m, T \cup New, x)
                  /\ id \in T \cup New /\ None \in T \cup New
                  /\ TriplesOver(parser.triples \cup {Reifies(id, Top.s, Top.p, Top.o)}, T \cup New)
                  /\ TriplesOver(parser.extraTriples \cup {Reifies(id, Top.s, Top.p, Top.o)}, T \cup New)
                  /\ TriplesOver(parser.extraTriples, T \cup New)
                  /\ CallOver(Top, T \cup New)
<1> DEFINE t == TripleTerm(Top.s, Top.p, Top.o)
           New == {x \in {id, t} : x = t \/ id \notin T}
           U == T \cup New
<1>1. /\ TriplesOver(parser.triples, U) /\ TriplesOver(parser.extraTriples, U) /\ CallOver(Top, U)
      /\ Vocabulary \subseteq U
  BY StillOver
<1>2. Top.s \in U /\ Top.p \in U /\ Top.o \in U /\ id \in U /\ t \in U /\ None \in U
  BY PartsOfTop, <1>1 DEF Vocabulary
<1>3. \A x \in New : x = t \/ (x = Blank(m) /\ m \in 1 .. m)
  OBVIOUS
<1> HIDE DEF New, t, U
<1>4. \A x \in New : Numbered(m, U, x)
  BY <1>2, <1>3, NewTerms DEF t
<1>5. TriplesOver({Reifies(id, Top.s, Top.p, Top.o)}, U)
  BY <1>1, <1>2, ReifiesOver DEF t
<1>6. /\ TriplesOver(parser.triples \cup {Reifies(id, Top.s, Top.p, Top.o)}, U)
      /\ TriplesOver(parser.extraTriples \cup {Reifies(id, Top.s, Top.p, Top.o)}, U)
  BY <1>1, <1>5, TriplesTogether
<1> QED BY <1>1, <1>2, <1>4, <1>6 DEF U

(* Reifiers behind an object.                                              *)
LEMMA ReifierAdvances ==
  ASSUME NEW T, Counted(parser, T), InBrackets(parser), parser.status = "reading",
         ParseReifier \/ TakeReifier
  PROVE  Advances(T)
<1> DEFINE c == parser.blankNodeCounter
           f(id) == [Top EXCEPT !.at = "reified", !.items = <<id>>]
           g == [Top EXCEPT !.at = "reifier"]
           all(id) == parser.triples \cup {Reifies(id, Top.s, Top.p, Top.o)}
           By(id, m) == /\ parser'.blankNodeCounter = m /\ parser'.term = None
                        /\ parser'.extraTriples = parser.extraTriples
                        /\ parser'.triples = all(id) /\ parser'.stack = OnTop(f(id))
<1>1. parser.stack # <<>> /\ Top.in = "block"
  BY DEF ParseReifier, TakeReifier, Expecting, Returned
<1>2. /\ DOMAIN Top = FrameFields /\ DOMAIN parser = ParserFields /\ c \in Nat /\ c <= c
      /\ parser.term \in T /\ CallOver(Top, T)
      /\ TriplesOver(parser.triples, T) /\ TriplesOver(parser.extraTriples, T)
  BY <1>1, PartsOfTop
<1>3. c + 1 \in Nat /\ c <= c + 1 /\ c + 1 \in 1 .. c + 1
  <2> HIDE DEF c
  <2> QED BY <1>2
<1>4. \/ Fail
      \/ /\ parser'.blankNodeCounter = c /\ parser'.term = None /\ parser'.extraTriples = parser.extraTriples
         /\ parser'.triples = parser.triples /\ parser'.stack = OnTop(g)
      \/ By(parser.term, c)
      \/ By(Blank(c + 1), c + 1)
  <2>1. CASE ParseReifier
    <3>1. parser.term = None
      BY <2>1 DEF ParseReifier, Expecting
    <3>2. CASE parser.strictNTriples
      BY <2>1, <3>2 DEF ParseReifier
    <3>3. CASE ~parser.strictNTriples /\ Ahead(1) \in {".", "point", ",", ";", "{", "{|", "end"}
      <4> DEFINE id == Blank(c + 1)
      <4>1. parser' = [Reify(id) EXCEPT !.pos = @ + 1, !.blankNodeCounter = @ + 1]
        BY <2>1, <3>3 DEF ParseReifier
      <4> HIDE DEF id
      <4>2. By(id, c + 1)
        BY <1>2, <4>1 DEF Reify, ParserFields
      <4> HIDE DEF By
      <4> QED BY <4>2 DEF id
    <3>4. CASE ~parser.strictNTriples /\ Ahead(1) \notin {".", "point", ",", ";", "{", "{|", "end"}
      <4>1. parser' = [parser EXCEPT !.pos = @ + 1, !.stack = OnTop(g)]
        BY <2>1, <3>4 DEF ParseReifier
      <4> QED BY <1>2, <3>1, <4>1 DEF ParserFields
    <3> QED BY <3>2, <3>3, <3>4
  <2>2. CASE TakeReifier
    <3>1. CASE Fail
      BY <3>1
    <3>2. CASE ~Fail
      <4> DEFINE id == parser.term
      <4>1. parser' = Reify(id)
        BY <2>2, <3>2 DEF TakeReifier
      <4> HIDE DEF id
      <4>2. By(id, c)
        BY <1>2, <4>1 DEF Reify, ParserFields
      <4> HIDE DEF By
      <4> QED BY <4>2 DEF id
    <3> QED BY <3>1, <3>2
  <2> QED BY <2>1, <2>2
<1>5. CASE Fail
  BY <1>2, <1>5, FailAdvances
<1>6. CASE /\ parser'.blankNodeCounter = c /\ parser'.term = None /\ parser'.extraTriples = parser.extraTriples
           /\ parser'.triples = parser.triples /\ parser'.stack = OnTop(g)
  <2>1. CallOver(g, T) /\ DOMAIN g = FrameFields /\ g.in = Top.in /\ g.in # "list"
    BY <1>1, <1>2, CallGoesOn DEF FrameFields
  <2> HIDE DEF g, f, all
  <2> QED BY <1>1, <1>2, <1>6, <2>1, RetopOnly
<1>7. ASSUME NEW id, NEW m \in Nat, parser.blankNodeCounter <= m,
             id \in T \/ (id = Blank(m) /\ m \in 1 .. m), By(id, m)
      PROVE  Advances(T)
  <2>2. PICK New : /\ \A x \in New : Numbered(m, T \cup New, x)
                   /\ id \in T \cup New
                   /\ TriplesOver(all(id), T \cup New)
                   /\ TriplesOver(parser.extraTriples, T \cup New)
                   /\ CallOver(Top, T \cup New)
    BY <1>1, <1>7, Reified
  <2>3. CallOver(f(id), T \cup New) /\ DOMAIN f(id) = FrameFields /\ f(id).in = Top.in /\ f(id).in # "list"
    <3>1. /\ f(id).s = Top.s /\ f(id).p = Top.p /\ f(id).o = Top.o /\ f(id).in = Top.in
          /\ f(id).items = <<id>> /\ DOMAIN f(id) = FrameFields
      BY <1>2 DEF FrameFields
    <3>2. IsSequence(<<id>>) /\ <<id>> # <<>> /\ \A i \in 1 .. Len(<<id>>) : <<id>>[i] = id
      <4>1. <<id>> \in Seq({id})
        OBVIOUS
      <4>2. \A i \in 1 .. Len(<<id>>) : <<id>>[i] = id
        OBVIOUS
      <4> QED BY <4>1, <4>2, SequenceIntro
    <3> HIDE DEF f
    <3> QED BY <1>1, <2>2, <3>1, <3>2 DEF CallOver
  <2> HIDE DEF f, all
  <2>4. parser'.stack = OnTop(f(id)) /\ TriplesOver(parser'.triples, T \cup New)
        /\ TriplesOver(parser'.extraTriples, T \cup New)
    BY <1>7, <2>2
  <2> QED BY <1>1, <1>7, <2>2, <2>3, <2>4, RetopAdvances
<1>8. By(parser.term, c) => Advances(T)
  <2> DEFINE id == parser.term
  <2>1. c \in Nat /\ parser.blankNodeCounter <= c /\ id \in T
    BY <1>2
  <2> HIDE DEF c, id
  <2>2. By(id, c) => Advances(T)
    BY <1>7, <2>1
  <2> QED BY <2>2 DEF id
<1>9. By(Blank(c + 1), c + 1) => Advances(T)
  <2> HIDE DEF By
  <2> QED BY <1>3, <1>7
<1> HIDE DEF By
<1> QED BY <1>4, <1>5, <1>6, <1>8, <1>9

(* The annotation behind a reifier.                                        *)
LEMMA ReifierAnnotationAdvances ==
  ASSUME NEW T, Counted(parser, T), InBrackets(parser), parser.status = "reading",
         ParseReifierAnnotation
  PROVE  Advances(T)
<1> DEFINE x == Top.items[1]
           f == Frame("properties", "predicate", x)
<1>1. parser.stack # <<>> /\ Top.in = "block" /\ Top.at = "reified" /\ parser.term = None
  BY DEF ParseReifierAnnotation, Expecting
<1>2. /\ DOMAIN parser = ParserFields /\ parser.term \in T /\ CallOver(Top, T)
      /\ TriplesOver(parser.triples, T) /\ TriplesOver(parser.extraTriples, T)
      /\ CallsOver(parser.stack, T) /\ None \in T /\ parser.blankNodeCounter \in Nat
      /\ parser.blankNodeCounter <= parser.blankNodeCounter
  BY <1>1, PartsOfTop DEF Counted, Vocabulary
<1>3. x \in T
  <2>1. IsSequence(Top.items) /\ Top.items # <<>> /\ \A i \in 1 .. Len(Top.items) : Top.items[i] \in T
    BY <1>1, <1>2 DEF CallOver
  <2>2. Len(Top.items) \in Nat \ {0}
    BY <2>1, TailSequence
  <2>3. 1 \in 1 .. Len(Top.items)
    BY <2>2
  <2> QED BY <2>1, <2>3
<1>4. CallOver(f, T) /\ f.in = "properties"
  <2> HIDE DEF x
  <2> QED BY <1>2, <1>3, NewCall, NewFrame
<1>5. /\ parser'.blankNodeCounter = parser.blankNodeCounter /\ parser'.term = None
      /\ parser'.triples = parser.triples /\ parser'.extraTriples = parser.extraTriples
      /\ parser'.stack = parser.stack \/ parser'.stack = <<f>> \o parser.stack
  BY <1>1, <1>2 DEF ParseReifierAnnotation, ParserFields
<1> HIDE DEF f
<1>6. CASE parser'.stack = parser.stack
  <2>1. ItemAhead(parser')
    BY <1>1, <1>6 DEF ItemAhead, Top
  <2> QED BY <1>2, <1>5, <1>6, <2>1, AdvanceOnly
<1>7. CASE parser'.stack = <<f>> \o parser.stack
  <2> DEFINE New == {}
  <2>1. T \cup New = T /\ \A y \in New : Numbered(parser.blankNodeCounter, T \cup New, y)
    OBVIOUS
  <2> HIDE DEF New
  <2> QED BY <1>1, <1>2, <1>4, <1>5, <1>7, <2>1, PushAdvances
<1> QED BY <1>5, <1>6, <1>7

(* parseAnnotation, where it begins.                                       *)
LEMMA AnnotationAdvances ==
  ASSUME NEW T, Counted(parser, T), InBrackets(parser), parser.status = "reading", BeginAnnotation
  PROVE  Advances(T)
<1> DEFINE c == parser.blankNodeCounter
           id == Blank(c + 1)
           f == Frame("annotation", "predicate", id)
           caller == [Top EXCEPT !.at = IF Top.in = "block" THEN "tail" ELSE "annotated"]
           all == parser.triples \cup {Reifies(id, Top.s, Top.p, Top.o)}
<1>1. parser.stack # <<>> /\ Top.in \in {"block", "annotation"} /\ parser.term = None
  BY DEF BeginAnnotation, Expecting
<1>2. DOMAIN Top = FrameFields /\ DOMAIN parser = ParserFields /\ c \in Nat
  BY <1>1, PartsOfTop
<1>3. c + 1 \in Nat /\ c <= c + 1 /\ c + 1 \in 1 .. c + 1
  <2> HIDE DEF c
  <2> QED BY <1>2
<1>4. \/ Fail
      \/ /\ parser'.blankNodeCounter = c + 1 /\ parser'.term = None
         /\ parser'.extraTriples = parser.extraTriples /\ parser'.triples = all
         /\ parser'.stack = <<f, caller>> \o Callers
  BY <1>1, <1>2 DEF BeginAnnotation, ParserFields
<1>5. PICK New : /\ \A x \in New : Numbered(c + 1, T \cup New, x)
                 /\ id \in T \cup New /\ None \in T \cup New
                 /\ TriplesOver(all, T \cup New)
                 /\ TriplesOver(parser.extraTriples, T \cup New)
                 /\ CallOver(Top, T \cup New)
  BY <1>1, <1>3, Reified
<1>6. CASE Fail
  BY <1>2, <1>6, FailAdvances
<1>7. id # None
  BY NewTerms
<1> HIDE DEF all, id
<1>8. CallOver(f, T \cup New) /\ f.in = "annotation"
  BY <1>5, NewCall, NewFrame
<1>9. CallOver(caller, T \cup New) /\ DOMAIN caller = FrameFields /\ caller.in = Top.in
  <2>1. (IF Top.in = "block" THEN "tail" ELSE "annotated") # "reified"
    OBVIOUS
  <2> QED BY <1>1, <1>2, <1>5, <2>1, CallGoesOn DEF FrameFields
<1> HIDE DEF f, caller
<1>10. CASE ~Fail
  <2>1. Framed(parser.stack) /\ IsSequence(Callers) /\ CallsOver(parser.stack, T \cup New)
    <3>1. Framed(parser.stack) /\ CallsOver(parser.stack, T \cup New)
      BY <1>1, StillOver
    <3> QED BY <1>1, <3>1, TailSequence DEF Framed, Callers
  <2> DEFINE u == <<caller>> \o Callers
  <2>2. parser'.stack = <<f>> \o u
    BY <1>4, <1>10, <2>1, ConsTwice
  <2>3. Framed(u) /\ u # <<>> /\ Head(u) = caller
    <3>1. Framed(u) /\ u # <<>>
      BY <1>1, <1>9, <2>1, RetopFrame DEF Callers, Top
    <3>2. Head(u) = caller
      BY <2>1, ConsSequence
    <3> QED BY <3>1, <3>2
  <2>4. CallsOver(u, T \cup New)
    BY <1>1, <1>9, <2>1, RetopOver DEF Callers, Top
  <2> HIDE DEF u
  <2>5. CallsOver(<<f>> \o u, T \cup New) /\ Head(<<f>> \o u) = f
    <3>1. CallsOver(<<f>> \o u, T \cup New)
      BY <1>1, <1>8, <1>9, <2>3, <2>4, PushOver
    <3>2. Head(<<f>> \o u) = f
      BY <2>3, ConsSequence DEF Framed
    <3> QED BY <3>1, <3>2
  <2>6. ItemAhead(parser')
    BY <1>8, <2>2, <2>5 DEF ItemAhead
  <2>7. /\ TriplesOver(parser'.triples, T \cup New) /\ TriplesOver(parser'.extraTriples, T \cup New)
        /\ parser'.term \in T \cup New /\ CallsOver(parser'.stack, T \cup New)
        /\ parser'.blankNodeCounter = c + 1
    BY <1>4, <1>5, <1>10, <2>2, <2>5
  <2> HIDE DEF c
  <2>8. c + 1 \in Nat /\ parser.blankNodeCounter <= c + 1
    BY <1>3 DEF c
  <2> QED BY <1>5, <2>6, <2>7, <2>8, Advance
<1> QED BY <1>4, <1>6, <1>10

(* The object of a property list, and of an annotation behind a reifier.   *)
LEMMA ValueAdvances ==
  ASSUME NEW T, Counted(parser, T), InBrackets(parser), parser.status = "reading",
         TakeReifierProperty \/ TakeValue
  PROVE  Advances(T)
<1> DEFINE f == [Top EXCEPT !.at = "tail"]
           t == {Triple(Top.s, Top.p, parser.term)}
<1>1. parser.stack # <<>> /\ Top.in \in {"properties", "anonymous"}
  BY DEF TakeReifierProperty, TakeValue, Returned
<1>2. /\ DOMAIN Top = FrameFields /\ DOMAIN parser = ParserFields /\ CallOver(Top, T)
      /\ Top.s \in T /\ Top.p \in T /\ parser.term \in T
      /\ TriplesOver(parser.triples, T) /\ TriplesOver(parser.extraTriples, T)
  BY <1>1, PartsOfTop
<1>3. /\ TriplesOver(parser.triples \cup parser.extraTriples \cup t, T) /\ TriplesOver({}, T)
      /\ TriplesOver(parser.extraTriples \cup t, T)
  <2>1. TriplesOver(t, T)
    BY <1>2, TriplesTogether
  <2> HIDE DEF t
  <2> QED BY <1>2, <2>1, TriplesTogether
<1>4. CallOver(f, T) /\ DOMAIN f = FrameFields /\ f.in = Top.in /\ f.in # "list"
  BY <1>1, <1>2, CallGoesOn DEF FrameFields
<1>5. \/ Fail
      \/ /\ parser'.blankNodeCounter = parser.blankNodeCounter /\ parser'.term = None
         /\ parser'.stack = OnTop(f)
         /\ parser'.triples \in {parser.triples, parser.triples \cup parser.extraTriples \cup t}
         /\ parser'.extraTriples \in {{}, parser.extraTriples \cup t}
  BY <1>2 DEF TakeReifierProperty, TakeValue, ParserFields
<1>6. CASE Fail
  BY <1>2, <1>6, FailAdvances
<1> HIDE DEF f, t
<1>7. CASE ~Fail
  <2>1. TriplesOver(parser'.triples, T) /\ TriplesOver(parser'.extraTriples, T)
    BY <1>2, <1>3, <1>5, <1>7
  <2> QED BY <1>1, <1>4, <1>5, <1>7, <2>1, RetopOnly
<1> QED BY <1>6, <1>7

(* An item of a collection.                                                *)
LEMMA ItemAdvances ==
  ASSUME NEW T, Counted(parser, T), InBrackets(parser), parser.status = "reading", TakeItem
  PROVE  Advances(T)
<1> DEFINE s == Top.items
           t == Append(s, parser.term)
           f == [Top EXCEPT !.items = t]
<1>1. parser.stack # <<>> /\ Top.in = "list" /\ Top.at = "item"
  BY DEF TakeItem, Returned
<1>2. /\ DOMAIN Top = FrameFields /\ DOMAIN parser = ParserFields /\ CallOver(Top, T)
      /\ parser.term \in T
      /\ TriplesOver(parser.triples, T) /\ TriplesOver(parser.extraTriples, T)
  BY <1>1, PartsOfTop
<1>3. IsSequence(t) /\ t # <<>> /\ \A i \in 1 .. Len(t) : t[i] \in T
  <2> DEFINE S == {s[k] : k \in DOMAIN s} \cup {parser.term}
  <2>1. IsSequence(s) /\ \A i \in 1 .. Len(s) : s[i] \in T
    BY <1>2 DEF CallOver
  <2>2. s \in Seq(S) /\ Len(s) \in Nat /\ parser.term \in S
    <3>1. s \in [1 .. Len(s) -> {s[k] : k \in DOMAIN s}] /\ Len(s) \in Nat
      BY <2>1 DEF IsSequence
    <3>2. s \in [1 .. Len(s) -> S]
      BY <3>1
    <3>3. parser.term \in S
      OBVIOUS
    <3> HIDE DEF S, s
    <3> QED BY <3>1, <3>2, <3>3
  <2> HIDE DEF S, s
  <2>3. /\ t \in Seq(S) /\ t # <<>> /\ Len(t) = Len(s) + 1 /\ t[Len(s) + 1] = parser.term
        /\ \A i \in 1 .. Len(s) : t[i] = s[i]
    BY <2>2
  <2>4. \A i \in 1 .. Len(s) + 1 : i \in 1 .. Len(s) \/ i = Len(s) + 1
    BY <2>2
  <2> HIDE DEF t
  <2>5. IsSequence(t)
    BY <2>3, SequenceIntro
  <2> QED BY <1>2, <2>1, <2>3, <2>4, <2>5
<1> HIDE DEF t
<1>4. /\ f.s = Top.s /\ f.p = Top.p /\ f.o = Top.o /\ f.in = Top.in /\ f.at = Top.at
      /\ f.items = t /\ DOMAIN f = FrameFields
  BY <1>2 DEF FrameFields
<1>5. /\ parser'.blankNodeCounter = parser.blankNodeCounter /\ parser'.term = None
      /\ parser'.stack = OnTop(f)
      /\ parser'.triples = parser.triples /\ parser'.extraTriples = parser.extraTriples
  BY <1>2 DEF TakeItem, ParserFields, t
<1> HIDE DEF f
<1>6. CallOver(f, T)
  BY <1>1, <1>2, <1>3, <1>4 DEF CallOver
<1> QED BY <1>1, <1>2, <1>3, <1>4, <1>5, <1>6, RetopOnly

(* The end of a collection, which has an item: its nodes are made up, one  *)
(* for each of them.                                                       *)
LEMMA CollectionAdvances ==
  ASSUME NEW T, Counted(parser, T), InBrackets(parser), parser.status = "reading", EndCollection
  PROVE  Advances(T)
<1> DEFINE c == parser.blankNodeCounter
           s == Top.items
           n == Len(s)
           New == {ListNode(i) : i \in 1 .. n}
           U == T \cup New
<1>1. parser.stack # <<>> /\ Top.in = "list" /\ Top.at = "item" /\ parser.term = None /\ Here = ")"
  BY DEF EndCollection, Expecting
<1>2. /\ DOMAIN Top = FrameFields /\ DOMAIN parser = ParserFields /\ CallOver(Top, T) /\ c \in Nat
  BY <1>1, PartsOfTop
<1>3. s # <<>>
  <2>1. Here = TypeAt(parser.input, parser.pos)
    <3>1. parser.pos + 0 = parser.pos
      <4>1. parser.pos \in Nat
        <5> DEFINE l == Len(parser.input)
        <5>1. parser.pos \in 1 .. l + 1 /\ l \in Nat
          BY TypesOfText DEF InBrackets
        <5> HIDE DEF l
        <5> QED BY <5>1
      <4> QED BY <4>1
    <3> QED BY <3>1 DEF Here, Ahead
  <2> QED BY <1>1, <2>1 DEF Counted, ItemAhead, Top
<1>4. n \in Nat \ {0} /\ \A i \in 1 .. n : s[i] \in T
  BY <1>2, <1>3, TailSequence DEF CallOver
<1>5. /\ c + n \in Nat /\ c <= c + n /\ 1 \in 1 .. n
      /\ \A i \in 1 .. n : c + i \in 1 .. c + n
      /\ \A i \in 1 .. n : i # n => i + 1 \in 1 .. n
  <2> HIDE DEF c, n
  <2> QED BY <1>2, <1>4
<1> HIDE DEF n
<1>6. \A i \in 1 .. n : ListNode(i) \in U /\ ListNode(i) # None
  BY NewTerms DEF ListNode
<1>7. \A x \in New : Numbered(c + n, U, x)
  <2> SUFFICES ASSUME NEW i \in 1 .. n PROVE Numbered(c + n, U, ListNode(i))
    OBVIOUS
  <2> HIDE DEF U
  <2> QED BY <1>5, NewTerms DEF ListNode
<1>8. /\ TriplesOver(parser.triples, U) /\ TriplesOver(parser.extraTriples, U)
      /\ RDF("first") \in U /\ RDF("rest") \in U /\ RDF("nil") \in U /\ T \subseteq U
  BY StillOver DEF Vocabulary
<1>9. TriplesOver(ListTriples(s), U)
  <2> SUFFICES ASSUME NEW t \in ListTriples(s) PROVE t.s \in U /\ t.p \in U /\ t.o \in U
    BY DEF TriplesOver
  <2>1. PICK i \in 1 .. n : \/ t = Triple(ListNode(i), RDF("first"), s[i])
                            \/ t = Triple(ListNode(i), RDF("rest"),
                                          IF i = n THEN RDF("nil") ELSE ListNode(i + 1))
    BY DEF ListTriples, n
  <2>2. s[i] \in U /\ ListNode(i) \in U
    BY <1>4, <1>6, <1>8
  <2>3. (IF i = n THEN RDF("nil") ELSE ListNode(i + 1)) \in U
    <3> HIDE DEF U
    <3>1. CASE i = n
      BY <1>8, <3>1
    <3>2. CASE i # n
      BY <1>5, <1>6, <3>2
    <3> QED BY <3>1, <3>2
  <2> HIDE DEF U, s
  <2> QED BY <1>8, <2>1, <2>2, <2>3 DEF Triple
<1>10. /\ parser'.blankNodeCounter = c + n /\ parser'.triples = parser.triples
       /\ parser'.extraTriples = parser.extraTriples \cup ListTriples(s)
       /\ parser'.term = ListNode(1) /\ parser'.stack = Callers
  BY <1>2 DEF EndCollection, ParserFields, n
<1> HIDE DEF New, s
<1>11. /\ TriplesOver(parser'.triples, U) /\ TriplesOver(parser'.extraTriples, U)
       /\ parser'.term \in U /\ parser'.term # None
  <2> HIDE DEF U
  <2> QED BY <1>5, <1>6, <1>8, <1>9, <1>10, TriplesTogether
<1> HIDE DEF c
<1>12. c + n \in Nat /\ parser.blankNodeCounter <= c + n
  BY <1>5 DEF c
<1> QED BY <1>1, <1>7, <1>10, <1>11, <1>12, PopAdvances

(* The end of a quoted triple or triple term, with or without the node     *)
(* that reifies it.                                                        *)
LEMMA QuotedAdvances ==
  ASSUME NEW T, Counted(parser, T), InBrackets(parser), parser.status = "reading",
         EndTripleTerm \/ EndQuotedTriple \/ NewIdentifier \/ TakeIdentifier
  PROVE  Advances(T)
<1> DEFINE c == parser.blankNodeCounter
           plain == {TripleTerm(Top.s, Top.p, Top.o), QuotedTriple(Top.s, Top.p, Top.o)}
           extra(id) == parser.extraTriples \cup {Reifies(id, Top.s, Top.p, Top.o)}
           By(id, m) == /\ parser'.blankNodeCounter = m /\ parser'.term = ReifiedTriple(id)
                        /\ parser'.triples = parser.triples
                        /\ parser'.extraTriples = extra(id)
                        /\ parser'.stack = Callers
<1>1. parser.stack # <<>>
  BY DEF EndTripleTerm, EndQuotedTriple, NewIdentifier, TakeIdentifier, Expecting, Returned
<1>2. /\ DOMAIN parser = ParserFields /\ c \in Nat /\ c <= c
      /\ Top.s \in T /\ Top.p \in T /\ Top.o \in T /\ parser.term \in T
  BY <1>1, PartsOfTop
<1>3. c + 1 \in Nat /\ c <= c + 1 /\ c + 1 \in 1 .. c + 1
  <2> HIDE DEF c
  <2> QED BY <1>2
<1>4. \/ Fail
      \/ /\ parser'.blankNodeCounter = c /\ parser'.term \in plain
         /\ parser'.extraTriples = parser.extraTriples
         /\ parser'.triples = parser.triples /\ parser'.stack = Callers
      \/ By(parser.term, c)
      \/ By(Blank(c + 1), c + 1)
  <2>1. CASE EndTripleTerm
    BY <1>2, <2>1 DEF EndTripleTerm, ParserFields
  <2>2. CASE EndQuotedTriple
    <3> DEFINE t == QuotedTriple(Top.s, Top.p, Top.o)
    <3>1. Fail \/ ReturnQuoted(parser, t, {})
      BY <2>2 DEF EndQuotedTriple
    <3>2. t \in plain
      OBVIOUS
    <3> HIDE DEF t, plain
    <3>3. \/ Fail
          \/ /\ parser'.blankNodeCounter = c /\ parser'.term = t
             /\ parser'.extraTriples = parser.extraTriples
             /\ parser'.triples = parser.triples /\ parser'.stack = Callers
      <4>1. \/ Fail
            \/ parser' = [parser EXCEPT !.pos = @ + 1, !.stack = Callers, !.term = t,
                                        !.extraTriples = @ \cup {}]
        BY <3>1 DEF ReturnQuoted
      <4>2. \A x : x \cup {} = x
        OBVIOUS
      <4> DEFINE e == parser.extraTriples \cup {}
      <4>3. e = parser.extraTriples
        BY <4>2
      <4>4. \/ Fail
            \/ parser' = [parser EXCEPT !.pos = @ + 1, !.stack = Callers, !.term = t,
                                        !.extraTriples = e]
        BY <4>1
      <4> HIDE DEF e
      <4> QED BY <1>2, <4>3, <4>4 DEF ParserFields
    <3> HIDE DEF By
    <3> QED BY <3>2, <3>3
  <2>3. CASE TakeIdentifier
    <3> DEFINE id == parser.term
    <3>1. Fail \/ ReturnReified(parser, id)
      BY <2>3 DEF TakeIdentifier
    <3> HIDE DEF id
    <3>2. Fail \/ By(id, c)
      BY <1>2, <3>1 DEF ReturnReified, ReturnQuoted, ParserFields
    <3> HIDE DEF By
    <3> QED BY <3>2 DEF id
  <2>4. CASE NewIdentifier
    <3> DEFINE id == Blank(c + 1)
               q == [parser EXCEPT !.pos = @ + 1, !.blankNodeCounter = @ + 1]
    <3>1. ReturnReified(q, id)
      BY <2>4 DEF NewIdentifier
    <3>2. /\ DOMAIN q = ParserFields /\ q.blankNodeCounter = c + 1 /\ q.triples = parser.triples
          /\ q.extraTriples = parser.extraTriples
      BY <1>2 DEF ParserFields
    <3> HIDE DEF id, q
    <3>3. Fail \/ By(id, c + 1)
      BY <3>1, <3>2 DEF ReturnReified, ReturnQuoted, ParserFields
    <3> HIDE DEF By
    <3> QED BY <3>3 DEF id
  <2> QED BY <2>1, <2>2, <2>3, <2>4
<1>5. CASE Fail
  BY <1>2, <1>5, FailAdvances
<1>6. CASE /\ parser'.blankNodeCounter = c /\ parser'.term \in plain
           /\ parser'.extraTriples = parser.extraTriples
           /\ parser'.triples = parser.triples /\ parser'.stack = Callers
  <2> DEFINE New == plain
             U == T \cup New
  <2>1. TriplesOver(parser.triples, U) /\ TriplesOver(parser.extraTriples, U)
    BY StillOver
  <2>2. /\ parser'.term \in New /\ parser'.term # None
    BY <1>6, NewTerms
  <2>3. Top.s \in U /\ Top.p \in U /\ Top.o \in U
    BY <1>2
  <2>4. \A x \in New : Numbered(c, U, x)
    <3> HIDE DEF U, c
    <3> QED BY <1>2, <2>3, NewTerms
  <2> HIDE DEF New
  <2>5. c \in Nat /\ parser.blankNodeCounter <= c
    BY <1>2
  <2> QED BY <1>1, <1>6, <2>1, <2>2, <2>4, <2>5, PopAdvances
<1>7. ASSUME NEW id, NEW m \in Nat, parser.blankNodeCounter <= m,
             id \in T \/ (id = Blank(m) /\ m \in 1 .. m), By(id, m)
      PROVE  Advances(T)
  <2>1. PICK Old : /\ \A x \in Old : Numbered(m, T \cup Old, x)
                   /\ id \in T \cup Old
                   /\ TriplesOver(extra(id), T \cup Old)
    BY <1>1, <1>7, Reified
  <2> DEFINE r == ReifiedTriple(id)
             New == Old \cup {r}
             U == T \cup New
  <2>2. \A x \in Old : Numbered(m, U, x)
    <3>1. T \cup Old \subseteq U
      OBVIOUS
    <3> HIDE DEF U
    <3> QED BY <2>1, <3>1 DEF Numbered
  <2>3. Numbered(m, U, r) /\ r # None /\ r \in U
    <3>1. id \in U /\ r \in U
      BY <2>1
    <3> HIDE DEF U
    <3> QED BY <3>1, NewTerms
  <2>4. \A x \in New : Numbered(m, U, x)
    <3> HIDE DEF U, r
    <3> QED BY <2>2, <2>3
  <2>5. TriplesOver(extra(id), U) /\ TriplesOver(parser.triples, U)
    <3>1. T \cup Old \subseteq U
      OBVIOUS
    <3>2. TriplesOver(parser.triples, U)
      BY StillOver
    <3> HIDE DEF U, extra
    <3> QED BY <2>1, <3>1, <3>2, MoreTerms
  <2> HIDE DEF New, r, extra
  <2>6. /\ TriplesOver(parser'.triples, U) /\ TriplesOver(parser'.extraTriples, U)
        /\ parser'.term \in U /\ parser'.term # None /\ parser'.blankNodeCounter = m
        /\ parser'.stack = Callers
    BY <1>7, <2>3, <2>5 DEF r
  <2> QED BY <1>1, <1>7, <2>4, <2>6, PopAdvances
<1>8. By(parser.term, c) => Advances(T)
  <2> HIDE DEF By
  <2> QED BY <1>2, <1>7
<1>9. By(Blank(c + 1), c + 1) => Advances(T)
  <2> HIDE DEF By
  <2> QED BY <1>3, <1>7
<1> HIDE DEF By, plain
<1> QED BY <1>4, <1>5, <1>6, <1>8, <1>9

(* Every step of a TurtleParser makes up labels beyond its counter only,   *)
(* and counts them.                                                        *)
LEMMA StepAdvances ==
  ASSUME NEW T, Counted(parser, T), InBrackets(parser), OwnLabels(parser.input), ParseStep
  PROVE  Advances(T)
<1>1. parser.status = "reading"
  BY StepMoves
<1>2. CASE ReadDirective \/ BeginTripleBlock \/ ReturnTriples
  BY <1>1, <1>2, BetweenAdvances
<1>3. CASE ParseTerm
  BY <1>1, <1>3, TermAdvances
<1>4. CASE InTripleBlock
  BY <1>1, <1>4, SubjectAdvances, PartAdvances, ObjectAdvances, NextAdvances, ReifierAdvances,
     ReifierAnnotationAdvances DEF InTripleBlock
<1>5. CASE InAnnotation
  BY <1>1, <1>5, AnnotationAdvances, PartAdvances, ObjectAdvances, NextAdvances, ValueAdvances
     DEF InAnnotation
<1>6. CASE InAnonymousBlankNode
  BY <1>1, <1>6, PartAdvances, NextAdvances, ValueAdvances DEF InAnonymousBlankNode
<1>7. CASE InCollection
  BY <1>1, <1>7, ItemAdvances, CollectionAdvances DEF InCollection
<1>8. CASE InQuotedTriple
  BY <1>1, <1>8, PartAdvances, NextAdvances, QuotedAdvances DEF InQuotedTriple
<1> QED BY <1>2, <1>3, <1>4, <1>5, <1>6, <1>7, <1>8 DEF ParseStep

-----------------------------------------------------------------------------
(* Between the parsers.                                                    *)

QuadsOver(quads, terms) ==
  \A q \in quads : TriplesOver({q.triple}, terms) /\ (q.g \in terms \/ q.g = DefaultGraph)

(* The counter of an upload is beyond every label made up for its quads,   *)
(* and that of the parser it is handed to beyond the upload's.             *)
Counting ==
  /\ upload.blankNodeCounter \in Nat
  /\ upload.status = "open" /\ upload.format \in {"turtle", "strict"} =>
       upload.blankNodeCounter = 0 /\ upload.graph = DefaultGraph
  /\ \E terms : NumberedTo(upload.blankNodeCounter, terms) /\ QuadsOver(upload.quads, terms)
  /\ upload.status = "inside" =>
       /\ OwnLabels(parser.input)
       /\ upload.blankNodeCounter <= parser.blankNodeCounter
       /\ \E terms : Counted(parser, terms) /\ (upload.graph \in terms \/ upload.graph = DefaultGraph)

(* An upload that stays outside the parser, with the quads and the counter *)
(* that it had.                                                            *)
LEMMA StillCounting ==
  ASSUME Counting, upload'.blankNodeCounter = upload.blankNodeCounter, upload'.quads = upload.quads,
         upload'.status # "inside",
         upload'.status = "open" => upload'.format \notin {"turtle", "strict"}
  PROVE  Counting'
BY DEF Counting

(* A refused upload.                                                       *)
LEMMA GivenUpCounting ==
  ASSUME IInv, Counting, GiveUp
  PROVE  Counting'
<1>1. /\ upload'.blankNodeCounter = upload.blankNodeCounter /\ upload'.quads = upload.quads
      /\ upload'.status = "failed"
  BY DEF IInv, GiveUp, UploadFields
<1> QED BY <1>1, StillCounting

(* A parser that begins has read the name of its graph, at most.           *)
LEMMA FreshCounting ==
  ASSUME NEW text, NEW prefixes, NEW base, NEW counter \in Nat, NEW strict, NEW graph,
         \A terms : Numbered(counter, terms, graph)
  PROVE  \E terms : /\ Counted(NewTurtleParser(text, prefixes, base, counter, strict), terms)
                    /\ graph \in terms
<1> DEFINE q == NewTurtleParser(text, prefixes, base, counter, strict)
           T == Vocabulary \cup {graph}
<1>1. /\ q.blankNodeCounter = counter /\ q.triples = {} /\ q.extraTriples = {} /\ q.term = None
      /\ q.stack = <<>>
  BY DEF NewTurtleParser
<1>2. \A x \in Vocabulary : x = None \/ \E local : x = RDF(local)
  BY DEF Vocabulary
<1>3. \A x \in T : Numbered(counter, T, x)
  <2>1. \A x \in Vocabulary : Numbered(counter, T, x)
    <3> HIDE DEF T
    <3> QED BY <1>2, NewTerms
  <2>2. Numbered(counter, T, graph)
    <3> HIDE DEF T
    <3> QED OBVIOUS
  <2>3. \A x \in T : x \in Vocabulary \/ x = graph
    OBVIOUS
  <2> HIDE DEF T
  <2> QED BY <2>1, <2>2, <2>3
<1>4. Vocabulary \subseteq T /\ None \in T /\ graph \in T
  BY DEF Vocabulary
<1>5. CallsOver(<<>>, T)
  <2>1. (\A k \in 1 .. 0 : FALSE) /\ (\A k \in 1 .. 0 - 1 : FALSE)
    OBVIOUS
  <2> QED BY <2>1, NoFrame DEF CallsOver
<1>6. TriplesOver({}, T)
  BY TriplesTogether
<1> HIDE DEF q, T
<1>7. Counted(q, T)
  BY <1>1, <1>3, <1>4, <1>5, <1>6 DEF Counted, NumberedTo, ItemAhead
<1> QED BY <1>4, <1>7 DEF q

(* An upload that is handed to a parser.                                   *)
LEMMA DelegatedCounting ==
  ASSUME IInv, Counting, NEW content, OwnLabels(content), NEW graph, NEW pos, NEW counter \in Nat,
         upload.blankNodeCounter <= counter,
         graph = DefaultGraph \/ \A terms : Numbered(counter, terms, graph),
         Delegate(content, graph, pos, counter)
  PROVE  Counting'
<1>1. /\ upload'.blankNodeCounter = upload.blankNodeCounter /\ upload'.quads = upload.quads
      /\ upload'.status = "inside" /\ upload'.graph = graph
  BY DEF IInv, Delegate, UploadFields
<1>2. parser' = NewTurtleParser(content, upload.prefixes, upload.base, counter, FALSE)
  BY DEF Delegate
<1>3. parser'.input = content /\ parser'.blankNodeCounter = counter
  BY <1>2 DEF NewTurtleParser
<1>4. \E terms : Counted(parser', terms) /\ (graph \in terms \/ graph = DefaultGraph)
  <2>1. CASE graph # DefaultGraph
    BY <1>2, <2>1, FreshCounting
  <2>2. CASE graph = DefaultGraph
    <3>1. \A terms : Numbered(counter, terms, None)
      BY NewTerms
    <3> QED BY <1>2, <2>2, <3>1, FreshCounting
  <2> QED BY <2>1, <2>2
<1> QED BY <1>1, <1>3, <1>4 DEF Counting

(* A piece of the text has its author's labels.                            *)
LEMMA PieceLabels ==
  ASSUME NEW text, ProperText(text), OwnLabels(text), NEW i \in Nat \ {0}, NEW j \in Nat, i <= j + 1, j <= Len(text)
  PROVE  /\ OwnLabels(SubSeq(text, i, j))
         /\ OwnLabels(EnsureProperTermination(SubSeq(text, i, j)))
<1> DEFINE c == SubSeq(text, i, j)
           d == EnsureProperTermination(c)
           m == (j + 1) - i
<1>1. /\ ProperText(c) /\ Len(c) = m
      /\ \A k \in 1 .. m : c[k] = text[(i - 1) + k] /\ (i - 1) + k \in 1 .. Len(text)
  BY PieceOfText
<1> HIDE DEF c, m
<1>2. OwnLabels(c)
  BY <1>1 DEF OwnLabels
<1>3. \A k \in 1 .. Len(d) : (k \in 1 .. Len(c) /\ d[k] = c[k]) \/ d[k].t = "."
  BY <1>1, TerminatedPiece
<1> HIDE DEF d
<1>4. OwnLabels(d)
  BY <1>2, <1>3 DEF OwnLabels
<1> QED BY <1>2, <1>4 DEF c, d

(* The brace that is counted as the match of one is behind it.             *)
LEMMA EndOfBlock ==
  ASSUME ProperText(upload.text), NEW brace \in Nat, ClosingBraces(brace + 1) # {}
  PROVE  First(ClosingBraces(brace + 1)) \in brace + 1 .. Len(upload.text)
<1> DEFINE n == Len(upload.text)
           ends == ClosingBraces(brace + 1)
<1>1. \A j \in ends : j \in brace + 1 .. n
  BY DEF ClosingBraces
<1>2. n \in Nat
  BY TypesOfText
<1>3. First(ends) \in ends
  <2> HIDE DEF n, ends
  <2>1. \A j \in brace + 1 .. n : j \in Nat
    BY <1>2
  <2>2. ends # {}
    BY DEF ends
  <2> QED BY <1>1, <2>1, <2>2, FirstIsLeast
<1> QED BY <1>1, <1>3

(* A block with or without a name.                                         *)
LEMMA BlockCounting ==
  ASSUME IInv, Counting, OwnLabels(upload.text), NEW brace \in Nat, Token(brace) = "{",
         NEW graph, NEW counter \in Nat, upload.blankNodeCounter <= counter,
         graph = DefaultGraph \/ \A terms : Numbered(counter, terms, graph),
         ParseTriplesBlock(brace, graph, counter)
  PROVE  Counting'
<1> DEFINE text == upload.text
           n == Len(text)
           ends == ClosingBraces(brace + 1)
           e == First(ends)
           c == SubSeq(text, brace + 1, e - 1)
<1>1. ProperText(text) /\ n \in Nat /\ brace \in 1 .. n
  BY TypesOfText DEF Token, IInv
<1>2. CASE ends = {} \/ Token(e) = "|}" \/ Token(brace + 1) \in {"prefix", "@base", "base"}
  BY <1>2, GivenUpCounting DEF ParseTriplesBlock
<1>3. CASE ~(ends = {} \/ Token(e) = "|}" \/ Token(brace + 1) \in {"prefix", "@base", "base"})
  <2>1. Delegate(EnsureProperTermination(c), graph, e + 1, counter)
    BY <1>3 DEF ParseTriplesBlock
  <2>2. e \in brace + 1 .. n
    BY <1>1, <1>3, EndOfBlock
  <2>3. OwnLabels(EnsureProperTermination(c))
    <3> HIDE DEF n, e
    <3>1. brace + 1 \in Nat \ {0} /\ e - 1 \in Nat /\ brace + 1 <= (e - 1) + 1 /\ e - 1 <= n
      BY <1>1, <2>2, PlacesOfBlock
    <3>2. e - 1 <= Len(text)
      BY <3>1 DEF n
    <3> QED BY <1>1, <3>1, <3>2, PieceLabels
  <2> HIDE DEF e, c
  <2> QED BY <2>1, <2>3, DelegatedCounting
<1> QED BY <1>2, <1>3

(* Statements between the blocks.                                          *)
LEMMA StatementCounting ==
  ASSUME IInv, Counting, OwnLabels(upload.text), ParseDefaultGraphTripleBlock
  PROVE  Counting'
<1> DEFINE text == upload.text
           n == Len(text)
           i == upload.pos
           stops == StatementStops(i)
           e == First(stops)
           c == SubSeq(text, i, e)
<1>1. ProperText(text) /\ n \in Nat /\ i \in Nat \ {0}
  BY OpenText DEF Outside, ParseDefaultGraphTripleBlock
<1>2. CASE stops = {} \/ Token(e) \notin FullStop
  BY <1>2, GivenUpCounting DEF ParseDefaultGraphTripleBlock
<1>3. CASE ~(stops = {} \/ Token(e) \notin FullStop)
  <2>1. Delegate(c, DefaultGraph, e + 1, upload.blankNodeCounter)
    BY <1>3 DEF ParseDefaultGraphTripleBlock
  <2>2. e \in i .. n
    <3>1. \A j \in stops : j \in i .. n
      BY DEF StatementStops
    <3>2. stops \subseteq Nat
      <4> HIDE DEF n, stops, i
      <4>1. \A j \in i .. n : j \in Nat
        BY <1>1
      <4> QED BY <3>1, <4>1
    <3>3. e \in stops
      <4> HIDE DEF stops
      <4> QED BY <1>3, <3>2, FirstIsLeast
    <3> QED BY <3>1, <3>3
  <2>3. OwnLabels(c)
    <3> HIDE DEF n, e, i
    <3>1. e \in Nat /\ i <= e + 1 /\ e <= n
      BY <1>1, <2>2
    <3>2. e <= Len(text)
      BY <3>1 DEF n
    <3> QED BY <1>1, <3>1, <3>2, PieceLabels
  <2>4. upload.blankNodeCounter \in Nat /\ upload.blankNodeCounter <= upload.blankNodeCounter
    BY DEF Counting
  <2> HIDE DEF e, c
  <2> QED BY <2>1, <2>3, <2>4, DelegatedCounting
<1> QED BY <1>2, <1>3

(* The blocks of TriG: a name that is made up is counted, one that is read *)
(* has its author's label.                                                 *)
LEMMA BlocksCounting ==
  ASSUME IInv, Counting, OwnLabels(upload.text),
         ParseGraphBlock \/ ParseAnonymousGraphBlock \/ ParseNamedGraphBlock
  PROVE  Counting'
<1> DEFINE c == upload.blankNodeCounter
           i == upload.pos
<1>1. /\ Outside /\ i \in Nat /\ NextToken = Token(i) /\ ProperText(upload.text)
  BY OpenText DEF ParseGraphBlock, ParseAnonymousGraphBlock, ParseNamedGraphBlock, Outside, NextToken
<1>2. c \in Nat /\ c <= c /\ c + 1 \in Nat /\ c <= c + 1 /\ c + 1 \in 1 .. c + 1
  <2>1. c \in Nat
    BY DEF Counting
  <2> HIDE DEF c
  <2> QED BY <2>1
<1>3. \A terms : Numbered(c + 1, terms, Blank(c + 1))
  <2> HIDE DEF c
  <2> QED BY <1>2, NewTerms
<1>4. ASSUME NEW j PROVE \A terms : Numbered(c, terms, GraphTerm(j))
  <2> DEFINE q == Unread(j)
  <2>1. CASE IsAngle(j)
    <3>1. TriGIRI(j) = None \/ \E ns, local : TriGIRI(j) = Named(ns, local)
      BY Zenon DEF TriGIRI
    <3>2. GraphTerm(j).kind \in {"none", "iri"}
      BY <2>1, <3>1 DEF GraphTerm, Named, None
    <3> QED BY <3>2 DEF Numbered
  <2>2. CASE ~IsAngle(j)
    <3>1. GraphTerm(j) = SimpleTerm(q) /\ q.input = upload.text
      BY <2>2 DEF GraphTerm, Unread
    <3> HIDE DEF q
    <3> QED BY <3>1, SimpleNumbered
  <2> QED BY <2>1, <2>2
<1> HIDE DEF c, i
<1>5. ASSUME NEW brace \in Nat, Token(brace) = "{", NEW graph, NEW counter \in {c, c + 1},
             graph = DefaultGraph \/ (\A terms : Numbered(counter, terms, graph)),
             ParseTriplesBlock(brace, graph, counter)
      PROVE  Counting'
  <2>1. counter \in Nat /\ upload.blankNodeCounter <= counter
    BY <1>2 DEF c
  <2> QED BY <1>5, <2>1, BlockCounting
<1>6. CASE ParseAnonymousGraphBlock
  <2>1. ParseTriplesBlock(i, DefaultGraph, c) /\ Token(i) = "{"
    BY <1>1, <1>6 DEF ParseAnonymousGraphBlock, i, c
  <2> QED BY <1>1, <1>5, <2>1
<1>7. CASE ParseGraphBlock
  <2> DEFINE j == i + 1
             b == j + GraphTermLength(j)
  <2>1. \/ GiveUp
        \/ Token(j + 2) = "{" /\ ParseTriplesBlock(j + 2, Blank(c + 1), c + 1)
        \/ GraphTerm(j) # None /\ Token(b) = "{" /\ ParseTriplesBlock(b, GraphTerm(j), c)
    <3>1. \/ GiveUp
          \/ Token(j + 2) = "{" /\ ParseTriplesBlock(j + 2, Blank(c + 1), c + 1)
          \/ /\ GraphTerm(j).kind \in {"iri", "blank"} /\ Token(b) = "{"
             /\ ParseTriplesBlock(b, GraphTerm(j), c)
      BY <1>7, Zenon DEF ParseGraphBlock, i, c
    <3>2. None.kind \notin {"iri", "blank"}
      BY DEF None
    <3> HIDE DEF b, j
    <3> QED BY <3>1, <3>2
  <2>2. AtTop(j) /\ j \in Nat /\ j + 2 \in Nat
    <3>1. Token(i) = "graph" /\ AtTop(i)
      BY <1>1, <1>7, OpenText DEF ParseGraphBlock, Outside, i
    <3>2. "graph" \notin Marks \cup {"end"}
      BY DEF Marks, Opening, Closing
    <3> QED BY <1>1, <3>1, <3>2, AtTopOn
  <2> HIDE DEF j
  <2>3. GraphTerm(j) # None /\ Token(b) = "{" => b \in Nat
    BY <1>1, <2>2, TermAtTop DEF OpensBlock
  <2> HIDE DEF b
  <2> QED BY <1>3, <1>4, <1>5, <2>1, <2>2, <2>3, GivenUpCounting
<1>8. CASE ParseNamedGraphBlock
  <2> DEFINE j == i + GraphTermLength(i)
  <2>1. /\ GraphTerm(i) # None /\ Token(j) = "{" => j \in Nat /\ Token(i) # "["
        /\ i + 2 \in Nat
    <3>1. AtTop(i) /\ i + 2 \in Nat
      BY <1>1, OpenText DEF Outside, i
    <3>2. ASSUME GraphTerm(i) # None, Token(i + GraphTermLength(i)) = "{"
          PROVE  i + GraphTermLength(i) \in Nat /\ Token(i) # "["
      BY <1>1, <3>1, <3>2, TermAtTop DEF OpensBlock
    <3> QED BY <3>1, <3>2
  <2>2. \/ AnonymousAt(i) /\ Token(i + 2) = "{"
        \/ GraphTerm(i) # None /\ Token(j) = "{"
    BY <1>8 DEF ParseNamedGraphBlock, NamedBlockAhead, i
  <2>3. \/ Token(i) = "[" /\ ParseTriplesBlock(i + 2, Blank(c + 1), c + 1)
        \/ Token(i) # "[" /\ ParseTriplesBlock(j, GraphTerm(i), c)
    <3>1. \/ NextToken = "[" /\ ParseTriplesBlock(i + 2, Blank(c + 1), c + 1)
          \/ NextToken # "[" /\ ParseTriplesBlock(j, GraphTerm(i), c)
      BY <1>8, Zenon DEF ParseNamedGraphBlock, i, c
    <3> QED BY <1>1, <3>1
  <2> HIDE DEF j
  <2>4. AnonymousAt(i) => Token(i) = "["
    BY DEF AnonymousAt
  <2> QED BY <1>3, <1>4, <1>5, <2>1, <2>2, <2>3, <2>4
<1> QED BY <1>6, <1>7, <1>8

(* The whole text, the directives of TriG, and the end of an upload.       *)
LEMMA OpenCounting ==
  ASSUME IInv, Counting, OwnLabels(upload.text),
         ReadWhole \/ ParseTriGPrefix \/ ParseTriGBase \/ ReturnQuads \/ ReturnNQuads \/ PassError
  PROVE  Counting'
<1>1. DOMAIN upload = UploadFields
  BY DEF IInv
<1>2. CASE GiveUp
  BY <1>2, GivenUpCounting
<1>3. CASE ReadWhole
  <2>1. /\ upload'.blankNodeCounter = 0 /\ upload.blankNodeCounter = 0 /\ upload'.quads = upload.quads
        /\ upload'.status = "inside"
    <3>1. upload.blankNodeCounter = 0
      BY <1>3 DEF ReadWhole, Counting
    <3> QED BY <1>1, <1>3, <3>1 DEF ReadWhole, UploadFields
  <2> DEFINE q == NewTurtleParser(upload.text, NoPrefixes, NoBase, 0, upload.format = "strict")
  <2>2. parser' = q
    BY <1>3 DEF ReadWhole
  <2>3. q.input = upload.text /\ q.blankNodeCounter = 0
    BY DEF NewTurtleParser
  <2>4. \A terms : Numbered(0, terms, None)
    BY NewTerms
  <2> DEFINE strict == upload.format = "strict"
  <2>5. upload'.graph = upload.graph
    BY <1>1, <1>3 DEF ReadWhole, UploadFields
  <2>6. upload.graph = DefaultGraph
    BY <1>3 DEF ReadWhole, Counting
  <2>7. \E terms : Counted(q, terms)
    <3> HIDE DEF strict
    <3>1. \A s : \E terms : Counted(NewTurtleParser(upload.text, NoPrefixes, NoBase, 0, s), terms)
      BY <2>4, FreshCounting
    <3>2. \E terms : Counted(NewTurtleParser(upload.text, NoPrefixes, NoBase, 0, strict), terms)
      BY <3>1
    <3> QED BY <3>2 DEF strict
  <2> HIDE DEF q
  <2> QED BY <2>1, <2>2, <2>3, <2>5, <2>6, <2>7 DEF Counting
<1>4. CASE ~GiveUp /\ (ParseTriGPrefix \/ ParseTriGBase)
  <2>1. /\ upload'.blankNodeCounter = upload.blankNodeCounter /\ upload'.quads = upload.quads
        /\ upload'.format = "trig" /\ upload'.status = "open"
    BY <1>1, <1>4 DEF ParseTriGPrefix, ParseTriGBase, Outside, UploadFields
  <2> QED BY <2>1, StillCounting
<1>5. CASE ReturnQuads \/ ReturnNQuads
  <2>1. /\ upload'.blankNodeCounter = upload.blankNodeCounter /\ upload'.quads = upload.quads
        /\ upload'.status = "done"
    BY <1>1, <1>5 DEF ReturnQuads, ReturnNQuads, UploadFields
  <2> QED BY <2>1, StillCounting
<1> QED BY <1>2, <1>3, <1>4, <1>5 DEF PassError

(* A step of the parser that the upload was handed to.                     *)
LEMMA InsideCounting ==
  ASSUME IInv, Counting, ParseInside
  PROVE  Counting'
<1>1. upload' = upload /\ upload.status = "inside" /\ ParseStep /\ InBrackets(parser)
  BY DEF ParseInside, IInv
<1>2. PICK T : Counted(parser, T) /\ (upload.graph \in T \/ upload.graph = DefaultGraph)
  BY <1>1 DEF Counting
<1>3. OwnLabels(parser.input) /\ parser'.input = parser.input
  BY <1>1, StepKeepsBrackets DEF Counting
<1>4. Advances(T)
  BY <1>1, <1>2, <1>3, StepAdvances
<1>5. PICK U : T \subseteq U /\ Counted(parser', U) /\ parser.blankNodeCounter <= parser'.blankNodeCounter
  BY <1>4 DEF Advances
<1>6. upload.blankNodeCounter <= parser'.blankNodeCounter
  <2>1. /\ upload.blankNodeCounter \in Nat /\ parser.blankNodeCounter \in Nat
        /\ parser'.blankNodeCounter \in Nat
    BY <1>2, <1>5 DEF Counted, Counting
  <2>2. upload.blankNodeCounter <= parser.blankNodeCounter
    BY <1>1 DEF Counting
  <2> QED BY <1>5, <2>1, <2>2
<1>7. \E terms : Counted(parser', terms) /\ (upload.graph \in terms \/ upload.graph = DefaultGraph)
  BY <1>2, <1>5
<1>8. OwnLabels(parser'.input)
  BY <1>3
<1> QED BY <1>1, <1>6, <1>7, <1>8 DEF Counting

(* Two sets of terms together.                                             *)
LEMMA TermsTogether ==
  ASSUME NEW n \in Nat, NEW m \in Nat, n <= m, NEW T, NumberedTo(n, T), NEW U, NumberedTo(m, U)
  PROVE  NumberedTo(m, T \cup U)
<1>1. \A x \in U : Numbered(m, T \cup U, x)
  BY DEF NumberedTo, Numbered
<1> QED BY <1>1, MoreNumbered

(* What the parser has read becomes quads, and its counter is taken over.  *)
LEMMA TakenOverCounting ==
  ASSUME IInv, Counting, TakeOver
  PROVE  Counting'
<1> DEFINE new == {[triple |-> triple, g |-> upload.graph] : triple \in parser.triples}
           c == parser.blankNodeCounter
<1>1. DOMAIN upload = UploadFields /\ upload.status = "inside"
  BY DEF IInv, TakeOver
<1>2. PICK T : NumberedTo(upload.blankNodeCounter, T) /\ QuadsOver(upload.quads, T)
  BY DEF Counting
<1>3. PICK U : Counted(parser, U) /\ (upload.graph \in U \/ upload.graph = DefaultGraph)
  BY <1>1 DEF Counting
<1>4. /\ upload'.blankNodeCounter = c /\ upload'.quads = upload.quads \cup new
      /\ upload'.format = upload.format
      /\ upload'.status = IF upload.format = "trig" THEN "open" ELSE "done"
  BY <1>1 DEF TakeOver, UploadFields
<1> DEFINE V == T \cup U
<1>5. c \in Nat /\ NumberedTo(c, V)
  <2>1. /\ upload.blankNodeCounter \in Nat /\ c \in Nat /\ upload.blankNodeCounter <= c
        /\ NumberedTo(c, U)
    BY <1>1, <1>3 DEF Counting, Counted
  <2> HIDE DEF c
  <2> QED BY <1>2, <2>1, TermsTogether
<1>6. QuadsOver(new, V)
  <2> SUFFICES ASSUME NEW t \in parser.triples
               PROVE  TriplesOver({t}, V) /\ (upload.graph \in V \/ upload.graph = DefaultGraph)
    BY DEF QuadsOver
  <2>1. t.s \in U /\ t.p \in U /\ t.o \in U
    BY <1>3 DEF Counted, TriplesOver
  <2> QED BY <1>3, <2>1 DEF TriplesOver
<1>7. QuadsOver(upload.quads, V)
  <2>1. \A q \in upload.quads : TriplesOver({q.triple}, V)
    BY <1>2, MoreTerms DEF QuadsOver
  <2> QED BY <1>2, <2>1 DEF QuadsOver
<1> HIDE DEF new, V
<1>8. QuadsOver(upload'.quads, V)
  BY <1>4, <1>6, <1>7 DEF QuadsOver
<1>9. upload'.status # "inside" /\ (upload'.status = "open" => upload.format = "trig")
  BY <1>4
<1> QED BY <1>4, <1>5, <1>8, <1>9 DEF Counting

(* The terms of N-Quads are their author's.                                *)
LEMMA ReadTerms ==
  ASSUME NEW text, ProperText(text), OwnLabels(text)
  PROVE  \E T : /\ \A n : NumberedTo(n, T)
                /\ \A i \in 1 .. Len(text) + 1 : TermsOf(text)[i].term \in T
<1> DEFINE R == TermsOf(text)
           D == 1 .. Len(text) + 1
           T == {R[i].term : i \in D}
<1>1. \A i \in D : R[i] = ParseQuadTerm(text, R, i) /\ (~Stuck(R[i]) => R[i].next \in i + 1 .. Len(text) + 1)
  BY TermsUnfold, TermsNeutral DEF ReadNeutral, Neutral
<1>2. \A i \in D : \A j \in i + 1 .. Len(text) + 1 : j \in D
  <2> DEFINE n == Len(text)
  <2>1. n \in Nat
    BY TypesOfText
  <2> HIDE DEF n
  <2>2. \A i \in 1 .. n + 1 : \A j \in i + 1 .. n + 1 : j \in 1 .. n + 1
    BY <2>1
  <2> QED BY <2>2 DEF n
<1>3. \A x : x \in {Refused, Panicked} => x.term.kind \in {"none", "panic"}
  BY DEF Refused, Panicked, Read, None
<1> HIDE DEF R
<1>4. ASSUME NEW i \in D, NEW n PROVE Numbered(n, T, R[i].term)
  <2> DEFINE x == R[i].term
  <2>1. CASE Stuck(R[i])
    <3>1. x.kind \in {"none", "panic"}
      BY <1>3, <2>1 DEF Stuck
    <3> HIDE DEF x, T
    <3> QED BY <3>1 DEF Numbered, x
  <2>2. CASE ~Stuck(R[i]) /\ TypeAt(text, i) # "<<("
    <3>1. \/ x.kind \in {"iri", "literal"}
          \/ TypeAt(text, i) = "label" /\ x = Blank(text[i].label)
      <4> DEFINE r == R[i]
      <4>1. r = ParseQuadTerm(text, R, i) /\ ~Stuck(r)
        BY <1>1, <2>2
      <4>2. Stuck(Panicked) /\ Stuck(Refused)
        BY DEF Stuck
      <4> HIDE DEF r
      <4>3. CASE TypeAt(text, i) = "end"
        BY <4>1, <4>2, <4>3 DEF ParseQuadTerm
      <4>4. CASE TypeAt(text, i) = "iri"
        BY <4>1, <4>4 DEF ParseQuadTerm, Read, Named, r
      <4>5. CASE TypeAt(text, i) = "label"
        BY <4>1, <4>5 DEF ParseQuadTerm, Read, r
      <4>6. CASE TypeAt(text, i) = "string"
        BY <4>1, <4>6 DEF ParseQuadTerm, Read, Literal, r
      <4>7. CASE TypeAt(text, i) \notin {"end", "iri", "label", "string", "<<("}
        <5>1. r = Refused
          BY <4>1, <4>7, Zenon DEF ParseQuadTerm
        <5> QED BY <4>1, <4>2, <5>1
      <4> QED BY <2>2, <4>3, <4>4, <4>5, <4>6, <4>7
    <3>2. CASE x.kind \in {"iri", "literal"}
      <4> HIDE DEF x, T
      <4> QED BY <3>2 DEF Numbered, x
    <3>3. CASE TypeAt(text, i) = "label" /\ x = Blank(text[i].label)
      <4>1. text[i].label \notin Nat
        BY <3>3 DEF OwnLabels, TypeAt
      <4>2. x.kind = "blank" /\ x.label \notin Nat
        BY <3>3, <4>1 DEF Blank
      <4> HIDE DEF x, T
      <4> QED BY <4>2 DEF Numbered, x
    <3> QED BY <3>1, <3>2, <3>3
  <2>3. CASE ~Stuck(R[i]) /\ TypeAt(text, i) = "<<("
    <3> DEFINE s == R[i + 1]
               p == R[s.next]
               o == R[p.next]
               r == R[i]
    <3>1. r = ParseQuotedTriple(text, R, i) /\ ~Stuck(r)
      BY <1>1, <2>3 DEF ParseQuadTerm
    <3>2. r = IF Stuck(s) THEN s
              ELSE IF IsLiteral(s.term) THEN Refused
              ELSE IF Stuck(p) THEN p
              ELSE IF p.term.kind # "iri" THEN Refused
              ELSE IF Stuck(o) THEN o
              ELSE IF TypeAt(text, o.next) # ")>>" THEN Refused
              ELSE Read(TripleTerm(s.term, p.term, o.term), o.next + 1)
      BY <3>1 DEF ParseQuotedTriple
    <3>3. Stuck(Refused)
      BY DEF Stuck
    <3>4. ~Stuck(s) /\ ~Stuck(p) /\ ~Stuck(o) /\ r = Read(TripleTerm(s.term, p.term, o.term), o.next + 1)
      <4> HIDE DEF s, p, o, r
      <4> QED BY <3>1, <3>2, <3>3
    <3>5. i + 1 \in D
      <4> DEFINE n1 == Len(text)
      <4>1. n1 \in Nat /\ i \in 1 .. n1
        BY <2>3, TypesOfText
      <4> HIDE DEF n1
      <4>2. i + 1 \in 1 .. n1 + 1
        BY <4>1
      <4> QED BY <4>2 DEF n1
    <3>6. s.next \in D
      BY <1>1, <1>2, <3>4, <3>5
    <3>7. p.next \in D
      BY <1>1, <1>2, <3>4, <3>6
    <3>8. s.term \in T /\ p.term \in T /\ o.term \in T
      BY <3>5, <3>6, <3>7
    <3>9. x = TripleTerm(s.term, p.term, o.term)
      <4> HIDE DEF s, p, o
      <4> QED BY <3>4 DEF Read
    <3> HIDE DEF s, p, o, x, T
    <3> QED BY <3>8, <3>9 DEF TripleTerm, Numbered, x
  <2> QED BY <2>1, <2>2, <2>3
<1>5. \A n : NumberedTo(n, T)
  <2> SUFFICES ASSUME NEW n, NEW x \in T PROVE Numbered(n, T, x)
    BY DEF NumberedTo
  <2>1. PICK i \in D : x = R[i].term
    OBVIOUS
  <2> HIDE DEF T
  <2> QED BY <1>4, <2>1
<1>6. \A i \in D : R[i].term \in T
  OBVIOUS
<1> HIDE DEF T
<1> QED BY <1>5, <1>6 DEF R

(* The parts of a quad that is read are terms of the text.                 *)
LEMMA QuadParts ==
  ASSUME ProperText(upload.text), NEW i \in 1 .. Len(upload.text) + 1, ~Stuck(QuadAt(i)),
         NEW T, \A k \in 1 .. Len(upload.text) + 1 : TermsOf(upload.text)[k].term \in T
  PROVE  QuadsOver({QuadAt(i).term}, T)
<1> DEFINE text == upload.text
           D == 1 .. Len(text) + 1
           s == TermsOf(text)[i]
           p == TermsOf(text)[s.next]
           o == TermsOf(text)[p.next]
           g == IF GraphAhead(o.next) THEN TermsOf(text)[o.next] ELSE Read(DefaultGraph, o.next)
           quad == Read([triple |-> Triple(s.term, p.term, o.term), g |-> g.term], g.next + 1)
<1>1. Stuck(Refused)
  BY DEF Stuck
<1>2. QuadAt(i) = IF Stuck(s) THEN s
                  ELSE IF s.term.kind = "triple" THEN Refused
                  ELSE IF Stuck(p) THEN p
                  ELSE IF p.term.kind = "triple" THEN Refused
                  ELSE IF Stuck(o) THEN o
                  ELSE IF Stuck(g) THEN g
                  ELSE IF Token(g.next) \notin FullStop THEN Refused
                  ELSE quad
  BY DEF QuadAt
<1>3. ~Stuck(s) /\ ~Stuck(p) /\ ~Stuck(o) /\ ~Stuck(g) /\ QuadAt(i) = quad
  <2> HIDE DEF s, p, o, g, quad
  <2> QED BY <1>1, <1>2
<1>4. ASSUME NEW j, Neutral(text, i, j) PROVE j \in D
  <2> DEFINE n == Len(text)
  <2>1. n \in Nat /\ i \in 1 .. n + 1 /\ j \in i + 1 .. n + 1
    BY <1>4, TypesOfText DEF Neutral
  <2> HIDE DEF n
  <2>2. j \in 1 .. n + 1
    BY <2>1
  <2> QED BY <2>2 DEF n
<1>5. Neutral(text, i, s.next) /\ s.term \in T
  BY <1>3, TermsNeutral DEF ReadNeutral
<1> HIDE DEF s
<1>6. Neutral(text, i, p.next) /\ p.term \in T
  BY <1>3, <1>4, <1>5, ChainedRead
<1> HIDE DEF p
<1>7. Neutral(text, i, o.next) /\ o.term \in T
  BY <1>3, <1>4, <1>6, ChainedRead
<1> HIDE DEF o
<1>8. g.term \in T \/ g.term = DefaultGraph
  <2>1. CASE GraphAhead(o.next)
    BY <1>4, <1>7, <2>1
  <2>2. CASE ~GraphAhead(o.next)
    BY <2>2 DEF Read
  <2> QED BY <2>1, <2>2
<1> HIDE DEF g
<1>9. quad.term = [triple |-> Triple(s.term, p.term, o.term), g |-> g.term]
  BY DEF Read
<1> HIDE DEF quad
<1>10. \A x, y, z \in T : TriplesOver({Triple(x, y, z)}, T)
  BY DEF TriplesOver, Triple
<1>11. TriplesOver({Triple(s.term, p.term, o.term)}, T)
  BY <1>5, <1>6, <1>7, <1>10
<1>12. /\ quad.term.triple = Triple(s.term, p.term, o.term)
       /\ quad.term.g \in T \/ quad.term.g = DefaultGraph
  BY <1>8, <1>9
<1> QED BY <1>3, <1>11, <1>12 DEF QuadsOver

(* A quad makes up no label.                                               *)
LEMMA QuadCounting ==
  ASSUME IInv, Counting, OwnLabels(upload.text), ParseQuad
  PROVE  Counting'
<1> DEFINE text == upload.text
           i == upload.pos
           quad == QuadAt(i)
           c == upload.blankNodeCounter
<1>1. /\ upload.status = "open" /\ upload.format = "nquads" /\ DOMAIN upload = UploadFields
      /\ ProperText(text) /\ AtTop(i)
  BY DEF IInv, ParseQuad, ReadingQuads
<1>2. \/ upload' = [upload EXCEPT !.status = "failed"]
      \/ upload' = [upload EXCEPT !.status = "panicked"]
      \/ ~Stuck(quad) /\ upload' = [upload EXCEPT !.quads = @ \cup {quad.term}, !.pos = quad.next]
  <2>1. upload' = CASE quad = Refused -> [upload EXCEPT !.status = "failed"]
               [] quad = Panicked -> [upload EXCEPT !.status = "panicked"]
               [] OTHER -> [upload EXCEPT !.quads = @ \cup {quad.term}, !.pos = quad.next]
    BY DEF ParseQuad
  <2>2. Stuck(quad) <=> quad = Refused \/ quad = Panicked
    BY DEF Stuck
  <2> HIDE DEF quad
  <2>3. CASE quad = Refused
    <3>1. Refused # Panicked
      BY DEF Refused, Panicked, Read, None
    <3> QED BY <2>1, <2>3, <3>1, Zenon
  <2>4. CASE quad # Refused
    BY <2>1, <2>2, <2>4, Zenon
  <2> QED BY <2>3, <2>4
<1>3. CASE upload' = [upload EXCEPT !.status = "failed"] \/ upload' = [upload EXCEPT !.status = "panicked"]
  <2>1. /\ upload'.blankNodeCounter = c /\ upload'.quads = upload.quads
        /\ upload'.status \in {"failed", "panicked"}
    BY <1>1, <1>3 DEF UploadFields
  <2> QED BY <2>1, StillCounting
<1>4. CASE ~Stuck(quad) /\ upload' = [upload EXCEPT !.quads = @ \cup {quad.term}, !.pos = quad.next]
  <2>1. PICK T : NumberedTo(c, T) /\ QuadsOver(upload.quads, T)
    BY DEF Counting
  <2>2. PICK U : /\ \A n : NumberedTo(n, U)
                 /\ \A k \in 1 .. Len(text) + 1 : TermsOf(text)[k].term \in U
    BY <1>1, ReadTerms
  <2>3. QuadsOver({quad.term}, U)
    BY <1>1, <1>4, <2>2, QuadParts DEF AtTop
  <2>4. c \in Nat /\ NumberedTo(c, T \cup U)
    <3>1. c \in Nat /\ NumberedTo(c, U)
      BY <2>2 DEF Counting
    <3> HIDE DEF c
    <3>2. c <= c
      BY <3>1
    <3> QED BY <2>1, <3>1, <3>2, TermsTogether
  <2>5. /\ upload'.blankNodeCounter = c /\ upload'.status = "open" /\ upload'.format = "nquads"
        /\ upload'.quads = upload.quads \cup {quad.term}
    BY <1>1, <1>4 DEF UploadFields
  <2> HIDE DEF quad, c
  <2>6. QuadsOver(upload'.quads, T \cup U)
    <3>1. \A q \in upload.quads : TriplesOver({q.triple}, T \cup U)
      BY <2>1, MoreTerms DEF QuadsOver
    <3>2. \A q \in {quad.term} : TriplesOver({q.triple}, T \cup U)
      BY <2>3, MoreTerms DEF QuadsOver
    <3> QED BY <2>1, <2>3, <2>5, <3>1, <3>2 DEF QuadsOver
  <2> QED BY <2>4, <2>5, <2>6 DEF Counting
<1> QED BY <1>2, <1>3, <1>4

(* Nothing changes the text of an upload.                                  *)
LEMMA TextStays ==
  ASSUME IInv, [ReadingNext]_vars
  PROVE  upload'.text = upload.text
<1>1. DOMAIN upload = UploadFields
  BY DEF IInv
<1>2. ASSUME GiveUp PROVE upload'.text = upload.text
  BY <1>1, <1>2 DEF GiveUp, UploadFields
<1>3. ASSUME NEW content, NEW graph, NEW pos, NEW counter, Delegate(content, graph, pos, counter)
      PROVE  upload'.text = upload.text
  BY <1>1, <1>3 DEF Delegate, UploadFields
<1>4. ASSUME NEW brace, NEW graph, NEW counter, ParseTriplesBlock(brace, graph, counter)
      PROVE  upload'.text = upload.text
  BY <1>2, <1>3, <1>4, Zenon DEF ParseTriplesBlock
<1>5. CASE ParseGraphBlock \/ ParseAnonymousGraphBlock \/ ParseNamedGraphBlock
  BY <1>2, <1>4, <1>5, Zenon DEF ParseGraphBlock, ParseAnonymousGraphBlock, ParseNamedGraphBlock
<1>6. CASE ParseDefaultGraphTripleBlock
  BY <1>2, <1>3, <1>6, Zenon DEF ParseDefaultGraphTripleBlock
<1>7. CASE ReadWhole \/ ParseInside \/ TakeOver \/ ReturnQuads \/ ReturnNQuads
  BY <1>1, <1>7 DEF ReadWhole, ParseInside, TakeOver, ReturnQuads, ReturnNQuads, UploadFields
<1>8. CASE ParseTriGPrefix \/ ParseTriGBase \/ PassError
  <2>1. CASE GiveUp
    BY <1>2, <2>1
  <2>2. CASE ~GiveUp
    BY <1>1, <1>8, <2>2 DEF ParseTriGPrefix, ParseTriGBase, PassError, UploadFields
  <2> QED BY <2>1, <2>2
<1>9. CASE ParseQuad
  BY <1>1, <1>9 DEF ParseQuad, UploadFields
<1>10. CASE UNCHANGED vars
  BY <1>10 DEF vars
<1> QED BY <1>5, <1>6, <1>7, <1>8, <1>9, <1>10 DEF ReadingNext, Next

-----------------------------------------------------------------------------
(* What follows for uploads with labels of their author's.                 *)
Labelled == OwnLabels(upload.text) => Counting

(* Nothing has been read of an upload at first.                            *)
LEMMA InitLabelled ==
  ASSUME Init
  PROVE  Labelled
<1>1. PICK text \in Text, format \in Format : upload = Uploaded(text, format)
  BY DEF Init
<1>2. /\ upload.blankNodeCounter = 0 /\ upload.graph = DefaultGraph /\ upload.quads = {}
      /\ upload.status = "open"
  BY <1>1 DEF Uploaded
<1>3. NumberedTo(0, {}) /\ QuadsOver({}, {})
  BY DEF NumberedTo, QuadsOver
<1> QED BY <1>2, <1>3 DEF Labelled, Counting

(* Every step of every parser keeps the counters ahead.                    *)
LEMMA NextLabelled ==
  ASSUME IInv, Labelled, [ReadingNext]_vars
  PROVE  Labelled'
<1> SUFFICES ASSUME OwnLabels(upload'.text) PROVE Counting'
  BY DEF Labelled
<1>1. OwnLabels(upload.text) /\ Counting
  BY TextStays DEF Labelled
<1>2. CASE ReadWhole \/ ParseTriGPrefix \/ ParseTriGBase \/ ReturnQuads \/ ReturnNQuads \/ PassError
  BY <1>1, <1>2, OpenCounting
<1>3. CASE ParseGraphBlock \/ ParseAnonymousGraphBlock \/ ParseNamedGraphBlock
  BY <1>1, <1>3, BlocksCounting
<1>4. CASE ParseDefaultGraphTripleBlock
  BY <1>1, <1>4, StatementCounting
<1>5. CASE ParseInside
  BY <1>1, <1>5, InsideCounting
<1>6. CASE TakeOver
  BY <1>1, <1>6, TakenOverCounting
<1>7. CASE ParseQuad
  BY <1>1, <1>7, QuadCounting
<1>8. CASE UNCHANGED vars
  <2>1. upload' = upload /\ parser' = parser
    BY <1>8 DEF vars
  <2> QED BY <1>1, <2>1 DEF Counting
<1> QED BY <1>2, <1>3, <1>4, <1>5, <1>6, <1>7, <1>8 DEF ReadingNext, Next

(* The parts of a term are terms. *)
HasParts(terms) ==
  \A x \in terms :
    /\ x.kind \in {"triple", "quoted"} => x.s \in terms /\ x.p \in terms /\ x.o \in terms
    /\ x.kind = "reified" => x.id \in terms

(* The number of the label that was made up last. *)
LastLabel == IF upload.status = "inside" THEN parser.blankNodeCounter ELSE upload.blankNodeCounter

(* Of the labels that can still be made up none is in a quad that was      *)
(* read, in a triple or a term of the block at hand, or in its name, at    *)
(* any depth, unless the author's labels have their form.                  *)
NewNodesAreNew ==
  OwnLabels(upload.text) =>
    \E terms :
      /\ HasParts(terms) /\ QuadsOver(upload.quads, terms)
      /\ upload.status = "inside" =>
           /\ TriplesOver(parser.triples \cup parser.extraTriples, terms) /\ parser.term \in terms
           /\ CallsOver(parser.stack, terms)
           /\ upload.graph \in terms \/ upload.graph = DefaultGraph
      /\ \A n \in Nat : n > LastLabel => Blank(n) \notin terms

(* A set of terms with the labels up to a number.                          *)
LEMMA NoneBeyond ==
  ASSUME NEW m \in Nat, NEW T, NumberedTo(m, T)
  PROVE  HasParts(T) /\ \A n \in Nat : n > m => Blank(n) \notin T
<1>1. HasParts(T)
  BY DEF HasParts, NumberedTo, Numbered
<1>2. ASSUME NEW n \in Nat, n > m, Blank(n) \in T PROVE FALSE
  <2>1. Numbered(m, T, Blank(n))
    BY <1>2 DEF NumberedTo
  <2>2. n \in 1 .. m
    BY <2>1 DEF Numbered, Blank
  <2> QED BY <1>2, <2>2
<1> QED BY <1>1, <1>2

(* Whatever the text, Turtle, TriG or N-Quads: a blank node that a parser  *)
(* makes up, for [], for a collection, a reifier or an annotation, is none *)
(* that there is in the document yet, though every block of TriG has a     *)
(* TurtleParser of its own and hands only a counter on.                    *)
THEOREM MadeUpNodesAreNew == ReadingSpec => []NewNodesAreNew
<1>1. Init => Labelled
  BY InitLabelled
<1>2. IInv /\ Labelled /\ [ReadingNext]_vars => Labelled'
  BY NextLabelled
<1>3. Labelled => NewNodesAreNew
  <2> SUFFICES ASSUME Labelled, OwnLabels(upload.text)
               PROVE  \E terms :
                        /\ HasParts(terms) /\ QuadsOver(upload.quads, terms)
                        /\ upload.status = "inside" =>
                             /\ TriplesOver(parser.triples \cup parser.extraTriples, terms)
                             /\ parser.term \in terms
                             /\ CallsOver(parser.stack, terms)
                             /\ upload.graph \in terms \/ upload.graph = DefaultGraph
                        /\ \A n \in Nat : n > LastLabel => Blank(n) \notin terms
    BY DEF NewNodesAreNew
  <2>1. Counting
    BY DEF Labelled
  <2>2. PICK T : NumberedTo(upload.blankNodeCounter, T) /\ QuadsOver(upload.quads, T)
    BY <2>1 DEF Counting
  <2>3. CASE upload.status # "inside"
    <3>1. LastLabel = upload.blankNodeCounter /\ upload.blankNodeCounter \in Nat
      BY <2>1, <2>3 DEF LastLabel, Counting
    <3>2. HasParts(T) /\ \A n \in Nat : n > LastLabel => Blank(n) \notin T
      BY <2>2, <3>1, NoneBeyond
    <3> QED BY <2>2, <2>3, <3>2
  <2>4. CASE upload.status = "inside"
    <3>1. PICK U : Counted(parser, U) /\ (upload.graph \in U \/ upload.graph = DefaultGraph)
      BY <2>1, <2>4 DEF Counting
    <3> DEFINE V == T \cup U
    <3>2. /\ LastLabel = parser.blankNodeCounter /\ LastLabel \in Nat
          /\ upload.blankNodeCounter \in Nat /\ upload.blankNodeCounter <= LastLabel
      BY <2>1, <2>4, <3>1 DEF LastLabel, Counting, Counted
    <3>3. NumberedTo(LastLabel, V)
      BY <2>2, <3>1, <3>2, TermsTogether DEF Counted
    <3>4. HasParts(V) /\ \A n \in Nat : n > LastLabel => Blank(n) \notin V
      <4> HIDE DEF V
      <4> QED BY <3>2, <3>3, NoneBeyond
    <3>5. QuadsOver(upload.quads, V)
      <4>1. \A q \in upload.quads : TriplesOver({q.triple}, V)
        BY <2>2, MoreTerms DEF QuadsOver
      <4> QED BY <2>2, <4>1 DEF QuadsOver
    <3>6. /\ TriplesOver(parser.triples, V) /\ TriplesOver(parser.extraTriples, V)
          /\ parser.term \in V /\ CallsOver(parser.stack, V)
      BY <3>1, MoreTerms DEF Counted
    <3>7. upload.graph \in V \/ upload.graph = DefaultGraph
      BY <3>1
    <3> HIDE DEF V
    <3>8. TriplesOver(parser.triples \cup parser.extraTriples, V)
      BY <3>6 DEF TriplesOver
    <3> QED BY <3>4, <3>5, <3>6, <3>7, <3>8
  <2> QED BY <2>3, <2>4
<1> QED BY <1>1, <1>2, <1>3, Invariance, PTL DEF ReadingSpec
=============================================================================
