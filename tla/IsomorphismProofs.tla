------------------------- MODULE IsomorphismProofs -------------------------
(***************************************************************************)
(* The search of Isomorphism answers yes if and only if there is an        *)
(* isomorphism, for any two lists without repeated triples.                *)
(***************************************************************************)
EXTENDS Isomorphism, FiniteSetTheorems, TLAPS

(* A list has as many elements as entries if none is repeated.             *)
LEMMA ListSize ==
  ASSUME NEW S, NEW list \in Seq(S)
  PROVE  /\ IsFiniteSet(Range(list))
         /\ Cardinality(Range(list)) \in Nat
         /\ ~Repeats(list) => Cardinality(Range(list)) = Len(list)
  <1>1. list \in Surjection(1 .. Len(list), Range(list))
    BY DEF Surjection, Range
  <1>2. IsFiniteSet(1 .. Len(list)) /\ Cardinality(1 .. Len(list)) = Len(list)
    <2>1. Len(list) \in Nat /\ 1 \in Int /\ Len(list) \in Int
      OBVIOUS
    <2>2. /\ IsFiniteSet(1 .. Len(list))
          /\ Cardinality(1 .. Len(list)) = IF 1 > Len(list) THEN 0 ELSE Len(list) - 1 + 1
      BY <2>1, FS_Interval, Zenon
    <2> QED BY <2>1, <2>2
  <1>3. /\ IsFiniteSet(Range(list))
        /\ Cardinality(Range(list)) = Cardinality(1 .. Len(list))
             <=> list \in Injection(1 .. Len(list), Range(list))
    BY <1>1, <1>2, FS_Surjection
  <1>4. ~Repeats(list) => list \in Injection(1 .. Len(list), Range(list))
    BY DEF Repeats, Injection, Range
  <1> QED BY <1>2, <1>3, <1>4, FS_CardinalityType

LEMMA InputTyped ==
  ASSUME NEW list \in Input
  PROVE  /\ list \in Seq(Quad)
         /\ IsFiniteSet(Blanks(list))
         /\ Blanks(list) \subseteq Blank
         /\ \A q \in Range(list) : q \in Quad /\ BlanksIn(q) \subseteq Blanks(list)
  BY InputAssumption DEF Blanks, BlanksIn, Range

(* Only the images of the labels of a quad matter to the renamed quad.     *)
LEMMA RenameDependsOnBlanks ==
  ASSUME NEW q \in Quad, NEW m1, NEW m2,
         DOMAIN m1 \subseteq Blank, DOMAIN m2 \subseteq Blank,
         BlanksIn(q) \subseteq DOMAIN m1, BlanksIn(q) \subseteq DOMAIN m2,
         \A x \in BlanksIn(q) : m1[x] = m2[x]
  PROVE  Rename(q, m1) = Rename(q, m2)
  <1>1. \A j \in DOMAIN q.leaves : Image(m1, q.leaves[j]) = Image(m2, q.leaves[j])
    BY DEF Image, BlanksIn, Range
  <1> QED BY <1>1 DEF Rename

LEMMA RenameByNothing ==
  ASSUME NEW q \in Quad, NEW m, BlanksIn(q) = {}, DOMAIN m \subseteq Blank
  PROVE  Rename(q, m) = q
  <1>1. \A j \in DOMAIN q.leaves : Image(m, q.leaves[j]) = q.leaves[j]
    BY DEF Image, BlanksIn, Range
  <1>2. q = [shape |-> q.shape, leaves |-> q.leaves] /\ q.leaves \in Seq(Leaf)
    BY DEF Quad
  <1>3. [j \in DOMAIN q.leaves |-> Image(m, q.leaves[j])] = q.leaves
    BY <1>1, <1>2
  <1> QED BY <1>2, <1>3 DEF Rename

(* Two quads that a bijection of labels makes equal are equal.             *)
LEMMA RenameInjective ==
  ASSUME NEW E \in Input, NEW A \in Input, NEW h \in Bijection(Blanks(E), Blanks(A)),
         NEW q1 \in Range(E), NEW q2 \in Range(E), Rename(q1, h) = Rename(q2, h)
  PROVE  q1 = q2
  <1>1. q1 \in Quad /\ q2 \in Quad
        /\ BlanksIn(q1) \subseteq Blanks(E) /\ BlanksIn(q2) \subseteq Blanks(E)
        /\ Blanks(E) \subseteq Blank /\ Blanks(A) \subseteq Blank
    BY InputTyped
  <1>2. h \in [Blanks(E) -> Blanks(A)] /\ IsInjective(h)
    BY DEF Bijection, Injection
  <1>3. /\ q1 = [shape |-> q1.shape, leaves |-> q1.leaves] /\ q1.leaves \in Seq(Leaf)
        /\ q2 = [shape |-> q2.shape, leaves |-> q2.leaves] /\ q2.leaves \in Seq(Leaf)
    BY <1>1 DEF Quad
  <1>4. /\ q1.shape = q2.shape
        /\ [j \in DOMAIN q1.leaves |-> Image(h, q1.leaves[j])]
             = [j \in DOMAIN q2.leaves |-> Image(h, q2.leaves[j])]
    BY DEF Rename
  <1>5. /\ DOMAIN q1.leaves = DOMAIN q2.leaves
        /\ \A j \in DOMAIN q1.leaves : Image(h, q1.leaves[j]) = Image(h, q2.leaves[j])
    BY <1>4
  <1>6. ASSUME NEW j \in DOMAIN q1.leaves
        PROVE  q1.leaves[j] = q2.leaves[j]
    <2>1. Image(h, q1.leaves[j]) = Image(h, q2.leaves[j])
      BY <1>5
    <2>2. /\ q1.leaves[j] \in Blank => q1.leaves[j] \in DOMAIN h
          /\ q2.leaves[j] \in Blank => q2.leaves[j] \in DOMAIN h
      BY <1>1, <1>2, <1>5 DEF BlanksIn, Range
    <2>3. \A x \in DOMAIN h : h[x] \in Blank /\ x \in Blank
      BY <1>1, <1>2
    <2> QED BY <2>1, <2>2, <2>3, <1>2 DEF Image, IsInjective
  <1>7. q1.leaves = q2.leaves
    BY <1>3, <1>5, <1>6
  <1> QED BY <1>3, <1>4, <1>7

(* A bijection of labels gives as many renamed quads as there were.        *)
LEMMA RenameKeepsSize ==
  ASSUME NEW E \in Input, NEW A \in Input, NEW h \in Bijection(Blanks(E), Blanks(A))
  PROVE  Cardinality(RenameAll(Range(E), h)) = Cardinality(Range(E))
  <1> DEFINE f == [q \in Range(E) |-> Rename(q, h)]
  <1>1. f \in Surjection(Range(E), RenameAll(Range(E), h))
    BY DEF Surjection, RenameAll
  <1>2. f \in Injection(Range(E), RenameAll(Range(E), h))
    BY <1>1, RenameInjective DEF Injection, IsInjective, Surjection
  <1>3. IsFiniteSet(Range(E))
    BY InputTyped, ListSize
  <1> HIDE DEF f
  <1> QED BY <1>1, <1>2, <1>3, FS_Surjection

(* The quick check rejects no isomorphic lists.                            *)
LEMMA IsomorphicSizes ==
  ASSUME expected \in Input, actual \in Input,
         ~Repeats(expected), ~Repeats(actual), Isomorphisms # {}
  PROVE  SameSizes
  <1>1. PICK h \in Bijection(Blanks(expected), Blanks(actual)) :
          RenameAll(Range(expected), h) = Range(actual)
    BY DEF Isomorphisms, Isomorphism
  <1>2. Cardinality(Range(expected)) = Cardinality(Range(actual))
    BY <1>1, RenameKeepsSize
  <1>3. /\ Cardinality(Range(expected)) = Len(expected)
        /\ Cardinality(Range(actual)) = Len(actual)
    BY InputTyped, ListSize
  <1>4. ExistsBijection(Blanks(expected), Blanks(actual))
    BY <1>1 DEF ExistsBijection
  <1>5. Cardinality(Blanks(expected)) = Cardinality(Blanks(actual))
    BY <1>4, InputTyped, FS_Bijection
  <1> QED BY <1>2, <1>3, <1>5 DEF SameSizes

(* Without blank nodes, lists of one length are compared as sets.          *)
LEMMA GroundAnswer ==
  ASSUME expected \in Input, actual \in Input,
         ~Repeats(expected), ~Repeats(actual), SameSizes, Blanks(expected) = {}
  PROVE  SimpleCompare <=> Isomorphisms # {}
  <1>1. Blanks(actual) = {}
    BY InputTyped, FS_EmptySet DEF SameSizes
  <1>2. /\ IsFiniteSet(Range(expected)) /\ IsFiniteSet(Range(actual))
        /\ Cardinality(Range(expected)) = Cardinality(Range(actual))
    BY InputTyped, ListSize DEF SameSizes
  <1>3. SimpleCompare <=> Range(expected) = Range(actual)
    BY <1>2, FS_Subset DEF SimpleCompare
  <1>4. ASSUME NEW h, DOMAIN h \subseteq Blank
        PROVE  RenameAll(Range(expected), h) = Range(expected)
    <2>1. \A q \in Range(expected) : Rename(q, h) = q
      BY <1>4, InputTyped, RenameByNothing
    <2> QED BY <2>1 DEF RenameAll
  <1>5. NoMapping \in Bijection(Blanks(expected), Blanks(actual))
    BY <1>1 DEF NoMapping, Bijection, Injection, Surjection, IsInjective
  <1>6. ASSUME NEW h \in Bijection(Blanks(expected), Blanks(actual))
        PROVE  DOMAIN h \subseteq Blank
    BY InputTyped DEF Bijection, Injection
  <1> QED BY <1>3, <1>4, <1>5, <1>6 DEF Isomorphisms, Isomorphism

-----------------------------------------------------------------------------
(* The search.                                                             *)

(* The steps below the search keep the two lists and their sorted labels.  *)
LEMMA SortedLabels ==
  ASSUME NEW list \in Input, NEW s \in SortedByDegree(list)
  PROVE  /\ s \in Seq(Blank)
         /\ Len(s) = Cardinality(Blanks(list)) /\ Len(s) \in Nat
         /\ s \in Bijection(1 .. Len(s), Blanks(list))
  <1> DEFINE n == Cardinality(Blanks(list))
  <1>1. n \in Nat
    BY InputTyped, FS_CardinalityType
  <1>2. s \in Injection(1 .. n, Blanks(list))
    BY DEF SortedByDegree
  <1>3. IsFiniteSet(1 .. n) /\ Cardinality(1 .. n) = n
    <2>1. 1 \in Int /\ n \in Int
      BY <1>1
    <2>2. /\ IsFiniteSet(1 .. n)
          /\ Cardinality(1 .. n) = IF 1 > n THEN 0 ELSE n - 1 + 1
      BY <2>1, FS_Interval, Zenon
    <2> QED BY <1>1, <2>2
  <1>4. s \in Surjection(1 .. n, Blanks(list))
    BY <1>2, <1>3, InputTyped, FS_Injection
  <1>5. s \in [1 .. n -> Blank]
    BY <1>2, InputTyped DEF Injection
  <1>6. s \in Seq(Blank) /\ Len(s) = n
    BY <1>1, <1>5
  <1> QED BY <1>1, <1>2, <1>4, <1>6 DEF Bijection

LEMMA InitIInv == Init => IInv
  BY DEF Init, IInv, TypeOK, StartsEmpty, CallsAgree, NothingMissed, AnswerIsRight, YesIsRight

LEMMA QuickRejectKeeps == IInv /\ QuickReject => IInv'
  <1> SUFFICES ASSUME IInv, QuickReject PROVE IInv'
    OBVIOUS
  <1>1. TypeOK' /\ StartsEmpty' /\ CallsAgree' /\ NothingMissed' /\ YesIsRight'
    BY DEF IInv, TypeOK, StartsEmpty, CallsAgree, NothingMissed, YesIsRight, QuickReject, Return
  <1>2. ASSUME ~Repeats(expected), ~Repeats(actual)
        PROVE  Isomorphisms = {}
    BY <1>2, IsomorphicSizes DEF IInv, TypeOK, QuickReject
  <1>3. Isomorphisms' = Isomorphisms
    BY DEF QuickReject, Isomorphisms, Isomorphism
  <1>4. AnswerIsRight'
    BY <1>2, <1>3 DEF AnswerIsRight, QuickReject, Return
  <1> QED BY <1>1, <1>4 DEF IInv

LEMMA CompareGroundKeeps == IInv /\ CompareGround => IInv'
  <1> SUFFICES ASSUME IInv, CompareGround PROVE IInv'
    OBVIOUS
  <1>1. TypeOK' /\ StartsEmpty' /\ CallsAgree' /\ NothingMissed' /\ YesIsRight'
    BY DEF IInv, TypeOK, StartsEmpty, CallsAgree, NothingMissed, YesIsRight, CompareGround, Return
  <1>2. ASSUME ~Repeats(expected), ~Repeats(actual)
        PROVE  SimpleCompare <=> Isomorphisms # {}
    BY <1>2, GroundAnswer DEF IInv, TypeOK, CompareGround
  <1>3. Isomorphisms' = Isomorphisms
    BY DEF CompareGround, Isomorphisms, Isomorphism
  <1>4. AnswerIsRight'
    BY <1>2, <1>3 DEF AnswerIsRight, CompareGround, Return
  <1> QED BY <1>1, <1>4 DEF IInv

LEMMA StartSearchKeeps == IInv /\ StartSearch => IInv'
  <1> SUFFICES ASSUME IInv, StartSearch PROVE IInv'
    OBVIOUS
  <1>1. /\ left' \in Seq(Blank) /\ right' \in Seq(Blank)
        /\ Len(left') \in Nat /\ Len(right') \in Nat
        /\ left' \in Bijection(1 .. Len(left'), Blanks(expected))
        /\ right' \in Bijection(1 .. Len(right'), Blanks(actual))
    BY SortedLabels DEF IInv, TypeOK, StartSearch
  <1>2. tried' = <<0>> /\ Len(tried') = 1 /\ tried'[1] = 0
    BY DEF StartSearch
  <1>4. mapping = NoMapping /\ used = {}
    BY DEF StartSearch, IInv, StartsEmpty
  <1>3. TypeOK'
    <2>1. mapping \in [DOMAIN mapping -> Blank]
      BY <1>4 DEF NoMapping
    <2> QED BY <1>1, <1>2, <2>1 DEF IInv, TypeOK, StartSearch, SameSizes, Level
  <1>5. CallsAgree'
    BY <1>2, <1>4 DEF CallsAgree, Level, StartSearch, NoMapping, Range, IsInjective
  <1>6. NothingMissed'
    <2> SUFFICES ASSUME NEW h \in Isomorphisms' PROVE Ahead(h)'
      BY DEF NothingMissed
    <2>1. h \in [Blanks(expected) -> Blanks(actual)]
      BY DEF StartSearch, Isomorphisms, Bijection, Injection
    <2>2. AgreesBelow(h, 1)'
      BY <1>2 DEF AgreesBelow
    <2>3. Untried(h, 1)'
      <3> SUFFICES ASSUME 1 <= Len(left')
                   PROVE  \E p \in 1 .. Len(right') : h[left'[1]] = right'[p]
        BY <1>2 DEF Untried
      <3>1. left'[1] \in Blanks(expected)
        BY <1>1 DEF Bijection, Injection
      <3> QED BY <1>1, <2>1, <3>1 DEF Bijection, Surjection
    <2> QED BY <1>2, <2>2, <2>3 DEF Ahead, Level
  <1>7. StartsEmpty' /\ AnswerIsRight' /\ YesIsRight'
    BY DEF StartsEmpty, AnswerIsRight, YesIsRight, StartSearch
  <1> QED BY <1>3, <1>5, <1>6, <1>7 DEF IInv

(* What the invariant says while the search is under way, in three parts.  *)
Lists ==
  /\ expected \in Input /\ actual \in Input
  /\ SameSizes /\ Blanks(expected) # {}
  /\ left \in Seq(Blank) /\ right \in Seq(Blank)
  /\ Len(left) \in Nat /\ Len(right) \in Nat /\ Len(left) > 0

Labels ==
  /\ \A i, j \in 1 .. Len(left) : left[i] = left[j] => i = j
  /\ \A i, j \in 1 .. Len(right) : right[i] = right[j] => i = j
  /\ \A i \in 1 .. Len(left) : left[i] \in Blanks(expected)
  /\ \A x \in Blanks(expected) : \E i \in 1 .. Len(left) : x = left[i]
  /\ \A p \in 1 .. Len(right) : right[p] \in Blanks(actual)
  /\ \A x \in Blanks(actual) : \E p \in 1 .. Len(right) : x = right[p]

Calls ==
  /\ tried \in Seq(0 .. Len(right)) /\ Level \in 1 .. Len(left) + 1 /\ Level \in Nat
  /\ \A i \in 1 .. Level : tried[i] \in 0 .. Len(right) /\ tried[i] \in Nat
  /\ DOMAIN mapping = {left[i] : i \in 1 .. Level - 1}
  /\ DOMAIN mapping \subseteq Blank /\ DOMAIN mapping \subseteq Blanks(expected)
  /\ mapping \in [DOMAIN mapping -> Blank]
  /\ \A i \in 1 .. Level - 1 :
       tried[i] \in 1 .. Len(right) /\ mapping[left[i]] = right[tried[i]]
  /\ used = Range(mapping) /\ IsInjective(mapping)

LEMMA SearchFacts ==
  ASSUME IInv, phase = "search"
  PROVE  Lists /\ Labels /\ Calls /\ \A h \in Isomorphisms : Ahead(h)
  <1>1. /\ left \in Bijection(1 .. Len(left), Blanks(expected))
        /\ right \in Bijection(1 .. Len(right), Blanks(actual))
    BY DEF IInv, TypeOK
  <1>2. Labels
    BY <1>1 DEF Labels, Bijection, Injection, Surjection, IsInjective
  <1>3. Lists
    <2>1. Len(left) \in Nat /\ Len(right) \in Nat
      BY DEF IInv, TypeOK
    <2>2. Len(left) > 0
      BY <1>2, <2>1 DEF Labels, IInv, TypeOK
    <2> QED BY <2>1, <2>2 DEF Lists, IInv, TypeOK
  <1>4. /\ tried \in Seq(0 .. Len(right)) /\ Level \in 1 .. Len(left) + 1 /\ Level \in Nat
        /\ \A i \in 1 .. Level : tried[i] \in 0 .. Len(right) /\ tried[i] \in Nat
    BY <1>3 DEF IInv, TypeOK, Level, Lists
  <1>5. CallsAgree
    BY DEF IInv
  <1>6. DOMAIN mapping = {left[i] : i \in 1 .. Level - 1}
    BY <1>5 DEF CallsAgree
  <1>7. DOMAIN mapping \subseteq Blanks(expected) /\ Blanks(expected) \subseteq Blank
    BY <1>2, <1>3, <1>4, <1>6, InputTyped DEF Labels, Lists
  <1>8. Calls
    <2>1. mapping \in [DOMAIN mapping -> Blank]
      BY DEF IInv, TypeOK
    <2> QED BY <1>4, <1>5, <1>6, <1>7, <2>1 DEF Calls, CallsAgree
  <1> QED BY <1>2, <1>3, <1>8 DEF IInv, NothingMissed

(* An isomorphism gives every label of expected a label of actual.         *)
LEMMA IsomorphismMaps ==
  ASSUME Labels, NEW h \in Isomorphisms
  PROVE  /\ \A x \in Blanks(expected) :
              h[x] \in Blanks(actual) /\ \E p \in 1 .. Len(right) : h[x] = right[p]
         /\ \A x, y \in Blanks(expected) : h[x] = h[y] => x = y
         /\ h \in [Blanks(expected) -> Blanks(actual)]
  BY DEF Isomorphisms, Bijection, Injection, IsInjective, Labels

(* The label of the innermost call has no image yet.                       *)
LEMMA CurrentIsNew ==
  ASSUME Lists, Labels, Calls, NEW l \in 1 .. Len(left), l = Level
  PROVE  DOMAIN mapping = {left[i] : i \in 1 .. l - 1} /\ left[l] \notin DOMAIN mapping
  <1>1. DOMAIN mapping = {left[i] : i \in 1 .. l - 1}
    BY DEF Calls
  <1>2. \A i \in 1 .. l - 1 : left[i] # left[l]
    <2> SUFFICES ASSUME NEW i \in 1 .. l - 1 PROVE left[i] # left[l]
      OBVIOUS
    <2>1. i \in 1 .. Len(left) /\ i # l
      BY DEF Lists
    <2> QED BY <2>1 DEF Labels
  <1> QED BY <1>1, <1>2

LEMMA EntryChanged ==
  ASSUME NEW S, NEW s \in Seq(S), NEW i \in 1 .. Len(s), NEW x \in S
  PROVE  [s EXCEPT ![i] = x] \in Seq(S) /\ Len([s EXCEPT ![i] = x]) = Len(s)
  <1>1. [s EXCEPT ![i] = x] \in [1 .. Len(s) -> S]
    OBVIOUS
  <1> QED BY <1>1

LEMMA AssignKeeps == IInv /\ Assign => IInv'
  <1> SUFFICES ASSUME IInv, Assign PROVE IInv'
    OBVIOUS
  <1>0. /\ phase = "search" /\ phase' = "search" /\ answer' = answer
        /\ expected' = expected /\ actual' = actual /\ left' = left /\ right' = right
        /\ Isomorphisms' = Isomorphisms
    BY DEF Assign, HasCandidate, Isomorphisms, Isomorphism
  <1>f. Lists /\ Labels /\ Calls /\ \A h \in Isomorphisms : Ahead(h)
    BY <1>0, SearchFacts
  <1>l. PICK l \in Nat, c \in Nat : l = Level /\ c = tried[l] + 1
    BY <1>f DEF Calls
  <1>1. /\ l \in 1 .. Len(left) /\ c \in 1 .. Len(right)
        /\ Current = left[l] /\ Candidate = right[c]
        /\ right[c] \notin used
    BY <1>f, <1>l DEF Assign, HasCandidate, Fits, Current, Candidate, Lists, Calls
  <1>2. /\ tried' \in Seq(0 .. Len(right)) /\ Level' = l + 1
        /\ tried'[l] = c /\ tried'[l + 1] = 0
        /\ \A i \in 1 .. l - 1 : tried'[i] = tried[i]
    <2>1. tried \in Seq(0 .. Len(right)) /\ Len(tried) = l /\ c \in 0 .. Len(right)
          /\ 0 \in 0 .. Len(right)
      BY <1>f, <1>l, <1>1 DEF Calls, Level, Lists
    <2>2. tried' = Append([tried EXCEPT ![l] = c], 0)
      BY <1>l DEF Assign, OneMoreTried
    <2>3. /\ [tried EXCEPT ![l] = c] \in Seq(0 .. Len(right))
          /\ Len([tried EXCEPT ![l] = c]) = l
      BY <1>1, <2>1, EntryChanged
    <2> QED BY <2>1, <2>2, <2>3, <1>1 DEF Level
  <1>3. TypeOK'
    <2>1. Level' \in 1 .. Len(left) + 1
      BY <1>1, <1>2, <1>f DEF Lists
    <2>2. mapping' \in [DOMAIN mapping' -> Blank]
      <3>1. /\ mapping' = Assigned(mapping, left[l], right[c]) /\ right[c] \in Blank
            /\ mapping \in [DOMAIN mapping -> Blank]
        BY <1>1, <1>f DEF Assign, Try, Lists, Calls
      <3> QED BY <3>1 DEF Assigned
    <2> QED BY <1>0, <1>2, <1>f, <2>1, <2>2 DEF IInv, TypeOK, SameSizes, Lists
  <1>4. DOMAIN mapping = {left[i] : i \in 1 .. l - 1} /\ left[l] \notin DOMAIN mapping
    BY <1>f, <1>l, <1>1, CurrentIsNew
  <1>6. /\ DOMAIN mapping' = DOMAIN mapping \cup {left[l]}
        /\ mapping'[left[l]] = right[c]
        /\ \A x \in DOMAIN mapping : mapping'[x] = mapping[x]
    BY <1>1, <1>4 DEF Assign, Try, Assigned
  <1>m. \A i \in 1 .. l - 1 : left[i] \in DOMAIN mapping /\ mapping'[left[i]] = mapping[left[i]]
    BY <1>4, <1>6
  <1>7. CallsAgree'
    <2>1. \A i \in 1 .. l : tried'[i] \in 1 .. Len(right) /\ mapping'[left[i]] = right[tried'[i]]
      <3> SUFFICES ASSUME NEW i \in 1 .. l
                   PROVE  tried'[i] \in 1 .. Len(right) /\ mapping'[left[i]] = right[tried'[i]]
        OBVIOUS
      <3>1. CASE i = l
        BY <3>1, <1>1, <1>2, <1>6
      <3>2. CASE i \in 1 .. l - 1
        BY <3>2, <1>l, <1>2, <1>m, <1>f DEF Calls
      <3> QED BY <3>1, <3>2
    <2>2. DOMAIN mapping' = {left[i] : i \in 1 .. l}
      BY <1>1, <1>4, <1>6
    <2>4. used' = Range(mapping')
      <3>1. used' = used \cup {right[c]} /\ used = Range(mapping)
        BY <1>1, <1>f DEF Assign, Calls
      <3> QED BY <3>1, <1>6 DEF Range
    <2>5. IsInjective(mapping')
      <3>1. IsInjective(mapping) /\ \A x \in DOMAIN mapping : mapping[x] # right[c]
        BY <1>1, <1>f DEF Calls, Range
      <3> QED BY <3>1, <1>6 DEF IsInjective
    <2>6. Level' - 1 = l
      BY <1>2
    <2> QED BY <1>0, <2>1, <2>2, <2>4, <2>5, <2>6 DEF CallsAgree
  <1>8. NothingMissed'
    <2> SUFFICES ASSUME NEW h \in Isomorphisms PROVE Ahead(h)'
      BY <1>0 DEF NothingMissed
    <2>2. PICK k \in 1 .. l : AgreesBelow(h, k) /\ Untried(h, k)
      BY <1>l, <1>f DEF Ahead
    <2>4. AgreesBelow(h, k)'
      BY <1>0, <1>m, <2>2 DEF AgreesBelow
    <2>5. PICK p \in tried[k] + 1 .. Len(right) : h[left[k]] = right[p]
      BY <1>1, <2>2 DEF Untried
    <2>t. tried[k] \in Nat
      BY <1>l, <2>2, <1>f DEF Calls
    <2>6. CASE k < l \/ p > c
      <3>1. p \in tried'[k] + 1 .. Len(right)
        <4>1. CASE k < l
          <5>1. tried'[k] = tried[k]
            BY <1>l, <1>2, <2>2, <4>1
          <5> QED BY <2>5, <5>1
        <4>2. CASE k = l
          <5>1. tried'[k] = c /\ p > c
            BY <1>2, <2>6, <4>2
          <5> QED BY <1>l, <2>5, <5>1
        <4> QED BY <2>2, <4>1, <4>2
      <3>2. Untried(h, k)'
        BY <1>0, <2>5, <3>1 DEF Untried
      <3>3. k \in 1 .. Level'
        BY <1>2, <2>2
      <3> QED BY <2>4, <3>2, <3>3 DEF Ahead
    <2>7. CASE k = l /\ p = c
      <3> DEFINE n == l + 1
      <3>1. AgreesBelow(h, l + 1)'
        <4>1. \A i \in 1 .. l : h[left[i]] = mapping'[left[i]]
          BY <1>0, <1>6, <2>4, <2>5, <2>7 DEF AgreesBelow
        <4> QED BY <1>0, <4>1 DEF AgreesBelow
      <3>2. Untried(h, l + 1)'
        <4> SUFFICES ASSUME l + 1 <= Len(left)
                     PROVE  \E r \in 1 .. Len(right) : h[left[l + 1]] = right[r]
          BY <1>0, <1>2 DEF Untried
        <4>1. left[l + 1] \in Blanks(expected)
          BY <1>1, <1>f DEF Labels
        <4> QED BY <1>f, <4>1, IsomorphismMaps
      <3>3. l + 1 \in 1 .. Level'
        BY <1>2
      <3> QED BY <3>1, <3>2, <3>3 DEF Ahead
    <2> QED BY <1>l, <2>2, <2>5, <2>t, <2>6, <2>7
  <1>9. StartsEmpty' /\ AnswerIsRight' /\ YesIsRight'
    BY <1>0 DEF StartsEmpty, AnswerIsRight, YesIsRight
  <1> QED BY <1>3, <1>7, <1>8, <1>9 DEF IInv

LEMMA SkipKeeps == IInv /\ Skip => IInv'
  <1> SUFFICES ASSUME IInv, Skip PROVE IInv'
    OBVIOUS
  <1>0. /\ phase = "search" /\ phase' = "search" /\ answer' = answer
        /\ expected' = expected /\ actual' = actual /\ left' = left /\ right' = right
        /\ mapping' = mapping /\ used' = used
        /\ Isomorphisms' = Isomorphisms
    BY DEF Skip, HasCandidate, Isomorphisms, Isomorphism
  <1>f. Lists /\ Labels /\ Calls /\ \A h \in Isomorphisms : Ahead(h)
    BY <1>0, SearchFacts
  <1>l. PICK l \in Nat, c \in Nat : l = Level /\ c = tried[l] + 1
    BY <1>f DEF Calls
  <1>1. /\ l \in 1 .. Len(left) /\ c \in 1 .. Len(right)
        /\ Current = left[l] /\ Candidate = right[c]
        /\ right[c] \in used \/ ~ConsistentSoFar(Try)
        /\ Try = Assigned(mapping, left[l], right[c])
    BY <1>f, <1>l DEF Skip, HasCandidate, Fits, Current, Candidate, Lists, Calls, Try
  <1>2. /\ tried' \in Seq(0 .. Len(right)) /\ Level' = l
        /\ tried'[l] = c /\ \A i \in 1 .. l - 1 : tried'[i] = tried[i]
    <2>1. tried \in Seq(0 .. Len(right)) /\ Len(tried) = l /\ c \in 0 .. Len(right)
      BY <1>f, <1>l, <1>1 DEF Calls, Level, Lists
    <2>2. tried' = [tried EXCEPT ![l] = c]
      BY <1>l DEF Skip, OneMoreTried
    <2> QED BY <2>1, <2>2, <1>1, EntryChanged DEF Level
  <1>3. TypeOK'
    <2>1. Level' \in 1 .. Len(left) + 1
      BY <1>1, <1>2, <1>f DEF Lists
    <2> QED BY <1>0, <1>2, <1>f, <2>1 DEF IInv, TypeOK, SameSizes, Lists
  <1>4. CallsAgree'
    <2>1. \A i \in 1 .. l - 1 : tried'[i] = tried[i]
      BY <1>2
    <2> QED BY <1>0, <1>l, <1>2, <2>1, <1>f DEF Calls, CallsAgree
  <1>5. ASSUME NEW h \in Isomorphisms, AgreesBelow(h, l)
        PROVE  h[left[l]] # right[c]
    <2> SUFFICES ASSUME h[left[l]] = right[c] PROVE FALSE
      OBVIOUS
    <2>1. DOMAIN mapping = {left[i] : i \in 1 .. l - 1} /\ left[l] \notin DOMAIN mapping
      BY <1>f, <1>l, <1>1, CurrentIsNew
    <2>2. \A x \in DOMAIN mapping : h[x] = mapping[x]
      BY <2>1, <1>5 DEF AgreesBelow
    <2>3. CASE right[c] \in used
      <3>1. PICK x \in DOMAIN mapping : mapping[x] = right[c]
        BY <2>3, <1>f DEF Calls, Range
      <3>2. x \in Blanks(expected) /\ left[l] \in Blanks(expected)
        BY <1>f, <1>1 DEF Calls, Labels
      <3> QED BY <2>1, <2>2, <3>1, <3>2, <1>f, IsomorphismMaps
    <2>4. CASE ~ConsistentSoFar(Try)
      <3>1. PICK q \in Range(expected) :
              BlanksIn(q) \subseteq DOMAIN Try /\ Rename(q, Try) \notin Range(actual)
        BY <2>4 DEF ConsistentSoFar
      <3>2. DOMAIN Try = DOMAIN mapping \cup {left[l]}
            /\ \A x \in DOMAIN Try : Try[x] = h[x]
        BY <1>1, <2>1, <2>2 DEF Assigned
      <3>3. q \in Quad /\ BlanksIn(q) \subseteq Blanks(expected)
            /\ Blanks(expected) \subseteq Blank /\ left[l] \in Blanks(expected)
        BY <1>f, <1>1, InputTyped DEF Lists, Labels
      <3>4. DOMAIN h = Blanks(expected) /\ DOMAIN Try \subseteq Blank
        BY <1>f, <3>2, <3>3, IsomorphismMaps DEF Calls
      <3>5. Rename(q, Try) = Rename(q, h)
        BY <3>1, <3>2, <3>3, <3>4, RenameDependsOnBlanks
      <3>6. Rename(q, h) \in Range(actual)
        BY DEF Isomorphisms, Isomorphism, RenameAll
      <3> QED BY <3>1, <3>5, <3>6
    <2> QED BY <1>1, <2>3, <2>4
  <1>6. NothingMissed'
    <2> SUFFICES ASSUME NEW h \in Isomorphisms PROVE Ahead(h)'
      BY <1>0 DEF NothingMissed
    <2>1. PICK k \in 1 .. l : AgreesBelow(h, k) /\ Untried(h, k)
      BY <1>l, <1>f DEF Ahead
    <2>2. AgreesBelow(h, k)' /\ k \in 1 .. Level'
      BY <1>0, <1>2, <2>1 DEF AgreesBelow
    <2>3. PICK p \in tried[k] + 1 .. Len(right) : h[left[k]] = right[p]
      BY <1>1, <2>1 DEF Untried
    <2>4. tried[k] \in Nat
      BY <1>l, <2>1, <1>f DEF Calls
    <2>5. k < l \/ p > c
      BY <1>5, <1>l, <2>1, <2>3, <2>4
    <2>6. p \in tried'[k] + 1 .. Len(right)
      <3>1. CASE k < l
        <4>1. tried'[k] = tried[k]
          BY <1>l, <1>2, <2>1, <3>1
        <4> QED BY <2>3, <4>1
      <3>2. CASE k = l
        <4>1. tried'[k] = c /\ p > c
          BY <1>2, <2>5, <3>2
        <4> QED BY <1>l, <2>3, <4>1
      <3> QED BY <2>1, <3>1, <3>2
    <2>7. Untried(h, k)'
      BY <1>0, <2>3, <2>6 DEF Untried
    <2> QED BY <2>2, <2>7 DEF Ahead
  <1>7. StartsEmpty' /\ AnswerIsRight' /\ YesIsRight'
    BY <1>0 DEF StartsEmpty, AnswerIsRight, YesIsRight
  <1> QED BY <1>3, <1>4, <1>6, <1>7 DEF IInv

(* A call that fails when every isomorphism lies ahead of an outer call.   *)
LEMMA FailKeeps ==
  ASSUME IInv, phase = "search", Fail, UNCHANGED <<expected, actual, left, right>>,
         \A h \in Isomorphisms : \E k \in 1 .. Level - 1 : AgreesBelow(h, k) /\ Untried(h, k)
  PROVE  IInv'
  <1>0. /\ expected' = expected /\ actual' = actual /\ left' = left /\ right' = right
        /\ Isomorphisms' = Isomorphisms
    BY DEF Isomorphisms, Isomorphism
  <1>f. Lists /\ Labels /\ Calls
    BY SearchFacts
  <1>l. PICK l \in Nat : l = Level
    BY <1>f DEF Calls
  <1>1. CASE l = 1
    <2>1. Isomorphisms = {}
      BY <1>l, <1>1
    <2>2. phase' = "done" /\ answer' = "no"
      BY <1>l, <1>1 DEF Fail, Return
    <2> QED BY <1>0, <1>f, <2>1, <2>2
         DEF IInv, TypeOK, StartsEmpty, CallsAgree, NothingMissed, AnswerIsRight, YesIsRight, Lists
  <1>2. CASE l # 1
    <2>1. /\ l - 1 \in 1 .. Len(left) /\ l - 1 \in Nat /\ phase' = "search" /\ answer' = answer
          /\ mapping' = Restrict(mapping, DOMAIN mapping \ {left[l - 1]})
          /\ used' = used \ {mapping[left[l - 1]]}
          /\ tried' = SubSeq(tried, 1, l - 1)
      BY <1>l, <1>2, <1>f DEF Fail, Calls, Lists
    <2>2. /\ tried' \in Seq(0 .. Len(right)) /\ Level' = l - 1
          /\ \A i \in 1 .. l - 1 : tried'[i] = tried[i]
      <3>1. tried \in Seq(0 .. Len(right)) /\ Len(tried) = l
        BY <1>f, <1>l DEF Calls, Level
      <3> QED BY <2>1, <3>1 DEF Level
    <2>3. TypeOK'
      <3>1. Level' \in 1 .. Len(left) + 1
        BY <2>1, <2>2, <1>f DEF Lists
      <3>2. mapping' \in [DOMAIN mapping' -> Blank]
        BY <2>1, <1>f DEF Restrict, Calls
      <3> QED BY <1>0, <2>1, <2>2, <3>1, <3>2, <1>f DEF IInv, TypeOK, SameSizes, Lists
    <2>4. DOMAIN mapping = {left[i] : i \in 1 .. l - 1} /\ IsInjective(mapping)
      BY <1>f, <1>l DEF Calls
    <2>5. DOMAIN mapping' = {left[i] : i \in 1 .. l - 2}
      <3>1. \A i \in 1 .. l - 1 : left[i] = left[l - 1] <=> i = l - 1
        <4> SUFFICES ASSUME NEW i \in 1 .. l - 1, left[i] = left[l - 1]
                     PROVE  i = l - 1
          OBVIOUS
        <4>1. i \in 1 .. Len(left) /\ l - 1 \in 1 .. Len(left)
          BY <2>1, <1>f DEF Lists
        <4> QED BY <4>1, <1>f DEF Labels
      <3>2. DOMAIN mapping' = DOMAIN mapping \ {left[l - 1]}
        BY <2>1 DEF Restrict
      <3>3. \A i \in 1 .. l - 1 : i # l - 1 <=> i \in 1 .. l - 2
        BY <2>1
      <3>4. 1 .. l - 2 \subseteq 1 .. l - 1
        BY <2>1
      <3>5. \A x : x \in DOMAIN mapping' <=> \E i \in 1 .. l - 2 : x = left[i]
        <4>1. \A x : x \in DOMAIN mapping' <=> \E i \in 1 .. l - 1 : x = left[i] /\ i # l - 1
          BY <2>4, <3>1, <3>2
        <4> QED BY <3>3, <3>4, <4>1, Zenon
      <3> QED BY <3>5
    <2>6. \A x \in DOMAIN mapping' : mapping'[x] = mapping[x] /\ x \in DOMAIN mapping /\ x # left[l - 1]
      BY <2>1 DEF Restrict
    <2>7. CallsAgree'
      <3>1. \A i \in 1 .. l - 2 : tried'[i] \in 1 .. Len(right) /\ mapping'[left[i]] = right[tried'[i]]
        <4> SUFFICES ASSUME NEW i \in 1 .. l - 2
                     PROVE  tried'[i] \in 1 .. Len(right) /\ mapping'[left[i]] = right[tried'[i]]
          OBVIOUS
        <4>1. left[i] \in DOMAIN mapping' /\ i \in 1 .. l - 1
          BY <2>1, <2>5
        <4> QED BY <1>l, <2>2, <2>6, <4>1, <1>f DEF Calls
      <3>2. used' = Range(mapping')
        <4>1. left[l - 1] \in DOMAIN mapping
          BY <2>1, <2>4
        <4>2. used = Range(mapping) /\ DOMAIN mapping' = DOMAIN mapping \ {left[l - 1]}
          BY <2>1, <1>f DEF Calls, Restrict
        <4>3. \A x \in DOMAIN mapping : x # left[l - 1] => mapping[x] # mapping[left[l - 1]]
          BY <2>4, <4>1 DEF IsInjective
        <4>4. \A v : v \in used' <=> \E x \in DOMAIN mapping : v = mapping[x] /\ x # left[l - 1]
          BY <2>1, <4>1, <4>2, <4>3 DEF Range
        <4>5. \A v : v \in Range(mapping') <=> \E x \in DOMAIN mapping' : v = mapping'[x]
          BY DEF Range
        <4>6. \A v : v \in used' <=> v \in Range(mapping')
          BY <2>6, <4>2, <4>4, <4>5
        <4> QED BY <4>6
      <3>3. IsInjective(mapping')
        BY <2>4, <2>6 DEF IsInjective
      <3>4. Level' - 1 = l - 2
        BY <2>2, <2>1
      <3> QED BY <1>0, <2>5, <3>1, <3>2, <3>3, <3>4 DEF CallsAgree
    <2>8. NothingMissed'
      <3> SUFFICES ASSUME NEW h \in Isomorphisms PROVE Ahead(h)'
        BY <1>0 DEF NothingMissed
      <3>1. PICK k \in 1 .. l - 1 : AgreesBelow(h, k) /\ Untried(h, k)
        BY <1>l
      <3>2. AgreesBelow(h, k)'
        <4>1. \A i \in 1 .. k - 1 : left[i] \in DOMAIN mapping'
          BY <2>1, <2>5, <3>1
        <4> QED BY <1>0, <2>6, <3>1, <4>1 DEF AgreesBelow
      <3>3. Untried(h, k)'
        BY <1>0, <2>2, <3>1 DEF Untried
      <3>4. k \in 1 .. Level'
        BY <2>2, <3>1
      <3> QED BY <3>2, <3>3, <3>4 DEF Ahead
    <2>9. StartsEmpty' /\ AnswerIsRight' /\ YesIsRight'
      BY <2>1 DEF StartsEmpty, AnswerIsRight, YesIsRight
    <2> QED BY <2>3, <2>7, <2>8, <2>9 DEF IInv
  <1> QED BY <1>1, <1>2

LEMMA ExhaustedKeeps == IInv /\ Exhausted => IInv'
  <1> SUFFICES ASSUME IInv, Exhausted PROVE IInv'
    OBVIOUS
  <1>1. /\ phase = "search" /\ Fail /\ UNCHANGED <<expected, actual, left, right>>
        /\ Level <= Len(left) /\ tried[Level] = Len(right)
    BY DEF Exhausted
  <1>f. Lists /\ Labels /\ Calls /\ \A h \in Isomorphisms : Ahead(h)
    BY <1>1, SearchFacts
  <1>2. ASSUME NEW h \in Isomorphisms
        PROVE  \E k \in 1 .. Level - 1 : AgreesBelow(h, k) /\ Untried(h, k)
    <2>1. PICK k \in 1 .. Level : AgreesBelow(h, k) /\ Untried(h, k)
      BY <1>f DEF Ahead
    <2>2. k # Level
      BY <1>1, <1>f, <2>1 DEF Untried, Lists
    <2>3. k \in 1 .. Level - 1
      BY <2>2, <1>f DEF Calls
    <2> QED BY <2>1, <2>3
  <1> HIDE DEF Ahead
  <1> QED BY <1>1, <1>2, FailKeeps

(* With every label mapped, verifyMapping decides whether the mapping is   *)
(* an isomorphism.                                                         *)
LEMMA VerifyDecides ==
  ASSUME Lists, Labels, Calls, Level = Len(left) + 1
  PROVE  VerifyMapping(mapping) <=> mapping \in Isomorphisms
  <1> DEFINE E == Blanks(expected)
             A == Blanks(actual)
             renamed == RenameAll(Range(expected), mapping)
  <1>1. DOMAIN mapping = E
    <2>1. Level - 1 = Len(left)
      BY DEF Lists
    <2> QED BY <2>1 DEF Labels, Calls
  <1>2. \A x \in E : mapping[x] \in A
    <2>1. \A i \in 1 .. Len(left) : mapping[left[i]] \in A
      BY DEF Lists, Labels, Calls
    <2> QED BY <2>1 DEF Labels
  <1>3. mapping \in Injection(E, A)
    BY <1>1, <1>2 DEF Calls, Injection, IsInjective
  <1>4. IsFiniteSet(E) /\ IsFiniteSet(A) /\ Cardinality(E) = Cardinality(A)
    BY InputTyped DEF Lists, SameSizes
  <1>5. mapping \in Surjection(E, A)
    <2> HIDE DEF E, A
    <2> QED BY <1>3, <1>4, FS_Injection
  <1>6. mapping \in Bijection(E, A)
    BY <1>3, <1>5 DEF Bijection
  <1>7. IsFiniteSet(Range(actual))
    BY InputTyped, ListSize DEF Lists
  <1>8. renamed = Range(actual)
          <=> renamed \subseteq Range(actual) /\ Cardinality(renamed) = Cardinality(Range(actual))
    <2> HIDE DEF renamed
    <2> QED BY <1>7, FS_Subset
  <1> QED BY <1>6, <1>8 DEF VerifyMapping, Isomorphisms, Isomorphism

LEMMA VerifyKeeps == IInv /\ Verify => IInv'
  <1> SUFFICES ASSUME IInv, Verify PROVE IInv'
    OBVIOUS
  <1>0. /\ phase = "search" /\ Level = Len(left) + 1
        /\ expected' = expected /\ actual' = actual /\ left' = left /\ right' = right
        /\ UNCHANGED <<expected, actual, left, right>>
        /\ Isomorphisms' = Isomorphisms
    BY DEF Verify, Isomorphisms, Isomorphism
  <1>f. Lists /\ Labels /\ Calls /\ \A h \in Isomorphisms : Ahead(h)
    BY <1>0, SearchFacts
  <1>1. CASE VerifyMapping(mapping)
    <2>1. Isomorphisms # {}
      BY <1>0, <1>1, <1>f, VerifyDecides
    <2>2. phase' = "done" /\ answer' = "yes"
      BY <1>1 DEF Verify, Return
    <2> QED BY <1>0, <1>f, <2>1, <2>2
         DEF IInv, TypeOK, StartsEmpty, CallsAgree, NothingMissed, AnswerIsRight, YesIsRight, Lists
  <1>2. CASE ~VerifyMapping(mapping)
    <2>1. mapping \notin Isomorphisms
      BY <1>0, <1>2, <1>f, VerifyDecides
    <2>2. ASSUME NEW h \in Isomorphisms
          PROVE  \E k \in 1 .. Level - 1 : AgreesBelow(h, k) /\ Untried(h, k)
      <3>1. PICK k \in 1 .. Level : AgreesBelow(h, k) /\ Untried(h, k)
        BY <1>f DEF Ahead
      <3>2. ASSUME k = Level PROVE FALSE
        <4>1. Level - 1 = Len(left)
          BY <1>0, <1>f DEF Lists
        <4>2. DOMAIN mapping = Blanks(expected)
          BY <4>1, <1>f DEF Calls, Labels
        <4>3. \A i \in 1 .. Len(left) : h[left[i]] = mapping[left[i]]
          BY <3>1, <3>2, <4>1 DEF AgreesBelow
        <4>4. \A x \in Blanks(expected) : h[x] = mapping[x]
          BY <4>3, <1>f DEF Labels
        <4>5. h = mapping
          <5>1. /\ h \in [Blanks(expected) -> Blanks(actual)]
                /\ mapping \in [Blanks(expected) -> Blank]
            BY <4>2, <1>f, IsomorphismMaps DEF Calls
          <5> QED BY <4>4, <5>1
        <4> QED BY <2>1, <4>5
      <3>3. k \in 1 .. Level - 1
        BY <3>2, <1>f DEF Calls
      <3> QED BY <3>1, <3>3
    <2>3. Fail
      BY <1>2 DEF Verify
    <2> HIDE DEF Ahead
    <2> QED BY <1>0, <2>2, <2>3, FailKeeps
  <1> QED BY <1>1, <1>2

-----------------------------------------------------------------------------
LEMMA StutterKeeps == IInv /\ UNCHANGED vars => IInv'
  <1> SUFFICES ASSUME IInv, UNCHANGED vars PROVE IInv'
    OBVIOUS
  <1>1. Isomorphisms' = Isomorphisms
    BY DEF vars, Isomorphisms, Isomorphism
  <1>2. TypeOK' /\ StartsEmpty' /\ CallsAgree' /\ AnswerIsRight' /\ YesIsRight'
    BY <1>1 DEF IInv, vars, TypeOK, StartsEmpty, CallsAgree, AnswerIsRight, YesIsRight,
                SameSizes, Level
  <1>3. NothingMissed'
    BY <1>1 DEF IInv, vars, NothingMissed, Ahead, AgreesBelow, Untried, Level
  <1> QED BY <1>2, <1>3 DEF IInv

(* Whatever backtrack, its pruning and its undoing do, every isomorphism   *)
(* of the two lists still lies ahead of some call.                         *)
THEOREM SearchInvariance == Spec => []IInv
  <1>1. IInv /\ [Next]_vars => IInv'
    BY QuickRejectKeeps, CompareGroundKeeps, StartSearchKeeps, AssignKeeps, SkipKeeps,
       ExhaustedKeeps, VerifyKeeps, StutterKeeps DEF Next
  <1> QED BY InitIInv, <1>1, PTL DEF Spec

(* AreGraphsIsomorphic and AreQuadsIsomorphic answer true exactly when a   *)
(* bijection of blank nodes makes the lists equal, for any lists without   *)
(* repeated triples, of any length and with any number of blank nodes.     *)
THEOREM ComparisonIsRight == Spec => []AnswerIsRight
  <1>1. IInv => AnswerIsRight
    BY DEF IInv
  <1> QED BY SearchInvariance, <1>1, PTL

(* An answer of true that the search gives has a bijection behind it even  *)
(* when triples are repeated.                                              *)
THEOREM SearchYesIsRight == Spec => []YesIsRight
  <1>1. IInv => YesIsRight
    BY DEF IInv
  <1> QED BY SearchInvariance, <1>1, PTL
=============================================================================
