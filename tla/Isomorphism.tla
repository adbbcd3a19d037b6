---------------------------- MODULE Isomorphism ----------------------------
(***************************************************************************)
(* AreGraphsIsomorphic and AreQuadsIsomorphic (pkg/rdf/isomorphism.go):    *)
(* two lists of triples or quads are compared up to the labels of their    *)
(* blank nodes, by a backtracking search for a mapping from the labels of  *)
(* the one to the labels of the other.                                     *)
(*                                                                         *)
(* A quad is the sequence of the simple terms in it, those inside triple   *)
(* terms included, and its shape: how they nest, and the predicate, which  *)
(* is never a blank node.  Two quads have one tripleKey when they are the  *)
(* same; that the texts of two different terms differ is taken for granted.*)
(***************************************************************************)
EXTENDS Integers, Sequences, FiniteSets, Functions

CONSTANTS
  Shape,   \* how the terms of a quad nest
  Leaf,    \* the simple terms
  Blank,   \* the blank nodes among them
  Input    \* the lists that are compared

VARIABLES
  expected, actual,  \* the two lists
  phase,             \* start, search or done
  answer,            \* the result: none, yes or no
  left, right,       \* expectedBlanks and actualBlanks, as sorted
  tried,             \* one entry for each call of backtrack under way: how
                     \* many candidates its loop has been through
  mapping,           \* from labels of expected to labels of actual
  used               \* usedTargets

vars == <<expected, actual, phase, answer, left, right, tried, mapping, used>>

Quad == [shape : Shape, leaves : Seq(Leaf)]

(* extractBlankNodeLabels: the recursion ends at the leaves. *)
BlanksIn(q) == Range(q.leaves) \cap Blank

Blanks(list) == UNION {BlanksIn(list[i]) : i \in DOMAIN list}

ASSUME InputAssumption ==
  /\ Blank \subseteq Leaf
  /\ \A list \in Input : list \in Seq(Quad) /\ IsFiniteSet(Blanks(list))

NoMapping == [b \in {} |-> b]

Assigned(m, b, t) == [x \in DOMAIN m \cup {b} |-> IF x = b THEN t ELSE m[x]]

(* termString with a mapping: labels without an image stay. *)
Image(m, x) == IF x \in DOMAIN m THEN m[x] ELSE x

Rename(q, m) == [shape |-> q.shape, leaves |-> [j \in DOMAIN q.leaves |-> Image(m, q.leaves[j])]]

RenameAll(quads, m) == {Rename(q, m) : q \in quads}

(* sortByDegree: by the number of occurrences; sort.Slice may leave labels *)
(* of one degree in any order.                                             *)
Occurrences(list) == UNION {{i} \X (DOMAIN list[i].leaves) : i \in DOMAIN list}

Degree(list, b) ==
  Cardinality({at \in Occurrences(list) : list[at[1]].leaves[at[2]] = b})

SortedByDegree(list) ==
  {s \in Injection(1 .. Cardinality(Blanks(list)), Blanks(list)) :
     \A i, j \in DOMAIN s : i < j => Degree(list, s[i]) >= Degree(list, s[j])}

(* simpleCompare: only the triples of actual are looked up. *)
SimpleCompare == Range(actual) \subseteq Range(expected)

(* Mutant of ConsistentSoFar: one mapped label is enough to look a quad up. *)
ConsistentTooSoon(m) ==
  \A q \in Range(expected) : BlanksIn(q) \cap DOMAIN m # {} => Rename(q, m) \in Range(actual)

(* isConsistentSoFar: the quads all of whose labels are mapped. *)
ConsistentSoFar(m) ==
  \A q \in Range(expected) : BlanksIn(q) \subseteq DOMAIN m => Rename(q, m) \in Range(actual)

(* Mutant of VerifyMapping: the sizes are not compared. *)
VerifySubset(m) == RenameAll(Range(expected), m) \subseteq Range(actual)

VerifyMapping(m) ==
  LET expectedMapped == RenameAll(Range(expected), m)
  IN  /\ Cardinality(expectedMapped) = Cardinality(Range(actual))
      /\ expectedMapped \subseteq Range(actual)

-----------------------------------------------------------------------------
Init ==
  /\ expected \in Input
  /\ actual \in Input
  /\ phase = "start" /\ answer = "none"
  /\ left = <<>> /\ right = <<>>
  /\ tried = <<>>
  /\ mapping = NoMapping /\ used = {}

Return(value) ==
  /\ phase' = "done"
  /\ answer' = IF value THEN "yes" ELSE "no"

SameSizes ==
  /\ Len(expected) = Len(actual)
  /\ Cardinality(Blanks(expected)) = Cardinality(Blanks(actual))

QuickReject ==
  /\ phase = "start" /\ ~SameSizes
  /\ Return(FALSE)
  /\ UNCHANGED <<expected, actual, left, right, tried, mapping, used>>

CompareGround ==
  /\ phase = "start" /\ SameSizes /\ Blanks(expected) = {}
  /\ Return(SimpleCompare)
  /\ UNCHANGED <<expected, actual, left, right, tried, mapping, used>>

StartSearch ==
  /\ phase = "start" /\ SameSizes /\ Blanks(expected) # {}
  /\ phase' = "search"
  /\ left' \in SortedByDegree(expected)
  /\ right' \in SortedByDegree(actual)
  /\ tried' = <<0>>
  /\ UNCHANGED <<expected, actual, answer, mapping, used>>

(* The innermost call of backtrack, one round of its loop. *)

Level == Len(tried)

Current == left[Level]

Candidate == right[tried[Level] + 1]

HasCandidate == phase = "search" /\ Level <= Len(left) /\ tried[Level] < Len(right)

OneMoreTried == [tried EXCEPT ![Level] = @ + 1]

Try == Assigned(mapping, Current, Candidate)

Fits == Candidate \notin used /\ ConsistentSoFar(Try)

Assign ==
  /\ HasCandidate /\ Fits
  /\ mapping' = Try
  /\ used' = used \cup {Candidate}
  /\ tried' = Append(OneMoreTried, 0)
  /\ UNCHANGED <<expected, actual, phase, answer, left, right>>

(* Mutant of Skip: the loop only goes on after a target that is in use. *)
SkipUsed ==
  /\ HasCandidate /\ ~Fits
  /\ tried' = IF Candidate \in used THEN OneMoreTried ELSE tried
  /\ UNCHANGED <<expected, actual, phase, answer, left, right, mapping, used>>

Skip ==
  /\ HasCandidate /\ ~Fits
  /\ tried' = OneMoreTried
  /\ UNCHANGED <<expected, actual, phase, answer, left, right, mapping, used>>

(* The call returns false: its caller takes its assignment back and goes   *)
(* on, the outermost call returns to AreGraphsIsomorphic.                  *)

(* Mutant of Fail: the target stays in usedTargets. *)
FailKeepingTarget ==
  IF Level = 1
  THEN Return(FALSE) /\ UNCHANGED <<tried, mapping, used>>
  ELSE /\ mapping' = Restrict(mapping, DOMAIN mapping \ {left[Level - 1]})
       /\ tried' = SubSeq(tried, 1, Level - 1)
       /\ UNCHANGED <<used, phase, answer>>

Fail ==
  IF Level = 1
  THEN Return(FALSE) /\ UNCHANGED <<tried, mapping, used>>
  ELSE /\ mapping' = Restrict(mapping, DOMAIN mapping \ {left[Level - 1]})
       /\ used' = used \ {mapping[left[Level - 1]]}
       /\ tried' = SubSeq(tried, 1, Level - 1)
       /\ UNCHANGED <<phase, answer>>

Exhausted ==
  /\ phase = "search" /\ Level <= Len(left) /\ tried[Level] = Len(right)
  /\ Fail
  /\ UNCHANGED <<expected, actual, left, right>>

Verify ==
  /\ phase = "search" /\ Level = Len(left) + 1
  /\ IF VerifyMapping(mapping)
     THEN Return(TRUE) /\ UNCHANGED <<tried, mapping, used>>
     ELSE Fail
  /\ UNCHANGED <<expected, actual, left, right>>

Next ==
  QuickReject \/ CompareGround \/ StartSearch \/ Assign \/ Skip \/ Exhausted \/ Verify

Spec == Init /\ [][Next]_vars

(* The comparison runs in one goroutine and calls nothing that waits. *)
FairSpec == Spec /\ WF_vars(Next)

-----------------------------------------------------------------------------
(* "Two graphs are isomorphic if there exists a bijection between their    *)
(* blank nodes such that when applied, the graphs are identical."          *)
Isomorphism(h) == RenameAll(Range(expected), h) = Range(actual)

Isomorphisms == {h \in Bijection(Blanks(expected), Blanks(actual)) : Isomorphism(h)}

Repeats(list) == ~IsInjective(list)

(* The search, with its order by degree, its early pruning and its undoing *)
(* of assignments, finds a bijection if and only if there is one.  A list  *)
(* with a repeated triple is counted by its length and looked up as a set, *)
(* so the answer for it can be wrong; parsers may deliver one.             *)
AnswerIsRight ==
  phase = "done" /\ ~Repeats(expected) /\ ~Repeats(actual) =>
    (answer = "yes" <=> Isomorphisms # {})

(* A yes that came out of the search is right for lists with repeated      *)
(* triples as well.                                                        *)
YesIsRight ==
  phase = "done" /\ answer = "yes" /\ Blanks(expected) # {} => Isomorphisms # {}

(* The search comes to an end. *)
Terminates == <>(phase = "done")

-----------------------------------------------------------------------------
(* The inductive invariant.  The mapping and the targets in use are those  *)
(* of the calls under way, and every isomorphism still lies ahead: it      *)
(* agrees with the mapping up to some call, which has yet to try the image *)
(* it gives to the label of that call.                                     *)

TypeOK ==
  /\ expected \in Input /\ actual \in Input
  /\ phase \in {"start", "search", "done"}
  /\ answer \in {"none", "yes", "no"}
  /\ phase = "search" =>
       /\ SameSizes /\ Blanks(expected) # {}
       /\ left \in Bijection(1 .. Len(left), Blanks(expected)) /\ left \in Seq(Blank)
       /\ right \in Bijection(1 .. Len(right), Blanks(actual)) /\ right \in Seq(Blank)
       /\ tried \in Seq(0 .. Len(right))
       /\ Level \in 1 .. Len(left) + 1
       /\ mapping \in [DOMAIN mapping -> Blank]

CallsAgree ==
  phase = "search" =>
    /\ \A i \in 1 .. Level - 1 : tried[i] \in 1 .. Len(right)
    /\ DOMAIN mapping = {left[i] : i \in 1 .. Level - 1}
    /\ \A i \in 1 .. Level - 1 : mapping[left[i]] = right[tried[i]]
    /\ used = Range(mapping)
    /\ IsInjective(mapping)

StartsEmpty == phase = "start" => mapping = NoMapping /\ used = {}

AgreesBelow(h, level) == \A i \in 1 .. level - 1 : h[left[i]] = mapping[left[i]]

(* In the call of the given level, the image h gives to its label is still *)
(* to be tried; a call beyond the last label only verifies.                *)
Untried(h, level) ==
  level <= Len(left) => \E p \in tried[level] + 1 .. Len(right) : h[left[level]] = right[p]

Ahead(h) == \E level \in 1 .. Level : AgreesBelow(h, level) /\ Untried(h, level)

NothingMissed == phase = "search" => \A h \in Isomorphisms : Ahead(h)

IInv ==
  TypeOK /\ StartsEmpty /\ CallsAgree /\ NothingMissed /\ AnswerIsRight /\ YesIsRight
=============================================================================
