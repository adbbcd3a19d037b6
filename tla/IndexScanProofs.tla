-------------------------- MODULE IndexScanProofs --------------------------
(***************************************************************************)
(* A query delivers nothing but quads that match its pattern, all of them  *)
(* in the graph it asks for or else in the default graph, and each once.   *)
(***************************************************************************)
EXTENDS IndexScan, IndexLemmas

LEMMA ScanTypeOK == Spec => []TypeOK
<1>1. Init => TypeOK
  BY DEF Init, TypeOK
<1>2. TypeOK /\ [Ask]_vars => TypeOK'
  BY DEF TypeOK, Ask, vars
<1> QED BY <1>1, <1>2, PTL DEF Spec

LEMMA ScannedTables ==
  ASSUME NEW Q \in SUBSET Quad
  PROVE  \A t \in DefaultTable \cup QuadTable : TablesFor(Q)[t] = TableOf(t, Q)
  BY DEF TablesFor

(* Whatever is stored and whatever is asked, the prefix scan of the        *)
(* selected index delivers quads that match and no other, and misses none  *)
(* of the graph asked for nor, where none is, of the default graph.        *)
THEOREM ScanAlwaysAnswers == Spec => []ScanAnswersPattern
<1>1. TypeOK => ScanAnswersPattern
  <2> SUFFICES ASSUME TypeOK PROVE ScanAnswersPattern
    OBVIOUS
  <2>1. quads \in SUBSET Quad /\ pat \in Pattern
    BY StoredAssumption DEF TypeOK
  <2>2. Result = {q \in quads : Delivered(q, pat)}
    BY <2>1, ScanIsAnswer, ScannedTables DEF Result, Scanned
  <2>3. \A q \in quads : Bound(pat, "g") \/ InDefaultGraph(q) => (pat.g \in {Var, Nil} => InDefaultGraph(q))
    BY DEF Bound
  <2> QED BY <2>2, <2>3 DEF ScanAnswersPattern, Delivered
<1> QED BY <1>1, ScanTypeOK, PTL

(* No quad is delivered twice.                                             *)
THEOREM ScanNeverRepeats == Spec => []ScanHasNoDuplicates
<1>1. TypeOK => ScanHasNoDuplicates
  <2> SUFFICES ASSUME TypeOK PROVE ScanHasNoDuplicates
    OBVIOUS
  <2> DEFINE index == SelectIndex(pat)
  <2>1. quads \in SUBSET Quad /\ pat \in Pattern
    BY StoredAssumption DEF TypeOK
  <2>2. index.table \in DefaultTable \cup QuadTable
    BY <2>1, DefaultSelection, NamedSelection DEF DefaultTable, QuadTable
  <2>3. Scanned \subseteq {KeyOf(index.table, q) : q \in QuadsIn(index.table, quads)}
    BY <2>2 DEF Scanned, ScanKeys, TablesFor, TableOf
  <2>4. \A q \in QuadsIn(index.table, quads) : DecodeKey(index.key, KeyOf(index.table, q)) = q
    <3>1. QuadsIn(index.table, quads) \subseteq Quad
      BY <2>1 DEF QuadsIn
    <3>2. \A q \in QuadsIn(index.table, quads) : index.table \in DefaultTable => InDefaultGraph(q)
      BY DEF QuadsIn
    <3> QED BY <2>1, <3>1, <3>2, ScannedIsMatching
  <2> QED BY <2>3, <2>4 DEF ScanHasNoDuplicates
<1> QED BY <1>1, ScanTypeOK, PTL
=============================================================================
