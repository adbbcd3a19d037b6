------------------------------ MODULE Indexes ------------------------------
(***************************************************************************)
(* The tables of the store, the keys a quad has in each of them, and how a *)
(* pattern is turned into a table and a key prefix to scan                 *)
(* (pkg/store/storage.go, pkg/store/store.go, pkg/store/query.go).         *)
(***************************************************************************)
EXTENDS Quads

DefaultTable == {"SPO", "POS", "OSP"}
QuadTable == {"SPOG", "POSG", "OSPG", "GSPO", "GPOS", "GOSP"}
Table == DefaultTable \cup QuadTable \cup {"Graphs"}

(***************************************************************************)
(* The order in which insertQuadInTxn and deleteQuadInTxn lay out the      *)
(* terms of a quad in the key of each table.                               *)
(***************************************************************************)
KeyOrder ==
  [SPO  |-> <<"s", "p", "o">>,
   POS  |-> <<"p", "o", "s">>,
   OSP  |-> <<"o", "s", "p">>,
   SPOG |-> <<"s", "p", "o", "g">>,
   POSG |-> <<"p", "o", "s", "g">>,
   OSPG |-> <<"o", "s", "p", "g">>,
   GSPO |-> <<"g", "s", "p", "o">>,
   GPOS |-> <<"g", "p", "o", "s">>,
   GOSP |-> <<"g", "o", "s", "p">>,
   Graphs |-> <<"g">>]

KeyOf(t, q) == [i \in DOMAIN KeyOrder[t] |-> q[KeyOrder[t][i]]]

(***************************************************************************)
(* The tables written for a quad, in the order of the txn.Set and          *)
(* txn.Delete calls.  The Graphs table is never deleted from.              *)
(***************************************************************************)
DefaultWrites ==
  <<"SPO", "POS", "OSP", "SPOG", "POSG", "OSPG", "GSPO", "GPOS", "GOSP">>
NamedDeletes == <<"SPOG", "POSG", "OSPG", "GSPO", "GPOS", "GOSP">>
NamedInserts == <<"SPOG", "POSG", "OSPG", "GSPO", "GPOS", "GOSP", "Graphs">>

(* Mutant of InsertOrder: GOSP is forgotten for the default graph. *)
InsertWithoutGOSP(q) ==
  IF InDefaultGraph(q) THEN SubSeq(DefaultWrites, 1, 8) ELSE NamedInserts

InsertOrder(q) == IF InDefaultGraph(q) THEN DefaultWrites ELSE NamedInserts

(* Mutants of DeleteOrder: a copy of InsertOrder, which unlists the graph  *)
(* with its first quad deleted; a default-graph quad is deleted from the   *)
(* three-term tables only.                                                 *)
DeleteLikeInsert(q) == InsertOrder(q)
DeleteOwnTables(q) ==
  IF InDefaultGraph(q) THEN SubSeq(DefaultWrites, 1, 3) ELSE NamedDeletes

DeleteOrder(q) == IF InDefaultGraph(q) THEN DefaultWrites ELSE NamedDeletes

FirstTables(order, n) == {order[i] : i \in 1 .. n}

-----------------------------------------------------------------------------
(* Query: index selection and the scan prefix.                             *)

Bound(pat, pos) == pat[pos] \notin {Var, Nil}

(***************************************************************************)
(* selectIndex: the table of the first case that applies, with the order   *)
(* in which the code believes that table's keys are laid out.              *)
(***************************************************************************)
(* Mutant of Rotation: a bound subject alone is tested before object and   *)
(* subject.                                                                *)
SubjectFirst(pat) ==
  LET s == Bound(pat, "s")
      p == Bound(pat, "p")
      o == Bound(pat, "o")
  IN  IF s THEN "SPO" ELSE IF p THEN "POS" ELSE IF o THEN "OSP" ELSE "SPO"

Rotation(pat) ==
  LET s == Bound(pat, "s")
      p == Bound(pat, "p")
      o == Bound(pat, "o")
  IN  IF s /\ p THEN "SPO"
      ELSE IF p /\ o THEN "POS"
      ELSE IF o /\ s THEN "OSP"
      ELSE IF s THEN "SPO"
      ELSE IF p THEN "POS"
      ELSE IF o THEN "OSP"
      ELSE "SPO"

(* Mutant of DefaultIndex: the subject of a POS key is not taken apart. *)
SlippedIndex ==
  [SPO |-> [table |-> "SPO", key |-> <<"s", "p", "o">>],
   POS |-> [table |-> "POS", key |-> <<"p", "o", "o">>],
   OSP |-> [table |-> "OSP", key |-> <<"o", "s", "p">>]]

DefaultIndex ==
  [SPO |-> [table |-> "SPO", key |-> <<"s", "p", "o">>],
   POS |-> [table |-> "POS", key |-> <<"p", "o", "s">>],
   OSP |-> [table |-> "OSP", key |-> <<"o", "s", "p">>]]

NamedIndex ==
  [SPO |-> [table |-> "GSPO", key |-> <<"g", "s", "p", "o">>],
   POS |-> [table |-> "GPOS", key |-> <<"g", "p", "o", "s">>],
   OSP |-> [table |-> "GOSP", key |-> <<"g", "o", "s", "p">>]]

SelectIndex(pat) ==
  IF Bound(pat, "g") THEN NamedIndex[Rotation(pat)] ELSE DefaultIndex[Rotation(pat)]

(***************************************************************************)
(* buildScanPrefix: the bound terms in key order up to the first variable; *)
(* an absent graph counts as the default graph.                            *)
(***************************************************************************)
PrefixTerm(pat, pos) ==
  IF pos = "g" /\ pat.g = Nil THEN DefaultGraph ELSE pat[pos]

InPrefix(pat, key, i) == \A j \in 1 .. i : PrefixTerm(pat, key[j]) # Var

BuildScanPrefix(pat, key) ==
  [i \in {j \in DOMAIN key : InPrefix(pat, key, j)} |-> PrefixTerm(pat, key[i])]

HasPrefix(k, prefix) == \A i \in DOMAIN prefix : k[i] = prefix[i]

(***************************************************************************)
(* The keys a query scans in the tables of a snapshot, and Quad(), which   *)
(* maps the terms of a key back to their positions: a three-term key is in *)
(* the default graph.                                                      *)
(***************************************************************************)
ScanKeys(tables, pat) ==
  LET index == SelectIndex(pat)
      prefix == BuildScanPrefix(pat, index.key)
  IN  {k \in tables[index.table] : HasPrefix(k, prefix)}

DecodeKey(key, k) ==
  [pos \in Position |->
     IF \E i \in DOMAIN key : key[i] = pos
     THEN k[CHOOSE i \in DOMAIN key : key[i] = pos]
     ELSE DefaultGraph]

-----------------------------------------------------------------------------
(* What the tables are to hold for a set of quads.                         *)

QuadsIn(t, quads) ==
  IF t \in DefaultTable THEN {q \in quads : InDefaultGraph(q)}
  ELSE quads

TableOf(t, quads) == {KeyOf(t, q) : q \in QuadsIn(t, quads)}

(* The quads a database holds: the SPOG table, which Count and             *)
(* ContainsQuad read, is taken as the truth the other tables repeat.       *)
StoredQuads(tables) == {DecodeKey(KeyOrder["SPOG"], k) : k \in tables["SPOG"]}
=============================================================================
