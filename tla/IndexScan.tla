----------------------------- MODULE IndexScan -----------------------------
(***************************************************************************)
(* One query against a database whose tables hold a set of quads: the      *)
(* index selectIndex picks, the prefix buildScanPrefix makes, the keys the *)
(* scan visits and the quads Quad() maps them back to                      *)
(* (pkg/store/query.go).  Every set of quads over a few terms is met with  *)
(* every pattern.                                                          *)
(***************************************************************************)
EXTENDS Indexes

CONSTANTS Stored   \* the quads that may be stored

ASSUME StoredAssumption == Stored \subseteq Quad

VARIABLES
  quads,   \* the quads stored
  pat      \* the pattern queried

vars == <<quads, pat>>

TablesFor(set) == [t \in DefaultTable \cup QuadTable |-> TableOf(t, set)]

Scanned == ScanKeys(TablesFor(quads), pat)

Result == {DecodeKey(SelectIndex(pat).key, k) : k \in Scanned}

Init ==
  /\ quads \in SUBSET Stored
  /\ pat \in Pattern

(* The next query. *)
Ask == pat' \in Pattern /\ UNCHANGED quads

Spec == Init /\ [][Ask]_vars

TypeOK == quads \subseteq Stored /\ pat \in Pattern

(* A scan filters by its prefix alone, nothing is filtered afterwards: the *)
(* prefix of the selected index has to cover every bound position, and the *)
(* order in which the key is taken apart has to be the one in which        *)
(* insertQuadInTxn put it together.  Nothing but matching quads is         *)
(* delivered, and of those none is missed in the graph that is asked for,  *)
(* nor, where none is, in the default graph.                               *)
ScanAnswersPattern ==
  /\ Result \subseteq {q \in quads : Matches(q, pat)}
  /\ {q \in quads : Matches(q, pat) /\ (Bound(pat, "g") \/ InDefaultGraph(q))} \subseteq Result

(* The comment on Pattern.Graph: "nil means any graph" (query.go:14).      *)
NilMeansAnyGraph == pat.g = Nil => Result = {q \in quads : Matches(q, pat)}

(* A quad is delivered at most once: two scanned keys are two quads.       *)
ScanHasNoDuplicates ==
  \A k1, k2 \in Scanned :
    DecodeKey(SelectIndex(pat).key, k1) = DecodeKey(SelectIndex(pat).key, k2) => k1 = k2
=============================================================================
