--------------------------- MODULE MCTripleStore ---------------------------
(***************************************************************************)
(* TripleStore on a handful of quads: two writers, or a writer and a       *)
(* reader.  The IRI a and the blank node b have the same string, so they   *)
(* share a dictionary entry; n is a number, which needs none; qt is a      *)
(* quoted triple, tt a triple term, which has no encoding.                 *)
(***************************************************************************)
EXTENDS TripleStore, TLC

CONSTANTS a, b, pr, n, g, qt, tt, dg, sa, sp, sg, sq, none, var, nil, w1, w2, r1

MCTerm == {a, b, pr, n, g, qt, tt, dg}
MCStr == {sa, sp, sg, sq}
MCStrOf == [t \in MCTerm |->
  CASE t \in {a, b} -> sa [] t = pr -> sp [] t = g -> sg [] t = qt -> sq
    [] t \in {n, tt, dg} -> none]
MCHash == [s \in MCStr |-> s]

Q(s, o, graph) == [s |-> s, p |-> pr, o |-> o, g |-> graph]

Pat(s, o, graph) == [s |-> s, p |-> pr, o |-> o, g |-> graph]

(* Default graph and named graph, two quads of one graph, shared strings,  *)
(* a quad that cannot be encoded after one that can.                       *)
WriterBatches ==
  {<<Q(a, n, dg), Q(a, a, g)>>, <<Q(b, n, g)>>, <<Q(a, n, dg), Q(n, tt, g)>>}

ReaderBatches == {<<Q(a, n, dg), Q(a, n, g)>>, <<Q(b, n, dg), Q(a, qt, dg)>>}

ReaderProbes == {Q(a, n, dg), Q(a, tt, dg)}

ReaderQueries == {Pat(a, n, g), Pat(var, var, nil), Pat(a, tt, dg)}

MCBatch == WriterBatches \cup ReaderBatches

(* Before anything is written; between two tables.                         *)
SomeFaults == {<<0, 0>>, <<4, 4>>}

-----------------------------------------------------------------------------
VARIABLE scene   \* the callers there are

Scenes == {Writer} \cup {{w, r1} : w \in Writer}

BatchesOf(set) == IF r1 \in set THEN ReaderBatches ELSE WriterBatches

(* Beside a reader a call that fails leaves something in its buffer.       *)
MayFail(c) ==
  r1 \in scene /\ call'[c] # call[c] /\ call'[c].op \in WriteOp /\ call'[c].failed =>
    txn'[c] # txn[c]

SceneInit == Init /\ scene \in Scenes

SceneNext ==
  /\ Next
  /\ \A c \in Client \ scene : call'[c] = NoCall /\ ret'[c] = NoRet
  /\ \A c \in scene : call'[c].op \in WriteOp => call'[c].batch \in BatchesOf(scene)
  /\ \A c \in scene : MayFail(c)
  /\ UNCHANGED scene

SceneSpec == SceneInit /\ [][SceneNext]_<<vars, scene>>

Writers2 == Permutations({w1, w2})
=============================================================================
