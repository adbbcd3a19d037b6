---------------------------- MODULE IndexLemmas ----------------------------
(***************************************************************************)
(* Facts about the keys of a quad in the index tables, for every set of    *)
(* terms.                                                                  *)
(***************************************************************************)
EXTENDS Indexes, TLAPS

(* What a key is, table by table. *)
LEMMA KeyOfDefault ==
  ASSUME NEW q \in Quad
  PROVE  /\ KeyOf("SPO", q) = <<q.s, q.p, q.o>>
         /\ KeyOf("POS", q) = <<q.p, q.o, q.s>>
         /\ KeyOf("OSP", q) = <<q.o, q.s, q.p>>
         /\ KeyOf("Graphs", q) = <<q.g>>
  BY DEF KeyOf, KeyOrder, Quad

LEMMA KeyOfNamed ==
  ASSUME NEW q \in Quad
  PROVE  /\ KeyOf("SPOG", q) = <<q.s, q.p, q.o, q.g>>
         /\ KeyOf("POSG", q) = <<q.p, q.o, q.s, q.g>>
         /\ KeyOf("OSPG", q) = <<q.o, q.s, q.p, q.g>>
         /\ KeyOf("GSPO", q) = <<q.g, q.s, q.p, q.o>>
         /\ KeyOf("GPOS", q) = <<q.g, q.p, q.o, q.s>>
         /\ KeyOf("GOSP", q) = <<q.g, q.o, q.s, q.p>>
  BY DEF KeyOf, KeyOrder, Quad

LEMMA TupleType ==
  ASSUME NEW a \in Term, NEW b \in Term, NEW c \in Term, NEW d \in Term
  PROVE  /\ <<a>> \in Seq(Term)
         /\ <<a, b, c>> \in Seq(Term)
         /\ <<a, b, c, d>> \in Seq(Term)
  OBVIOUS

(* A key is a sequence of terms. *)
LEMMA KeyOfType ==
  ASSUME NEW t \in Table, NEW q \in Quad
  PROVE  KeyOf(t, q) \in Seq(Term)
<1>0. q.s \in Term /\ q.p \in Term /\ q.o \in Term /\ q.g \in Term
  BY DEF Quad
<1>1. CASE t \in DefaultTable
  BY <1>1, <1>0, KeyOfDefault, TupleType DEF DefaultTable
<1>2. CASE t \in QuadTable
  <2>1. \A a, b, c, d \in Term : <<a, b, c, d>> \in Seq(Term)
    OBVIOUS
  <2>2. PICK a \in Term, b \in Term, c \in Term, d \in Term :
          KeyOf(t, q) = <<a, b, c, d>>
    BY <1>2, <1>0, KeyOfNamed DEF QuadTable
  <2> QED BY <2>1, <2>2
<1>3. CASE t = "Graphs"
  BY <1>3, <1>0, KeyOfDefault, TupleType
<1> QED BY <1>1, <1>2, <1>3 DEF Table

(* Two quads of one table have different keys there. *)
LEMMA KeyOfInjective ==
  ASSUME NEW t \in DefaultTable \cup QuadTable,
         NEW q1 \in Quad, NEW q2 \in Quad,
         t \in DefaultTable => q1.g = q2.g,
         KeyOf(t, q1) = KeyOf(t, q2)
  PROVE  q1 = q2
<1>1. CASE t \in DefaultTable
  BY <1>1, KeyOfDefault DEF DefaultTable, Quad
<1>2. CASE t \in QuadTable
  BY <1>2, KeyOfNamed DEF QuadTable, Quad
<1> QED BY <1>1, <1>2

-----------------------------------------------------------------------------
(* Taking a key apart in the order it was put together gives the quad.     *)
LEMMA DecodeThree ==
  ASSUME NEW a, NEW b, NEW c
  PROVE  /\ DecodeKey(<<"s", "p", "o">>, <<a, b, c>>) =
              [s |-> a, p |-> b, o |-> c, g |-> DefaultGraph]
         /\ DecodeKey(<<"p", "o", "s">>, <<b, c, a>>) =
              [s |-> a, p |-> b, o |-> c, g |-> DefaultGraph]
         /\ DecodeKey(<<"o", "s", "p">>, <<c, a, b>>) =
              [s |-> a, p |-> b, o |-> c, g |-> DefaultGraph]
  BY DEF DecodeKey, Position

LEMMA DecodeSPOG ==
  ASSUME NEW q \in Quad
  PROVE  DecodeKey(KeyOrder["SPOG"], KeyOf("SPOG", q)) = q
<1>1. KeyOrder["SPOG"] = <<"s", "p", "o", "g">>
  BY DEF KeyOrder
<1>2. q = [s |-> q.s, p |-> q.p, o |-> q.o, g |-> q.g]
  BY DEF Quad
<1>3. DecodeKey(<<"s", "p", "o", "g">>, <<q.s, q.p, q.o, q.g>>) =
        [s |-> q.s, p |-> q.p, o |-> q.o, g |-> q.g]
  BY DEF DecodeKey, Position
<1>4. KeyOf("SPOG", q) = <<q.s, q.p, q.o, q.g>>
  BY KeyOfNamed
<1> QED BY <1>1, <1>2, <1>3, <1>4

(* The quads read out of a SPOG table made from a set of quads are the set. *)
LEMMA StoredOfTable ==
  ASSUME NEW Q \in SUBSET Quad, NEW tables, tables["SPOG"] = TableOf("SPOG", Q)
  PROVE  StoredQuads(tables) = Q
<1>1. tables["SPOG"] = {KeyOf("SPOG", q) : q \in Q}
  BY DEF TableOf, QuadsIn, DefaultTable
<1>2. \A q \in Q : DecodeKey(KeyOrder["SPOG"], KeyOf("SPOG", q)) = q
  BY DecodeSPOG
<1> QED BY <1>1, <1>2 DEF StoredQuads

-----------------------------------------------------------------------------
(* A scan prefix over three or four positions.                             *)
LEMMA PrefixThree ==
  ASSUME NEW pt, NEW x, NEW y, NEW z, NEW a, NEW b, NEW c
  PROVE  HasPrefix(<<a, b, c>>, BuildScanPrefix(pt, <<x, y, z>>)) <=>
           LET X == PrefixTerm(pt, x)
               Y == PrefixTerm(pt, y)
               Z == PrefixTerm(pt, z)
           IN  /\ X # Var => a = X
               /\ X # Var /\ Y # Var => b = Y
               /\ X # Var /\ Y # Var /\ Z # Var => c = Z
<1> DEFINE key == <<x, y, z>>
           k == <<a, b, c>>
           prefix == BuildScanPrefix(pt, key)
<1>1. /\ InPrefix(pt, key, 1) <=> PrefixTerm(pt, x) # Var
      /\ InPrefix(pt, key, 2) <=> PrefixTerm(pt, x) # Var /\ PrefixTerm(pt, y) # Var
      /\ InPrefix(pt, key, 3) <=> /\ PrefixTerm(pt, x) # Var
                                  /\ PrefixTerm(pt, y) # Var
                                  /\ PrefixTerm(pt, z) # Var
  BY DEF InPrefix
<1>2. DOMAIN key = {1, 2, 3}
  OBVIOUS
<1>3. /\ DOMAIN prefix = {j \in {1, 2, 3} : InPrefix(pt, key, j)}
      /\ \A j \in DOMAIN prefix : prefix[j] = PrefixTerm(pt, key[j])
  BY <1>2 DEF BuildScanPrefix
<1>4. HasPrefix(k, prefix) <=>
        \A j \in {1, 2, 3} : InPrefix(pt, key, j) => k[j] = PrefixTerm(pt, key[j])
  BY <1>3 DEF HasPrefix
<1> QED BY <1>1, <1>4

LEMMA PrefixFour ==
  ASSUME NEW pt, NEW x, NEW y, NEW z, NEW w, NEW a, NEW b, NEW c, NEW d
  PROVE  HasPrefix(<<a, b, c, d>>, BuildScanPrefix(pt, <<x, y, z, w>>)) <=>
           LET X == PrefixTerm(pt, x)
               Y == PrefixTerm(pt, y)
               Z == PrefixTerm(pt, z)
               W == PrefixTerm(pt, w)
           IN  /\ X # Var => a = X
               /\ X # Var /\ Y # Var => b = Y
               /\ X # Var /\ Y # Var /\ Z # Var => c = Z
               /\ X # Var /\ Y # Var /\ Z # Var /\ W # Var => d = W
<1> DEFINE key == <<x, y, z, w>>
           k == <<a, b, c, d>>
           prefix == BuildScanPrefix(pt, key)
<1>1. /\ InPrefix(pt, key, 1) <=> PrefixTerm(pt, x) # Var
      /\ InPrefix(pt, key, 2) <=> PrefixTerm(pt, x) # Var /\ PrefixTerm(pt, y) # Var
      /\ InPrefix(pt, key, 3) <=> /\ PrefixTerm(pt, x) # Var
                                  /\ PrefixTerm(pt, y) # Var
                                  /\ PrefixTerm(pt, z) # Var
      /\ InPrefix(pt, key, 4) <=> /\ PrefixTerm(pt, x) # Var
                                  /\ PrefixTerm(pt, y) # Var
                                  /\ PrefixTerm(pt, z) # Var
                                  /\ PrefixTerm(pt, w) # Var
  BY DEF InPrefix
<1>2. DOMAIN key = {1, 2, 3, 4}
  OBVIOUS
<1>3. /\ DOMAIN prefix = {j \in {1, 2, 3, 4} : InPrefix(pt, key, j)}
      /\ \A j \in DOMAIN prefix : prefix[j] = PrefixTerm(pt, key[j])
  BY <1>2 DEF BuildScanPrefix
<1>4. HasPrefix(k, prefix) <=>
        \A j \in {1, 2, 3, 4} : InPrefix(pt, key, j) => k[j] = PrefixTerm(pt, key[j])
  BY <1>3 DEF HasPrefix
<1> QED BY <1>1, <1>4

-----------------------------------------------------------------------------
(* The index selected for a pattern, with what is known of the pattern     *)
(* there: its bound positions come first in the key.                       *)
LEMMA DefaultSelection ==
  ASSUME NEW pt \in Pattern, ~Bound(pt, "g")
  PROVE  \/ /\ SelectIndex(pt) = [table |-> "SPO", key |-> <<"s", "p", "o">>]
            /\ pt.p # Var => pt.s # Var
            /\ pt.o # Var => pt.s # Var /\ pt.p # Var
         \/ /\ SelectIndex(pt) = [table |-> "POS", key |-> <<"p", "o", "s">>]
            /\ pt.p # Var /\ pt.s = Var
         \/ /\ SelectIndex(pt) = [table |-> "OSP", key |-> <<"o", "s", "p">>]
            /\ pt.o # Var /\ pt.p = Var
  BY TermAssumption DEF SelectIndex, Rotation, Bound, DefaultIndex, Pattern

LEMMA NamedSelection ==
  ASSUME NEW pt \in Pattern, Bound(pt, "g")
  PROVE  \/ /\ SelectIndex(pt) = [table |-> "GSPO", key |-> <<"g", "s", "p", "o">>]
            /\ pt.p # Var => pt.s # Var
            /\ pt.o # Var => pt.s # Var /\ pt.p # Var
         \/ /\ SelectIndex(pt) = [table |-> "GPOS", key |-> <<"g", "p", "o", "s">>]
            /\ pt.p # Var /\ pt.s = Var
         \/ /\ SelectIndex(pt) = [table |-> "GOSP", key |-> <<"g", "o", "s", "p">>]
            /\ pt.o # Var /\ pt.p = Var
  BY TermAssumption DEF SelectIndex, Rotation, Bound, NamedIndex, Pattern

(* One table at a time: for a quad kept in the selected table, having the  *)
(* scan prefix is matching the pattern, and decoding its key gives it back. *)
LEMMA ScannedIsMatching ==
  ASSUME NEW pt \in Pattern, NEW q \in Quad,
         NEW index, index = SelectIndex(pt),
         index.table \in DefaultTable => InDefaultGraph(q)
  PROVE  /\ HasPrefix(KeyOf(index.table, q), BuildScanPrefix(pt, index.key))
              <=> Delivered(q, pt)
         /\ DecodeKey(index.key, KeyOf(index.table, q)) = q
<1> DEFINE rec(a, b, c, d) == [s |-> a, p |-> b, o |-> c, g |-> d]
<1>q. q = rec(q.s, q.p, q.o, q.g)
  BY DEF Quad
<1>v. /\ pt.s # Nil /\ pt.p # Nil /\ pt.o # Nil
      /\ q.s # Var /\ q.p # Var /\ q.o # Var /\ q.g # Var
      /\ q.s # Nil /\ q.p # Nil /\ q.o # Nil /\ q.g # Nil
      /\ DefaultGraph # Var /\ DefaultGraph # Nil
  BY TermAssumption DEF Pattern, Quad
<1>p. /\ PrefixTerm(pt, "s") = pt.s
      /\ PrefixTerm(pt, "p") = pt.p
      /\ PrefixTerm(pt, "o") = pt.o
  BY DEF PrefixTerm
<1>1. CASE ~Bound(pt, "g")
  <2>1. pt.g \in {Var, Nil}
    BY <1>1 DEF Bound
  <2>2. CASE /\ index = [table |-> "SPO", key |-> <<"s", "p", "o">>]
             /\ pt.p # Var => pt.s # Var
             /\ pt.o # Var => pt.s # Var /\ pt.p # Var
    <3>1. q.g = DefaultGraph
      BY <2>2 DEF DefaultTable, InDefaultGraph
    <3>2. KeyOf(index.table, q) = <<q.s, q.p, q.o>>
      BY <2>2, KeyOfDefault
    <3>3. HasPrefix(<<q.s, q.p, q.o>>, BuildScanPrefix(pt, <<"s", "p", "o">>)) <=>
            /\ pt.s # Var => q.s = pt.s
            /\ pt.s # Var /\ pt.p # Var => q.p = pt.p
            /\ pt.s # Var /\ pt.p # Var /\ pt.o # Var => q.o = pt.o
      BY <1>p, PrefixThree
    <3>4. DecodeKey(<<"s", "p", "o">>, <<q.s, q.p, q.o>>) =
            rec(q.s, q.p, q.o, DefaultGraph)
      BY DecodeThree, Zenon
    <3> QED BY <1>q, <1>v, <2>1, <2>2, <3>1, <3>2, <3>3, <3>4 DEF Delivered, Matches, InDefaultGraph
  <2>3. CASE /\ index = [table |-> "POS", key |-> <<"p", "o", "s">>]
             /\ pt.p # Var /\ pt.s = Var
    <3>1. q.g = DefaultGraph
      BY <2>3 DEF DefaultTable, InDefaultGraph
    <3>2. KeyOf(index.table, q) = <<q.p, q.o, q.s>>
      BY <2>3, KeyOfDefault
    <3>3. HasPrefix(<<q.p, q.o, q.s>>, BuildScanPrefix(pt, <<"p", "o", "s">>)) <=>
            /\ pt.p # Var => q.p = pt.p
            /\ pt.p # Var /\ pt.o # Var => q.o = pt.o
            /\ pt.p # Var /\ pt.o # Var /\ pt.s # Var => q.s = pt.s
      BY <1>p, PrefixThree
    <3>4. DecodeKey(<<"p", "o", "s">>, <<q.p, q.o, q.s>>) =
            rec(q.s, q.p, q.o, DefaultGraph)
      BY DecodeThree, Zenon
    <3> QED BY <1>q, <1>v, <2>1, <2>3, <3>1, <3>2, <3>3, <3>4 DEF Delivered, Matches, InDefaultGraph
  <2>4. CASE /\ index = [table |-> "OSP", key |-> <<"o", "s", "p">>]
             /\ pt.o # Var /\ pt.p = Var
    <3>1. q.g = DefaultGraph
      BY <2>4 DEF DefaultTable, InDefaultGraph
    <3>2. KeyOf(index.table, q) = <<q.o, q.s, q.p>>
      BY <2>4, KeyOfDefault
    <3>3. HasPrefix(<<q.o, q.s, q.p>>, BuildScanPrefix(pt, <<"o", "s", "p">>)) <=>
            /\ pt.o # Var => q.o = pt.o
            /\ pt.o # Var /\ pt.s # Var => q.s = pt.s
            /\ pt.o # Var /\ pt.s # Var /\ pt.p # Var => q.p = pt.p
      BY <1>p, PrefixThree
    <3>4. DecodeKey(<<"o", "s", "p">>, <<q.o, q.s, q.p>>) =
            rec(q.s, q.p, q.o, DefaultGraph)
      BY DecodeThree, Zenon
    <3> QED BY <1>q, <1>v, <2>1, <2>4, <3>1, <3>2, <3>3, <3>4 DEF Delivered, Matches, InDefaultGraph
  <2> QED BY <1>1, <2>2, <2>3, <2>4, DefaultSelection
<1>2. CASE Bound(pt, "g")
  <2>1. pt.g # Var /\ pt.g # Nil /\ PrefixTerm(pt, "g") = pt.g
    BY <1>2 DEF Bound, PrefixTerm
  <2>2. CASE /\ index = [table |-> "GSPO", key |-> <<"g", "s", "p", "o">>]
             /\ pt.p # Var => pt.s # Var
             /\ pt.o # Var => pt.s # Var /\ pt.p # Var
    <3>2. KeyOf(index.table, q) = <<q.g, q.s, q.p, q.o>>
      BY <2>2, KeyOfNamed
    <3>3. HasPrefix(<<q.g, q.s, q.p, q.o>>, BuildScanPrefix(pt, <<"g", "s", "p", "o">>)) <=>
            /\ q.g = pt.g
            /\ pt.s # Var => q.s = pt.s
            /\ pt.s # Var /\ pt.p # Var => q.p = pt.p
            /\ pt.s # Var /\ pt.p # Var /\ pt.o # Var => q.o = pt.o
      BY <1>p, <2>1, PrefixFour
    <3>4. DecodeKey(<<"g", "s", "p", "o">>, <<q.g, q.s, q.p, q.o>>) =
            rec(q.s, q.p, q.o, q.g)
      BY DEF DecodeKey, Position
    <3> QED BY <1>q, <1>v, <2>1, <2>2, <3>2, <3>3, <3>4 DEF Delivered, Matches, InDefaultGraph
  <2>3. CASE /\ index = [table |-> "GPOS", key |-> <<"g", "p", "o", "s">>]
             /\ pt.p # Var /\ pt.s = Var
    <3>2. KeyOf(index.table, q) = <<q.g, q.p, q.o, q.s>>
      BY <2>3, KeyOfNamed
    <3>3. HasPrefix(<<q.g, q.p, q.o, q.s>>, BuildScanPrefix(pt, <<"g", "p", "o", "s">>)) <=>
            /\ q.g = pt.g
            /\ pt.p # Var => q.p = pt.p
            /\ pt.p # Var /\ pt.o # Var => q.o = pt.o
            /\ pt.p # Var /\ pt.o # Var /\ pt.s # Var => q.s = pt.s
      BY <1>p, <2>1, PrefixFour
    <3>4. DecodeKey(<<"g", "p", "o", "s">>, <<q.g, q.p, q.o, q.s>>) =
            rec(q.s, q.p, q.o, q.g)
      BY DEF DecodeKey, Position
    <3> QED BY <1>q, <1>v, <2>1, <2>3, <3>2, <3>3, <3>4 DEF Delivered, Matches, InDefaultGraph
  <2>4. CASE /\ index = [table |-> "GOSP", key |-> <<"g", "o", "s", "p">>]
             /\ pt.o # Var /\ pt.p = Var
    <3>2. KeyOf(index.table, q) = <<q.g, q.o, q.s, q.p>>
      BY <2>4, KeyOfNamed
    <3>3. HasPrefix(<<q.g, q.o, q.s, q.p>>, BuildScanPrefix(pt, <<"g", "o", "s", "p">>)) <=>
            /\ q.g = pt.g
            /\ pt.o # Var => q.o = pt.o
            /\ pt.o # Var /\ pt.s # Var => q.s = pt.s
            /\ pt.o # Var /\ pt.s # Var /\ pt.p # Var => q.p = pt.p
      BY <1>p, <2>1, PrefixFour
    <3>4. DecodeKey(<<"g", "o", "s", "p">>, <<q.g, q.o, q.s, q.p>>) =
            rec(q.s, q.p, q.o, q.g)
      BY DEF DecodeKey, Position
    <3> QED BY <1>q, <1>v, <2>1, <2>4, <3>2, <3>3, <3>4 DEF Delivered, Matches, InDefaultGraph
  <2> QED BY <1>2, <2>2, <2>3, <2>4, NamedSelection
<1> QED BY <1>1, <1>2

(* For every set of quads and every pattern, what the scan of the selected *)
(* index decodes to are the matching quads of the graph asked for and,     *)
(* where none is, of the default graph.                                    *)
THEOREM ScanIsAnswer ==
  ASSUME NEW Q \in SUBSET Quad, NEW pt \in Pattern, NEW tables,
         \A t \in DefaultTable \cup QuadTable : tables[t] = TableOf(t, Q)
  PROVE  {DecodeKey(SelectIndex(pt).key, k) : k \in ScanKeys(tables, pt)} =
           {q \in Q : Delivered(q, pt)}
<1> DEFINE index == SelectIndex(pt)
           prefix == BuildScanPrefix(pt, index.key)
           kept == QuadsIn(index.table, Q)
<1>1. /\ index.table \in DefaultTable \cup QuadTable
      /\ index.table \in DefaultTable => ~Bound(pt, "g")
  BY DefaultSelection, NamedSelection DEF DefaultTable, QuadTable
<1>2. tables[index.table] = {KeyOf(index.table, q) : q \in kept}
  BY <1>1 DEF TableOf
<1>3. kept \subseteq Q /\ \A q \in kept : index.table \in DefaultTable => InDefaultGraph(q)
  BY DEF QuadsIn
<1>4. \A q \in Q : Delivered(q, pt) => q \in kept
  BY <1>1 DEF QuadsIn, Delivered, InDefaultGraph, Bound
<1>5. \A q \in kept : /\ HasPrefix(KeyOf(index.table, q), prefix) <=> Delivered(q, pt)
                      /\ DecodeKey(index.key, KeyOf(index.table, q)) = q
  BY <1>3, ScannedIsMatching
<1>6. ScanKeys(tables, pt) =
        {KeyOf(index.table, q) : q \in {x \in kept : Delivered(x, pt)}}
  BY <1>2, <1>5 DEF ScanKeys
<1> HIDE DEF index, prefix, kept
<1>7. {DecodeKey(index.key, k) : k \in ScanKeys(tables, pt)} =
        {x \in kept : Delivered(x, pt)}
  BY <1>5, <1>6
<1> QED BY <1>3, <1>4, <1>7 DEF index
=============================================================================
