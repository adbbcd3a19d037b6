------------------------- MODULE TripleStoreProofs -------------------------
(***************************************************************************)
(* TripleStore, for any number of writers and readers and any batches:     *)
(* types; that the index tables, the list of graphs and the dictionary of  *)
(* every visible database stay consistent; what a step may never do; and   *)
(* that the store implements QuadStore: behind nine index tables, a        *)
(* dictionary and transactions that conflict, fail and are lost in         *)
(* crashes, its callers see a set of quads.                                *)
(***************************************************************************)
EXTENDS TripleStore, IndexLemmas, FiniteSetTheorems

-----------------------------------------------------------------------------
(* The transaction operators, one by one: type and effect.                 *)

LEMMA EmptyTyped == EmptyDatabase \in Database /\ EmptyDictionary \in Dictionary
  BY DEF EmptyDatabase, Database, Tables, EmptyDictionary, Dictionary

LEMMA BeginTyped ==
  ASSUME NEW d \in Database
  PROVE  /\ Begin(d) \in Txn
         /\ Begin(d).snap = d
         /\ Begin(d).strings = EmptyDictionary
         /\ \A t \in Table : Begin(d).puts[t] = {} /\ Begin(d).dels[t] = {}
  BY EmptyTyped DEF Begin, Txn, Tables

LEMMA SetKeysEffect ==
  ASSUME NEW x \in Txn, NEW tbls, NEW q \in Quad
  PROVE  /\ SetKeys(x, tbls, q) \in Txn
         /\ SetKeys(x, tbls, q).snap = x.snap
         /\ SetKeys(x, tbls, q).strings = x.strings
         /\ \A b \in Table :
              /\ SetKeys(x, tbls, q).puts[b] =
                   IF b \in tbls THEN x.puts[b] \cup {KeyOf(b, q)} ELSE x.puts[b]
              /\ SetKeys(x, tbls, q).dels[b] =
                   IF b \in tbls THEN x.dels[b] \ {KeyOf(b, q)} ELSE x.dels[b]
  BY KeyOfType DEF SetKeys, Txn, Tables

LEMMA DeleteKeysEffect ==
  ASSUME NEW x \in Txn, NEW tbls, NEW q \in Quad
  PROVE  /\ DeleteKeys(x, tbls, q) \in Txn
         /\ DeleteKeys(x, tbls, q).snap = x.snap
         /\ DeleteKeys(x, tbls, q).strings = x.strings
         /\ \A b \in Table :
              /\ DeleteKeys(x, tbls, q).puts[b] =
                   IF b \in tbls THEN x.puts[b] \ {KeyOf(b, q)} ELSE x.puts[b]
              /\ DeleteKeys(x, tbls, q).dels[b] =
                   IF b \in tbls THEN x.dels[b] \cup {KeyOf(b, q)} ELSE x.dels[b]
  BY KeyOfType DEF DeleteKeys, Txn, Tables

(* Storing the string of a term: afterwards the term is known to the       *)
(* transaction, and what was known stays known.                            *)
LEMMA StoreStringEffect ==
  ASSUME NEW x \in Txn, NEW term \in Term, WellHashed(x.strings)
  PROVE  LET y == StoreString(x, term)
         IN  /\ y \in Txn
             /\ y.snap = x.snap /\ y.puts = x.puts /\ y.dels = x.dels
             /\ WellHashed(y.strings)
             /\ Extends(y.strings, x.strings)
             /\ Known(y.strings, term) \/ Known(x.snap.id2str, term)
<1> DEFINE str == StrOf[term]
           d == Hash[str]
           y == StoreString(x, term)
<1>1. CASE str = NoStr
  BY <1>1 DEF StoreString, Extends, Known
<1>2. CASE str # NoStr
  <2>1. str \in Str /\ d \in Digest
    BY <1>2, StringAssumption
  <2>2. CASE GetString(x, d) = str
    <3>1. y = ReadString(x, d)
      BY <1>2, <2>2 DEF StoreString
    <3>2. y \in Txn /\ y.snap = x.snap /\ y.puts = x.puts /\ y.dels = x.dels
          /\ y.strings = x.strings
      BY <2>1, <3>1 DEF ReadString, Txn
    <3>3. x.strings[d] = str \/ x.snap.id2str[d] = str
      BY <2>2 DEF GetString
    <3> QED BY <3>2, <3>3 DEF Extends, Known
  <2>3. CASE GetString(x, d) # str
    <3>1. y = SetString(ReadString(x, d), d, str)
      BY <1>2, <2>3 DEF StoreString
    <3>2. /\ y \in Txn /\ y.snap = x.snap /\ y.puts = x.puts /\ y.dels = x.dels
          /\ y.strings = [x.strings EXCEPT ![d] = str]
      BY <2>1, <3>1 DEF ReadString, SetString, Txn, Dictionary
    <3>3. x.strings \in Dictionary
      BY DEF Txn
    <3>4. WellHashed(y.strings)
      BY <2>1, <3>2, <3>3 DEF WellHashed, Dictionary
    <3>5. \A e \in Digest : x.strings[e] # NoStr => y.strings[e] = x.strings[e]
      <4> SUFFICES ASSUME NEW e \in Digest, x.strings[e] # NoStr
                   PROVE  y.strings[e] = x.strings[e]
        OBVIOUS
      <4>1. CASE e # d
        BY <4>1, <3>2, <3>3 DEF Dictionary
      <4>2. CASE e = d
        <5>1. Hash[x.strings[d]] = d /\ x.strings[d] \in Str
          BY <4>2, <3>3 DEF WellHashed, Dictionary
        <5> QED BY <4>2, <5>1, <2>1, <3>2, <3>3, HashAssumption DEF Dictionary
      <4> QED BY <4>1, <4>2
    <3>6. y.strings[d] = str
      BY <2>1, <3>2, <3>3 DEF Dictionary
    <3> QED BY <3>2, <3>4, <3>5, <3>6 DEF Extends, Known
  <2> QED BY <2>2, <2>3
<1> QED BY <1>1, <1>2

(* The strings of the first k terms: the snapshot and the keys are left    *)
(* alone, and after all four every term of the quad is known.              *)
LEMMA StoreStringsEffect ==
  ASSUME NEW x \in Txn, NEW q \in Quad, NEW k \in 0 .. 4, WellHashed(x.strings)
  PROVE  LET y == StoreStrings(x, q, k)
         IN  /\ y \in Txn
             /\ y.snap = x.snap /\ y.puts = x.puts /\ y.dels = x.dels
             /\ WellHashed(y.strings)
             /\ Extends(y.strings, x.strings)
             /\ k = 4 => \A term \in TermsOf(q) :
                           Known(y.strings, term) \/ Known(x.snap.id2str, term)
<1> DEFINE t1 == StoreString(x, q.s)
           t2 == StoreString(t1, q.p)
           t3 == StoreString(t2, q.o)
           t4 == StoreString(t3, q.g)
           Same(y) == /\ y \in Txn
                      /\ y.snap = x.snap /\ y.puts = x.puts /\ y.dels = x.dels
                      /\ WellHashed(y.strings)
           Has(y, term) == Known(y.strings, term) \/ Known(x.snap.id2str, term)
<1>q. q.s \in Term /\ q.p \in Term /\ q.o \in Term /\ q.g \in Term
  BY DEF Quad
<1>0. \A y, z, w : Extends(y, z) /\ Extends(z, w) => Extends(y, w)
  BY DEF Extends
<1>k. \A y, z : \A term \in Term : Extends(y, z) /\ Known(z, term) => Known(y, term)
  BY StringAssumption DEF Extends, Known
<1>x. Extends(x.strings, x.strings)
  BY DEF Extends
<1>1. Same(t1) /\ Extends(t1.strings, x.strings) /\ Has(t1, q.s)
  BY <1>q, StoreStringEffect
<1>2. Same(t2) /\ Extends(t2.strings, t1.strings) /\ Has(t2, q.p)
  <2> HIDE DEF t1
  <2> QED BY <1>q, <1>1, StoreStringEffect
<1>3. Same(t3) /\ Extends(t3.strings, t2.strings) /\ Has(t3, q.o)
  <2> HIDE DEF t2
  <2> QED BY <1>q, <1>2, StoreStringEffect
<1>4. Same(t4) /\ Extends(t4.strings, t3.strings) /\ Has(t4, q.g)
  <2> HIDE DEF t3
  <2> QED BY <1>q, <1>3, StoreStringEffect
<1>5. StoreStrings(x, q, k) \in {x, t1, t2, t3, t4} /\ (k = 4 => StoreStrings(x, q, k) = t4)
  BY DEF StoreStrings
<1> HIDE DEF t1, t2, t3, t4
<1>6. /\ Extends(t2.strings, x.strings)
      /\ Extends(t3.strings, x.strings)
      /\ Extends(t4.strings, x.strings)
      /\ Extends(t4.strings, t2.strings)
      /\ Extends(t4.strings, t1.strings)
  BY <1>0, <1>1, <1>2, <1>3, <1>4
<1>7. \A term \in TermsOf(q) : Has(t4, term)
  BY <1>q, <1>k, <1>1, <1>2, <1>3, <1>4, <1>6 DEF TermsOf
<1> QED BY <1>1, <1>2, <1>3, <1>4, <1>5, <1>6, <1>7, <1>x

-----------------------------------------------------------------------------
(* The tables a quad is written to.                                        *)

LEMMA InsertedTables ==
  ASSUME NEW q \in Quad
  PROVE  FirstTables(InsertOrder(q), Len(InsertOrder(q))) =
           IF InDefaultGraph(q) THEN DefaultTable \cup QuadTable
           ELSE QuadTable \cup {"Graphs"}
<1>1. CASE InDefaultGraph(q)
  BY <1>1 DEF InsertOrder, DefaultWrites, FirstTables, DefaultTable, QuadTable
<1>2. CASE ~InDefaultGraph(q)
  BY <1>2 DEF InsertOrder, NamedInserts, FirstTables, QuadTable
<1> QED BY <1>1, <1>2

LEMMA DeletedTables ==
  ASSUME NEW q \in Quad
  PROVE  FirstTables(DeleteOrder(q), Len(DeleteOrder(q))) =
           IF InDefaultGraph(q) THEN DefaultTable \cup QuadTable ELSE QuadTable
<1>1. CASE InDefaultGraph(q)
  BY <1>1 DEF DeleteOrder, DefaultWrites, FirstTables, DefaultTable, QuadTable
<1>2. CASE ~InDefaultGraph(q)
  BY <1>2 DEF DeleteOrder, NamedDeletes, FirstTables, QuadTable
<1> QED BY <1>1, <1>2

LEMMA ApplyTyped ==
  ASSUME NEW d \in Database, NEW x \in Txn
  PROVE  /\ Apply(d, x) \in Database
         /\ \A t \in Table :
              Apply(d, x).tables[t] = (d.tables[t] \ x.dels[t]) \cup x.puts[t]
         /\ \A e \in Digest : Apply(d, x).id2str[e] =
              IF x.strings[e] # NoStr THEN x.strings[e] ELSE d.id2str[e]
  BY DEF Apply, Database, Tables, Txn, Dictionary

LEMMA MissTyped ==
  ASSUME NEW x \in Txn, NEW y \in Txn
  PROVE  /\ Miss(x, y) \in Txn
         /\ Miss(x, y).snap = x.snap /\ Miss(x, y).strings = x.strings
         /\ Miss(x, y).puts = x.puts /\ Miss(x, y).dels = x.dels
  BY DEF Miss, Txn, StringsWritten

-----------------------------------------------------------------------------
(* Consistency of a database: from tables made of a set of quads, and its  *)
(* preservation when a whole batch is inserted or deleted.                 *)

LEMMA TableOfUnion ==
  ASSUME NEW t, NEW Q, NEW R
  PROVE  TableOf(t, Q \cup R) = TableOf(t, Q) \cup TableOf(t, R)
  BY DEF TableOf, QuadsIn

LEMMA TableOfMinus ==
  ASSUME NEW t \in DefaultTable \cup QuadTable,
         NEW Q \in SUBSET Quad, NEW R \in SUBSET Quad
  PROVE  TableOf(t, Q \ R) = TableOf(t, Q) \ TableOf(t, R)
<1>1. \A q1 \in QuadsIn(t, Q), q2 \in QuadsIn(t, R) :
        KeyOf(t, q1) = KeyOf(t, q2) => q1 = q2
  BY KeyOfInjective DEF QuadsIn, InDefaultGraph
<1>2. QuadsIn(t, Q \ R) = QuadsIn(t, Q) \ QuadsIn(t, R)
  BY DEF QuadsIn
<1> QED BY <1>1, <1>2 DEF TableOf

LEMMA TableOfEmpty ==
  ASSUME NEW t
  PROVE  TableOf(t, {}) = {}
  BY DEF TableOf, QuadsIn

LEMMA ConsistentFrom ==
  ASSUME NEW d \in Database, NEW Q \in SUBSET Quad,
         \A t \in DefaultTable \cup QuadTable : d.tables[t] = TableOf(t, Q),
         \A q \in Q : ~InDefaultGraph(q) => KeyOf("Graphs", q) \in d.tables["Graphs"],
         \A q \in Q : \A x \in TermsOf(q) : Known(d.id2str, x),
         WellHashed(d.id2str), IsFiniteSet(d.tables["SPOG"])
  PROVE  Consistent(d) /\ StoredQuads(d.tables) = Q
<1>1. StoredQuads(d.tables) = Q
  BY StoredOfTable DEF QuadTable
<1> QED BY <1>1 DEF Consistent, AgreesWithSPOG, GraphListed, TermsKnown

LEMMA EmptyConsistent == Consistent(EmptyDatabase)
<1>1. \A t \in DefaultTable \cup QuadTable : EmptyDatabase.tables[t] = TableOf(t, {})
  BY TableOfEmpty DEF EmptyDatabase, Table
<1>2. WellHashed(EmptyDatabase.id2str)
  BY DEF WellHashed, EmptyDatabase, EmptyDictionary
<1>3. IsFiniteSet(EmptyDatabase.tables["SPOG"])
  BY FS_EmptySet DEF EmptyDatabase, Table, QuadTable
<1> QED BY <1>1, <1>2, <1>3, EmptyTyped, ConsistentFrom

(* The dictionary after a commit holds what it held before and what the    *)
(* transaction wrote; under one digest there is only one string.           *)
LEMMA ApplyStrings ==
  ASSUME NEW d \in Database, NEW x \in Txn,
         WellHashed(d.id2str), WellHashed(x.strings)
  PROVE  /\ WellHashed(Apply(d, x).id2str)
         /\ Extends(Apply(d, x).id2str, d.id2str)
         /\ Extends(Apply(d, x).id2str, x.strings)
<1> DEFINE new == Apply(d, x).id2str
<1>1. \A e \in Digest : new[e] = IF x.strings[e] # NoStr THEN x.strings[e] ELSE d.id2str[e]
  BY ApplyTyped
<1>2. \A e \in Digest : /\ x.strings[e] \in Str \cup {NoStr}
                        /\ d.id2str[e] \in Str \cup {NoStr}
  BY DEF Txn, Database, Dictionary
<1>3. \A e \in Digest : x.strings[e] # NoStr /\ d.id2str[e] # NoStr =>
        x.strings[e] = d.id2str[e]
  BY <1>2, HashAssumption DEF WellHashed
<1> HIDE DEF new
<1>4. WellHashed(new) /\ Extends(new, d.id2str) /\ Extends(new, x.strings)
  BY <1>1, <1>3 DEF WellHashed, Extends
<1> QED BY <1>4 DEF new

LEMMA KnownExtends ==
  ASSUME NEW newer, NEW older, Extends(newer, older), NEW term \in Term, Known(older, term)
  PROVE  Known(newer, term)
  BY StringAssumption DEF Extends, Known

(* Committing an aligned insert adds the quads of its batch.               *)
LEMMA ApplyInsert ==
  ASSUME NEW d \in Database, NEW x \in Txn, NEW R \in SUBSET Quad,
         Consistent(d), WellHashed(x.strings), Extends(d.id2str, x.snap.id2str),
         Adds(x, R),
         IsFiniteSet(x.puts["SPOG"])
  PROVE  /\ Consistent(Apply(d, x))
         /\ StoredQuads(Apply(d, x).tables) = StoredQuads(d.tables) \cup R
<1> DEFINE n == Apply(d, x)
           Q == StoredQuads(d.tables)
<1>1. n \in Database /\ Q \in SUBSET Quad
  BY ApplyTyped DEF Consistent
<1>a. \A t \in Table : n.tables[t] = (d.tables[t] \ x.dels[t]) \cup x.puts[t]
  BY ApplyTyped
<1>b. \A t \in DefaultTable \cup QuadTable : d.tables[t] = TableOf(t, Q)
  BY DEF Consistent, AgreesWithSPOG
<1>c. \A t \in DefaultTable \cup QuadTable : TableOf(t, Q \cup R) = TableOf(t, Q) \cup TableOf(t, R)
  BY TableOfUnion
<1>2. \A t \in DefaultTable \cup QuadTable : n.tables[t] = TableOf(t, Q \cup R)
  <2> HIDE DEF n, Q
  <2> SUFFICES ASSUME NEW t \in DefaultTable \cup QuadTable
               PROVE  n.tables[t] = TableOf(t, Q \cup R)
    OBVIOUS
  <2>1. t \in Table
    BY DEF Table
  <2>2. n.tables[t] = (TableOf(t, Q) \ {}) \cup TableOf(t, R)
    BY <1>a, <1>b, <2>1 DEF Adds
  <2> QED BY <1>c, <2>2
<1>3. n.tables["Graphs"] = d.tables["Graphs"] \cup x.puts["Graphs"]
  <2> HIDE DEF n, Q
  <2> QED BY <1>a DEF Table, Adds
<1>4. \A q \in Q \cup R : ~InDefaultGraph(q) => KeyOf("Graphs", q) \in n.tables["Graphs"]
  BY <1>3 DEF Consistent, GraphListed, Adds
<1>5. /\ WellHashed(n.id2str) /\ Extends(n.id2str, d.id2str)
      /\ Extends(n.id2str, x.strings)
  BY ApplyStrings DEF Consistent
<1>6. \A q \in Quad : TermsOf(q) \subseteq Term
  BY DEF TermsOf, Quad
<1>7. \A q \in Q : \A term \in TermsOf(q) : Known(n.id2str, term)
  BY <1>1, <1>5, <1>6, KnownExtends DEF Consistent, TermsKnown
<1>8. \A q \in R : \A term \in TermsOf(q) : Known(n.id2str, term)
  BY <1>5, <1>6, KnownExtends DEF Adds
<1>f. IsFiniteSet(n.tables["SPOG"])
  <2>1. IsFiniteSet(d.tables["SPOG"])
    BY DEF Consistent
  <2>2. n.tables["SPOG"] = (d.tables["SPOG"] \ x.dels["SPOG"]) \cup x.puts["SPOG"]
    BY <1>a DEF Table, QuadTable
  <2>3. IsFiniteSet(d.tables["SPOG"] \ x.dels["SPOG"])
    BY <2>1, FS_Difference
  <2>4. IsFiniteSet((d.tables["SPOG"] \ x.dels["SPOG"]) \cup x.puts["SPOG"])
    BY <2>3, FS_Union
  <2> HIDE DEF n
  <2> QED BY <2>2, <2>4
<1> HIDE DEF n, Q
<1>9. Consistent(n) /\ StoredQuads(n.tables) = Q \cup R
  BY <1>1, <1>2, <1>4, <1>5, <1>7, <1>8, <1>f, ConsistentFrom
<1> QED BY <1>9 DEF n, Q

(* Committing an aligned delete removes them.                              *)
LEMMA ApplyDelete ==
  ASSUME NEW d \in Database, NEW x \in Txn, NEW R \in SUBSET Quad,
         Consistent(d), WellHashed(x.strings),
         Removes(x, R), IsFiniteSet(x.puts["SPOG"])
  PROVE  /\ Consistent(Apply(d, x))
         /\ StoredQuads(Apply(d, x).tables) = StoredQuads(d.tables) \ R
<1> DEFINE n == Apply(d, x)
           Q == StoredQuads(d.tables)
<1>1. n \in Database /\ Q \in SUBSET Quad
  BY ApplyTyped DEF Consistent
<1>a. \A t \in Table : n.tables[t] = (d.tables[t] \ x.dels[t]) \cup x.puts[t]
  BY ApplyTyped
<1>b. \A t \in DefaultTable \cup QuadTable : d.tables[t] = TableOf(t, Q)
  BY DEF Consistent, AgreesWithSPOG
<1>c. \A t \in DefaultTable \cup QuadTable : TableOf(t, Q \ R) = TableOf(t, Q) \ TableOf(t, R)
  BY <1>1, TableOfMinus
<1>2. \A t \in DefaultTable \cup QuadTable : n.tables[t] = TableOf(t, Q \ R)
  <2> HIDE DEF n, Q
  <2> QED BY <1>a, <1>b, <1>c DEF Table, Removes
<1>3. n.tables["Graphs"] = d.tables["Graphs"]
  <2> HIDE DEF n, Q
  <2> QED BY <1>a DEF Table, Removes
<1>4. \A q \in Q \ R : ~InDefaultGraph(q) => KeyOf("Graphs", q) \in n.tables["Graphs"]
  BY <1>3 DEF Consistent, GraphListed
<1>5. WellHashed(n.id2str) /\ Extends(n.id2str, d.id2str)
  BY ApplyStrings DEF Consistent
<1>6. \A q \in Quad : TermsOf(q) \subseteq Term
  BY DEF TermsOf, Quad
<1>7. \A q \in Q : \A term \in TermsOf(q) : Known(n.id2str, term)
  BY <1>1, <1>5, <1>6, KnownExtends DEF Consistent, TermsKnown
<1>f. IsFiniteSet(n.tables["SPOG"])
  <2>1. IsFiniteSet(d.tables["SPOG"])
    BY DEF Consistent
  <2>2. n.tables["SPOG"] = (d.tables["SPOG"] \ x.dels["SPOG"]) \cup x.puts["SPOG"]
    BY <1>a DEF Table, QuadTable
  <2>3. IsFiniteSet(d.tables["SPOG"] \ x.dels["SPOG"])
    BY <2>1, FS_Difference
  <2>4. IsFiniteSet((d.tables["SPOG"] \ x.dels["SPOG"]) \cup x.puts["SPOG"])
    BY <2>3, FS_Union
  <2> HIDE DEF n
  <2> QED BY <2>2, <2>4
<1> HIDE DEF n, Q
<1>9. Consistent(n) /\ StoredQuads(n.tables) = Q \ R
  BY <1>1, <1>2, <1>4, <1>5, <1>7, <1>f, ConsistentFrom
<1> QED BY <1>9 DEF n, Q

-----------------------------------------------------------------------------
(* What a step does to the clients that do not take it, to one that enters *)
(* a call and to one that leaves it.                                       *)

LEMMA OthersKept ==
  ASSUME NEW x \in Client, TxnConsistent(x),
         txn'[x].snap = txn[x].snap, txn'[x].strings = txn[x].strings,
         txn'[x].puts = txn[x].puts, txn'[x].dels = txn[x].dels,
         call'[x] = call[x],
         Extends(db'.id2str, db.id2str)
  PROVE  TxnConsistent(x)'
<1>1. /\ Consistent(txn[x].snap)' /\ WellHashed(txn[x].strings)'
      /\ IsFiniteSet(txn[x].puts["SPOG"])' /\ NextInBatch(x)'
  BY DEF TxnConsistent, NextInBatch
<1>2. Extends(db.id2str, txn[x].snap.id2str)'
  BY DEF TxnConsistent, Extends
<1>3. TxnAligned(x)'
  BY DEF TxnConsistent, TxnAligned, Adds, Removes, Writing, Done
<1> QED BY <1>1, <1>2, <1>3 DEF TxnConsistent

LEMMA IdleConsistent ==
  ASSUME NEW x \in Client, txn'[x] = NoTxn, call'[x] = NoCall
  PROVE  TxnConsistent(x)'
<1>1. NoTxn.snap = EmptyDatabase /\ NoTxn.strings = EmptyDictionary
  BY BeginTyped, EmptyTyped DEF NoTxn
<1>2. \A dict : Extends(dict, EmptyDictionary)
  BY DEF Extends, EmptyDictionary
<1>3. WellHashed(EmptyDictionary)
  BY DEF WellHashed, EmptyDictionary
<1>4. TxnAligned(x)' /\ NextInBatch(x)'
  BY DEF TxnAligned, Writing, NoCall, WriteOp, NextInBatch
<1>5. EmptyDatabase.id2str = EmptyDictionary
  BY DEF EmptyDatabase
<1>6. Extends(db.id2str, txn[x].snap.id2str)'
  BY <1>1, <1>2, <1>5
<1>7. NoTxn.puts["SPOG"] = {}
  BY BeginTyped, EmptyTyped DEF NoTxn, Table, QuadTable
<1> QED BY <1>1, <1>3, <1>4, <1>6, <1>7, EmptyConsistent, FS_EmptySet DEF TxnConsistent

LEMMA ExtendsSelf == \A dict : Extends(dict, dict)
  BY DEF Extends

LEMMA EnterKeeps ==
  ASSUME IInv, NEW c \in Client, NEW record, Enter(c, record),
         record.op \in WriteOp => record.next = 1 /\ record.batch \in Batch
  PROVE  /\ db' = db /\ durable' = durable
         /\ txn' \in [Client -> Txn]
         /\ \A x \in Client : TxnConsistent(x)'
<1>t. db \in Database /\ txn \in [Client -> Txn] /\ DOMAIN call = Client
  BY DEF IInv, TypeOK
<1>1. db' = db /\ durable' = durable
  BY DEF Enter
<1>2. /\ txn'[c] = Begin(db) /\ call'[c] = record
      /\ \A x \in Client \ {c} : txn'[x] = txn[x] /\ call'[x] = call[x]
      /\ txn' \in [Client -> Txn]
  BY <1>t, BeginTyped DEF Enter
<1>3. \A x \in Client \ {c} : TxnConsistent(x)'
  BY <1>1, <1>2, OthersKept, ExtendsSelf DEF IInv
<1>4. TxnConsistent(c)'
  <2>1. Consistent(txn[c].snap)' /\ Extends(db.id2str, txn[c].snap.id2str)'
    BY <1>t, <1>1, <1>2, BeginTyped, ExtendsSelf DEF IInv
  <2>2. WellHashed(txn[c].strings)'
    BY <1>t, <1>2, BeginTyped DEF WellHashed, EmptyDictionary
  <2>3. record.op \in WriteOp => Done(c)' = {}
    BY <1>2 DEF Done
  <2>4. \A t \in Table : txn'[c].puts[t] = {} /\ txn'[c].dels[t] = {}
    BY <1>t, <1>2, BeginTyped
  <2>5. Table = DefaultTable \cup QuadTable \cup {"Graphs"}
    BY DEF Table
  <2>6. TxnAligned(c)'
    BY <1>2, <2>3, <2>4, <2>5, TableOfEmpty
       DEF TxnAligned, Adds, Removes, Writing
  <2>7. txn'[c].puts["SPOG"] = {}
    BY <2>4 DEF Table, QuadTable
  <2>8. NextInBatch(c)'
    <3>1. record.op \in WriteOp => Len(record.batch) \in Nat
      BY CallAssumption
    <3> QED BY <1>2, <3>1 DEF NextInBatch
  <2> QED BY <2>1, <2>2, <2>6, <2>7, <2>8, FS_EmptySet DEF TxnConsistent
<1> QED BY <1>1, <1>2, <1>3, <1>4

LEMMA NoTxnTyped == NoTxn \in Txn
  BY EmptyTyped, BeginTyped DEF NoTxn

LEMMA LeaveKeeps ==
  ASSUME IInv, NEW c \in Client, NEW r, Leave(c, r)
  PROVE  /\ db' = db /\ durable' = durable
         /\ txn' \in [Client -> Txn]
         /\ \A x \in Client : TxnConsistent(x)'
<1>t. db \in Database /\ txn \in [Client -> Txn] /\ DOMAIN call = Client
  BY DEF IInv, TypeOK
<1>1. db' = db /\ durable' = durable
  BY DEF Leave
<1>2. /\ txn'[c] = NoTxn /\ call'[c] = NoCall
      /\ \A x \in Client \ {c} : txn'[x] = txn[x] /\ call'[x] = call[x]
      /\ txn' \in [Client -> Txn]
  BY <1>t, NoTxnTyped DEF Leave
<1>3. \A x \in Client \ {c} : TxnConsistent(x)'
  BY <1>1, <1>2, OthersKept, ExtendsSelf DEF IInv
<1> QED BY <1>1, <1>2, <1>3, IdleConsistent

-----------------------------------------------------------------------------
(* The inductive invariant, one lemma per kind of step.                    *)

LEMMA InitInv == Init => IInv
<1> SUFFICES ASSUME Init PROVE IInv
  OBVIOUS
<1>1. TypeOK
  BY EmptyTyped, NoTxnTyped DEF Init, TypeOK, NoRet
<1>2. \A c \in Client : TxnConsistent(c)
  <2> SUFFICES ASSUME NEW c \in Client PROVE TxnConsistent(c)
    OBVIOUS
  <2>1. txn[c] = NoTxn /\ call[c] = NoCall /\ db.id2str = EmptyDictionary
    BY DEF Init, EmptyDatabase
  <2>2. NoTxn.snap = EmptyDatabase /\ NoTxn.strings = EmptyDictionary
    BY BeginTyped, EmptyTyped DEF NoTxn
  <2>3. WellHashed(EmptyDictionary) /\ EmptyDatabase.id2str = EmptyDictionary
    BY DEF WellHashed, EmptyDictionary, EmptyDatabase
  <2>4. TxnAligned(c) /\ NextInBatch(c)
    BY <2>1 DEF TxnAligned, Writing, NoCall, WriteOp, NextInBatch
  <2>5. NoTxn.puts["SPOG"] = {}
    BY BeginTyped, EmptyTyped DEF NoTxn, Table, QuadTable
  <2> QED BY <2>1, <2>2, <2>3, <2>4, <2>5, EmptyConsistent, ExtendsSelf, FS_EmptySet
          DEF TxnConsistent
<1>3. Consistent(db) /\ Consistent(durable)
  BY EmptyConsistent DEF Init
<1> QED BY <1>1, <1>2, <1>3 DEF IInv

LEMMA RetTyped ==
  ASSUME TypeOK, NEW c \in Client,
         NEW r \in [kind : {"none", "ok", "error", "conflict", "yes", "no", "count",
                            "complete", "partial"}, n : Nat],
         ret' = [ret EXCEPT ![c] = r]
  PROVE  ret' \in [Client ->
           [kind : {"none", "ok", "error", "conflict", "yes", "no", "count",
                    "complete", "partial"}, n : Nat]]
  BY DEF TypeOK

(* A call begins.                                                          *)
LEMMA EnterInv ==
  ASSUME IInv, NEW c \in Client, NEW record \in WriteCall \cup ReadCall,
         Enter(c, record),
         record.op \in WriteOp => record.next = 1 /\ record.batch \in Batch
  PROVE  IInv'
<1>1. /\ db' = db /\ durable' = durable
      /\ txn' \in [Client -> Txn]
      /\ \A x \in Client : TxnConsistent(x)'
  BY EnterKeeps
<1>2. call' \in [Client -> {NoCall} \cup WriteCall \cup ReadCall]
  BY DEF IInv, TypeOK, Enter
<1>3. NoRet \in [kind : {"none", "ok", "error", "conflict", "yes", "no", "count",
                         "complete", "partial"}, n : Nat]
  BY DEF NoRet
<1>4. TypeOK'
  BY <1>1, <1>2, <1>3, RetTyped DEF IInv, TypeOK, Enter
<1> QED BY <1>1, <1>4 DEF IInv

(* A call returns without a commit.                                        *)
LEMMA LeaveInv ==
  ASSUME IInv, NEW c \in Client,
         NEW r \in [kind : {"none", "ok", "error", "conflict", "yes", "no", "count",
                            "complete", "partial"}, n : Nat],
         Leave(c, r)
  PROVE  IInv'
<1>1. /\ db' = db /\ durable' = durable
      /\ txn' \in [Client -> Txn]
      /\ \A x \in Client : TxnConsistent(x)'
  BY LeaveKeeps
<1>2. call' \in [Client -> {NoCall} \cup WriteCall \cup ReadCall]
  BY DEF IInv, TypeOK, Leave
<1>4. TypeOK'
  BY <1>1, <1>2, RetTyped DEF IInv, TypeOK, Leave
<1> QED BY <1>1, <1>4 DEF IInv

LEMMA CallWriteInv ==
  ASSUME IInv, NEW c \in Writer, NEW op \in WriteOp, NEW batch \in Batch,
         CallWrite(c, op, batch)
  PROVE  IInv'
<1> DEFINE record == [op |-> op, batch |-> batch, next |-> 1, failed |-> FALSE]
<1>1. c \in Client /\ record \in WriteCall /\ Enter(c, record)
      /\ record.next = 1 /\ record.batch \in Batch
  BY DEF Client, WriteCall, CallWrite
<1> HIDE DEF record
<1> QED BY <1>1, EnterInv

LEMMA CallReadInv ==
  ASSUME IInv, NEW c \in Reader,
         \/ \E q \in Probe : CallContains(c, q)
         \/ CallCount(c)
         \/ \E pat \in Query : CallQuery(c, pat)
  PROVE  IInv'
<1>1. PICK record \in ReadCall : Enter(c, record) /\ record.op \notin WriteOp
  <2>1. CASE \E q \in Probe : CallContains(c, q)
    BY <2>1, CallAssumption DEF CallContains, ReadCall, WriteOp
  <2>2. CASE CallCount(c)
    BY <2>2 DEF CallCount, ReadCall, WriteOp
  <2>3. CASE \E pat \in Query : CallQuery(c, pat)
    <3>1. PICK pat \in Query : CallQuery(c, pat)
      BY <2>3
    <3> DEFINE record == [op |-> "query", pat |-> pat, seen |-> {}, out |-> {},
                          failed |-> FALSE]
    <3>2. record \in ReadCall /\ record.op \notin WriteOp
      BY DEF ReadCall, WriteOp
    <3> QED BY <3>1, <3>2 DEF CallQuery
  <2> QED BY <2>1, <2>2, <2>3
<1>2. c \in Client
  BY DEF Client
<1> QED BY <1>1, <1>2, EnterInv

(* The steps that end a call and leave the database alone.                 *)
LEMMA ReturnInv ==
  ASSUME IInv, NEW c \in Client,
         \/ CommitConflict(c) \/ Rollback(c)
         \/ ReturnContains(c) \/ ReturnCount(c) \/ CloseQuery(c)
         \/ \E pat \in Query : RejectQuery(c, pat)
  PROVE  IInv'
<1>1. \A k \in {"error", "conflict", "yes", "no", "complete", "partial"} :
        Ret(k) \in [kind : {"none", "ok", "error", "conflict", "yes", "no", "count",
                            "complete", "partial"}, n : Nat]
  BY DEF Ret
<1>2. CASE ReturnCount(c)
  <2> DEFINE n == Cardinality(txn[c].snap.tables["SPOG"])
  <2>1. n \in Nat
    BY FS_CardinalityType DEF IInv, TxnConsistent, Consistent
  <2>2. Leave(c, RetCount(n))
    BY <1>2 DEF ReturnCount
  <2> HIDE DEF n
  <2>3. RetCount(n) \in [kind : {"none", "ok", "error", "conflict", "yes", "no", "count",
                                 "complete", "partial"}, n : Nat]
    BY <2>1 DEF RetCount
  <2> QED BY <2>2, <2>3, LeaveInv
<1>3. CASE ~ReturnCount(c)
  <2>1. PICK k \in {"error", "conflict", "yes", "no", "complete", "partial"} : Leave(c, Ret(k))
    BY <1>3 DEF CommitConflict, Rollback, ReturnContains, CloseQuery, RejectQuery
  <2> QED BY <1>1, <2>1, LeaveInv
<1> QED BY <1>2, <1>3

-----------------------------------------------------------------------------
(* Writing steps.                                                          *)

LEMMA WriteCallTyped ==
  ASSUME TypeOK, NEW c \in Client, call[c].op \in WriteOp
  PROVE  /\ call[c] \in WriteCall
         /\ call[c].batch \in Batch /\ call[c].next \in Nat
         /\ call[c].op \in WriteOp
<1>1. call[c] \in {NoCall} \cup WriteCall \cup ReadCall
  BY DEF TypeOK
<1>2. call[c] # NoCall /\ call[c] \notin ReadCall
  BY DEF NoCall, ReadCall, WriteOp
<1> QED BY <1>1, <1>2 DEF WriteCall

LEMMA CurrentQuadTyped ==
  ASSUME TypeOK, NEW c \in Client, HasQuadLeft(c)
  PROVE  /\ CurrentQuad(c) \in Quad
         /\ call[c].next \in DOMAIN call[c].batch
  BY WriteCallTyped, CallAssumption DEF HasQuadLeft, Writing, CurrentQuad

LEMMA DoneTyped ==
  ASSUME TypeOK, NEW c \in Client, call[c].op \in WriteOp, NextInBatch(c)
  PROVE  /\ Done(c) \in SUBSET Quad
         /\ call[c].next \notin DOMAIN call[c].batch =>
              Done(c) = {call[c].batch[j] : j \in DOMAIN call[c].batch}
<1>1. /\ call[c].batch \in Seq(Quad) /\ call[c].next \in Nat
      /\ call[c].next \in 1 .. Len(call[c].batch) + 1
  BY WriteCallTyped, CallAssumption DEF NextInBatch
<1>2. \A j \in 1 .. call[c].next - 1 : j \in DOMAIN call[c].batch
  BY <1>1
<1>3. \A j \in DOMAIN call[c].batch : call[c].batch[j] \in Quad
  BY <1>1
<1>4. Done(c) \in SUBSET Quad
  BY <1>2, <1>3 DEF Done
<1>5. ASSUME call[c].next \notin DOMAIN call[c].batch
      PROVE  1 .. call[c].next - 1 = DOMAIN call[c].batch
  BY <1>1, <1>5
<1> QED BY <1>4, <1>5 DEF Done

(* A step of c that changes only the transaction and the call of c.        *)
LEMMA StepInv ==
  ASSUME IInv, NEW c \in Client, NEW x \in Txn, NEW w \in WriteCall \cup ReadCall,
         txn' = [txn EXCEPT ![c] = x], call' = [call EXCEPT ![c] = w],
         UNCHANGED <<db, durable, ret>>,
         TxnConsistent(c)'
  PROVE  IInv'
<1>1. TypeOK'
  BY DEF IInv, TypeOK
<1>2. \A y \in Client \ {c} : txn'[y] = txn[y] /\ call'[y] = call[y]
  BY DEF IInv, TypeOK
<1>3. \A y \in Client \ {c} : TxnConsistent(y)'
  BY <1>2, OthersKept, ExtendsSelf DEF IInv
<1> QED BY <1>1, <1>3 DEF IInv

(* The call moves on to the next quad.                                     *)
LEMMA AdvanceCall ==
  ASSUME TypeOK, NEW c \in Client, HasQuadLeft(c), NextInBatch(c),
         call' = [call EXCEPT ![c].next = @ + 1]
  PROVE  /\ [call[c] EXCEPT !.next = @ + 1] \in WriteCall
         /\ call' = [call EXCEPT ![c] = [call[c] EXCEPT !.next = @ + 1]]
         /\ call'[c].op = call[c].op /\ call'[c].failed = call[c].failed
         /\ NextInBatch(c)'
         /\ Done(c)' = Done(c) \cup {CurrentQuad(c)}
<1>1. /\ call[c] \in WriteCall /\ call[c].batch \in Seq(Quad)
      /\ call[c].next \in DOMAIN call[c].batch /\ call[c].next \in Nat
  BY WriteCallTyped, CurrentQuadTyped, CallAssumption DEF HasQuadLeft, Writing
<1>2. DOMAIN call = Client
  BY DEF TypeOK
<1>3. /\ call'[c] = [call[c] EXCEPT !.next = @ + 1]
      /\ call'[c].batch = call[c].batch /\ call'[c].next = call[c].next + 1
      /\ call'[c].op = call[c].op /\ call'[c].failed = call[c].failed
  BY <1>1, <1>2 DEF WriteCall
<1>4. NextInBatch(c)'
  BY <1>1, <1>3 DEF NextInBatch
<1>5. 1 .. call[c].next = 1 .. (call[c].next - 1) \cup {call[c].next}
  BY <1>1
<1>6. Done(c)' = {call[c].batch[j] : j \in 1 .. call[c].next}
  BY <1>1, <1>3 DEF Done
<1>7. Done(c)' = Done(c) \cup {CurrentQuad(c)}
  BY <1>5, <1>6 DEF Done, CurrentQuad
<1>8. [call[c] EXCEPT !.next = @ + 1] \in WriteCall
  BY <1>1 DEF WriteCall
<1>9. call' = [call EXCEPT ![c] = [call[c] EXCEPT !.next = @ + 1]]
  BY <1>2
<1> QED BY <1>3, <1>4, <1>7, <1>8, <1>9

LEMMA TableOfOne ==
  ASSUME NEW t \in DefaultTable \cup QuadTable, NEW q \in Quad
  PROVE  TableOf(t, {q}) = IF InDefaultGraph(q) \/ t \in QuadTable THEN {KeyOf(t, q)} ELSE {}
  BY DEF TableOf, QuadsIn, DefaultTable, QuadTable

LEMMA InsertStepInv ==
  ASSUME IInv, NEW c \in Client, InsertStep(c)
  PROVE  IInv'
<1> DEFINE q == CurrentQuad(c)
           tbls == FirstTables(InsertOrder(q), Len(InsertOrder(q)))
           x == txn[c]
           y == StoreStrings(x, q, 4)
           z == SetKeys(y, tbls, q)
           w == [call[c] EXCEPT !.next = @ + 1]
<1>0. /\ TypeOK /\ TxnConsistent(c) /\ HasQuadLeft(c) /\ call[c].op = "insert"
      /\ x \in Txn /\ q \in Quad /\ NextInBatch(c) /\ Writing(c) /\ call[c].op \in WriteOp
  BY CurrentQuadTyped DEF IInv, TypeOK, InsertStep, TxnConsistent, HasQuadLeft, WriteOp
<1>a. Adds(x, Done(c)) /\ WellHashed(x.strings)
  BY <1>0 DEF TxnConsistent, TxnAligned
<1>w. /\ w \in WriteCall /\ call' = [call EXCEPT ![c] = w]
      /\ call'[c].op = call[c].op /\ call'[c].failed = call[c].failed
      /\ NextInBatch(c)' /\ Done(c)' = Done(c) \cup {q}
  BY <1>0, AdvanceCall DEF InsertStep
<1>t. txn' = [txn EXCEPT ![c] = z] /\ txn'[c] = z
  BY <1>0 DEF InsertStep, InsertQuadInTxn, TypeOK
<1> HIDE DEF w, x, q
<1>n. 4 \in 0 .. 4
  OBVIOUS
<1>y. /\ y \in Txn /\ y.snap = x.snap /\ y.puts = x.puts /\ y.dels = x.dels
      /\ WellHashed(y.strings) /\ Extends(y.strings, x.strings)
      /\ \A term \in TermsOf(q) : Known(y.strings, term) \/ Known(x.snap.id2str, term)
  BY <1>0, <1>a, <1>n, StoreStringsEffect
<1> HIDE DEF y, tbls
<1>z. /\ z \in Txn /\ z.snap = y.snap /\ z.strings = y.strings
      /\ \A b \in Table :
           /\ z.puts[b] = IF b \in tbls THEN y.puts[b] \cup {KeyOf(b, q)} ELSE y.puts[b]
           /\ z.dels[b] = IF b \in tbls THEN y.dels[b] \ {KeyOf(b, q)} ELSE y.dels[b]
  <2>1. y \in Txn /\ q \in Quad
    BY <1>0, <1>y
  <2>2. z = SetKeys(y, tbls, q)
    OBVIOUS
  <2> HIDE DEF z
  <2>3. z \in Txn
    BY <2>1, <2>2, SetKeysEffect
  <2>4. z.snap = y.snap /\ z.strings = y.strings
    BY <2>1, <2>2, SetKeysEffect
  <2>5. ASSUME NEW b \in Table
        PROVE  /\ z.puts[b] = IF b \in tbls THEN y.puts[b] \cup {KeyOf(b, q)} ELSE y.puts[b]
               /\ z.dels[b] = IF b \in tbls THEN y.dels[b] \ {KeyOf(b, q)} ELSE y.dels[b]
    BY <2>1, <2>2 DEF SetKeys, Txn, Tables
  <2> QED BY <2>3, <2>4, <2>5
<1>b. tbls = IF InDefaultGraph(q) THEN DefaultTable \cup QuadTable
             ELSE QuadTable \cup {"Graphs"}
  BY <1>0, InsertedTables DEF tbls
<1> HIDE DEF z
<1>1. \A b \in Table : z.dels[b] = {}
  BY <1>a, <1>y, <1>z DEF Adds, x
<1>2. \A b \in DefaultTable \cup QuadTable : z.puts[b] = TableOf(b, Done(c) \cup {q})
  <2> SUFFICES ASSUME NEW b \in DefaultTable \cup QuadTable
               PROVE  z.puts[b] = TableOf(b, Done(c) \cup {q})
    OBVIOUS
  <2>1. y.puts[b] = TableOf(b, Done(c)) /\ b \in Table
    BY <1>a, <1>y DEF Adds, x, Table
  <2>2. TableOf(b, Done(c) \cup {q}) = TableOf(b, Done(c)) \cup TableOf(b, {q})
    BY TableOfUnion
  <2>3. b \in tbls <=> InDefaultGraph(q) \/ b \in QuadTable
    BY <1>b DEF DefaultTable, QuadTable
  <2> QED BY <1>0, <1>z, <2>1, <2>2, <2>3, TableOfOne
<1>3. \A r \in Done(c) \cup {q} : ~InDefaultGraph(r) => KeyOf("Graphs", r) \in z.puts["Graphs"]
  BY <1>a, <1>y, <1>z, <1>b DEF Adds, x, Table
<1>4. \A r \in Done(c) \cup {q} : \A term \in TermsOf(r) :
        Known(z.strings, term) \/ Known(z.snap.id2str, term)
  <2>1. Done(c) \in SUBSET Quad
    BY <1>0, DoneTyped
  <2>2. \A r \in Done(c) : \A term \in TermsOf(r) :
          term \in Term /\ (Known(x.strings, term) \/ Known(x.snap.id2str, term))
    BY <1>a, <2>1 DEF Adds, x, TermsOf, Quad
  <2>3. \A r \in Done(c) : \A term \in TermsOf(r) :
          Known(y.strings, term) \/ Known(x.snap.id2str, term)
    BY <1>y, <2>2, KnownExtends
  <2> QED BY <1>y, <1>z, <2>3
<1>5. IsFiniteSet(z.puts["SPOG"])
  <2>1. IsFiniteSet(y.puts["SPOG"])
    BY <1>0, <1>y DEF TxnConsistent, x
  <2>2. z.puts["SPOG"] = y.puts["SPOG"] \cup {KeyOf("SPOG", q)}
    BY <1>z, <1>b DEF Table, QuadTable
  <2>3. IsFiniteSet(y.puts["SPOG"] \cup {KeyOf("SPOG", q)})
    BY <2>1, FS_AddElement
  <2> QED BY <2>2, <2>3
<1>6. TxnConsistent(c)'
  <2>1. Adds(txn[c], Done(c))'
    BY <1>t, <1>w, <1>1, <1>2, <1>3, <1>4 DEF Adds
  <2>2. TxnAligned(c)'
    BY <2>1, <1>0, <1>w DEF TxnAligned
  <2>3. Consistent(txn[c].snap)' /\ Extends(db.id2str, txn[c].snap.id2str)'
    BY <1>0, <1>t, <1>y, <1>z DEF TxnConsistent, x, InsertStep
  <2> QED BY <1>t, <1>w, <1>y, <1>z, <1>5, <2>2, <2>3 DEF TxnConsistent
<1> QED BY <1>t, <1>w, <1>z, <1>6, StepInv DEF InsertStep

LEMMA DeleteStepInv ==
  ASSUME IInv, NEW c \in Client, DeleteStep(c)
  PROVE  IInv'
<1> DEFINE q == CurrentQuad(c)
           tbls == FirstTables(DeleteOrder(q), Len(DeleteOrder(q)))
           x == txn[c]
           z == DeleteKeys(x, tbls, q)
           w == [call[c] EXCEPT !.next = @ + 1]
<1>0. /\ TypeOK /\ TxnConsistent(c) /\ HasQuadLeft(c) /\ call[c].op = "delete"
      /\ x \in Txn /\ q \in Quad /\ NextInBatch(c) /\ Writing(c) /\ call[c].op \in WriteOp
  BY CurrentQuadTyped DEF IInv, TypeOK, DeleteStep, TxnConsistent, HasQuadLeft, WriteOp
<1>a. Removes(x, Done(c)) /\ WellHashed(x.strings)
  BY <1>0 DEF TxnConsistent, TxnAligned
<1>w. /\ w \in WriteCall /\ call' = [call EXCEPT ![c] = w]
      /\ call'[c].op = call[c].op /\ call'[c].failed = call[c].failed
      /\ NextInBatch(c)' /\ Done(c)' = Done(c) \cup {q}
  BY <1>0, AdvanceCall DEF DeleteStep
<1>t. txn' = [txn EXCEPT ![c] = z] /\ txn'[c] = z
  BY <1>0 DEF DeleteStep, DeleteQuadInTxn, TypeOK
<1> HIDE DEF w, x, q, tbls
<1>z. /\ z \in Txn /\ z.snap = x.snap /\ z.strings = x.strings
      /\ \A b \in Table :
           /\ z.puts[b] = IF b \in tbls THEN x.puts[b] \ {KeyOf(b, q)} ELSE x.puts[b]
           /\ z.dels[b] = IF b \in tbls THEN x.dels[b] \cup {KeyOf(b, q)} ELSE x.dels[b]
  <2>1. z = DeleteKeys(x, tbls, q)
    OBVIOUS
  <2> HIDE DEF z
  <2>2. z \in Txn /\ z.snap = x.snap /\ z.strings = x.strings
    BY <1>0, <2>1, DeleteKeysEffect
  <2>3. ASSUME NEW b \in Table
        PROVE  /\ z.puts[b] = IF b \in tbls THEN x.puts[b] \ {KeyOf(b, q)} ELSE x.puts[b]
               /\ z.dels[b] = IF b \in tbls THEN x.dels[b] \cup {KeyOf(b, q)} ELSE x.dels[b]
    BY <1>0, <2>1 DEF DeleteKeys, Txn, Tables
  <2> QED BY <2>2, <2>3
<1>b. tbls = IF InDefaultGraph(q) THEN DefaultTable \cup QuadTable ELSE QuadTable
  BY <1>0, DeletedTables DEF tbls
<1> HIDE DEF z
<1>1. \A b \in Table : z.puts[b] = {}
  BY <1>a, <1>z DEF Removes, x
<1>2. \A b \in DefaultTable \cup QuadTable : z.dels[b] = TableOf(b, Done(c) \cup {q})
  <2> SUFFICES ASSUME NEW b \in DefaultTable \cup QuadTable
               PROVE  z.dels[b] = TableOf(b, Done(c) \cup {q})
    OBVIOUS
  <2>1. x.dels[b] = TableOf(b, Done(c)) /\ b \in Table
    BY <1>a DEF Removes, x, Table
  <2>2. TableOf(b, Done(c) \cup {q}) = TableOf(b, Done(c)) \cup TableOf(b, {q})
    BY TableOfUnion
  <2>3. b \in tbls <=> InDefaultGraph(q) \/ b \in QuadTable
    BY <1>b DEF DefaultTable, QuadTable
  <2> QED BY <1>0, <1>z, <2>1, <2>2, <2>3, TableOfOne
<1>3. z.dels["Graphs"] = {}
  BY <1>a, <1>z, <1>b DEF Removes, x, Table, DefaultTable, QuadTable
<1>5. IsFiniteSet(z.puts["SPOG"])
  BY <1>1, FS_EmptySet DEF Table, QuadTable
<1>6. TxnConsistent(c)'
  <2>1. Removes(txn[c], Done(c))'
    BY <1>t, <1>w, <1>1, <1>2, <1>3 DEF Removes
  <2>2. TxnAligned(c)'
    BY <2>1, <1>0, <1>w DEF TxnAligned
  <2>3. Consistent(txn[c].snap)' /\ Extends(db.id2str, txn[c].snap.id2str)'
    BY <1>0, <1>t, <1>z DEF TxnConsistent, x, DeleteStep
  <2> QED BY <1>a, <1>t, <1>w, <1>z, <1>5, <2>2, <2>3 DEF TxnConsistent
<1> QED BY <1>t, <1>w, <1>z, <1>6, StepInv DEF DeleteStep

(* A call that fails in the middle of a quad keeps its buffered writes, in *)
(* whatever state they are: nothing but a rollback can follow.             *)
LEMMA FailedInv ==
  ASSUME IInv, NEW c \in Client, HasQuadLeft(c), NEW z \in Txn,
         z.snap = txn[c].snap, WellHashed(z.strings), IsFiniteSet(z.puts["SPOG"]),
         txn' = [txn EXCEPT ![c] = z], call' = [call EXCEPT ![c].failed = TRUE],
         UNCHANGED <<db, durable, ret>>
  PROVE  IInv'
<1> DEFINE w == [call[c] EXCEPT !.failed = TRUE]
<1>1. /\ TypeOK /\ call[c].op \in WriteOp /\ TxnConsistent(c) /\ DOMAIN call = Client
      /\ DOMAIN txn = Client
  BY DEF IInv, TypeOK, HasQuadLeft, Writing
<1>2. call[c] \in WriteCall
  BY <1>1, WriteCallTyped
<1>3. w \in WriteCall /\ w.failed = TRUE /\ w.next = call[c].next /\ w.batch = call[c].batch
  BY <1>2 DEF WriteCall
<1>4. call' = [call EXCEPT ![c] = w] /\ call'[c] = w /\ txn'[c] = z
  BY <1>1
<1> HIDE DEF w
<1>5. TxnAligned(c)' /\ NextInBatch(c)'
  BY <1>1, <1>3, <1>4 DEF TxnAligned, Writing, NextInBatch, TxnConsistent
<1>6. TxnConsistent(c)'
  BY <1>1, <1>4, <1>5 DEF TxnConsistent
<1> QED BY <1>3, <1>4, <1>6, StepInv

LEMMA InsertErrorInv ==
  ASSUME IInv, NEW c \in Client, InsertError(c)
  PROVE  IInv'
<1> DEFINE q == CurrentQuad(c)
           x == txn[c]
<1>0. /\ TypeOK /\ HasQuadLeft(c) /\ q \in Quad /\ x \in Txn
      /\ WellHashed(x.strings) /\ IsFiniteSet(x.puts["SPOG"])
  BY CurrentQuadTyped DEF IInv, TypeOK, InsertError, TxnConsistent
<1>1. PICK at \in Fault : txn' = [txn EXCEPT ![c] = InsertQuadInTxn(x, q, at[1], at[2])]
  BY DEF InsertError
<1>2. at[1] \in 0 .. 4
  BY CallAssumption
<1> DEFINE y == StoreStrings(x, q, at[1])
           tbls == FirstTables(InsertOrder(q), at[2])
           z == SetKeys(y, tbls, q)
<1>3. txn' = [txn EXCEPT ![c] = z]
  BY <1>1 DEF InsertQuadInTxn
<1> HIDE DEF q, x, tbls
<1>4. y \in Txn /\ y.snap = x.snap /\ y.puts = x.puts /\ WellHashed(y.strings)
  BY <1>0, <1>2, StoreStringsEffect
<1> HIDE DEF y
<1>5. z \in Txn /\ z.snap = y.snap /\ z.strings = y.strings
  BY <1>0, <1>4, SetKeysEffect
<1>6. \/ z.puts["SPOG"] = y.puts["SPOG"]
      \/ z.puts["SPOG"] = y.puts["SPOG"] \cup {KeyOf("SPOG", q)}
  BY <1>4 DEF SetKeys, Txn, Tables, Table, QuadTable
<1> HIDE DEF z
<1>7. IsFiniteSet(z.puts["SPOG"])
  BY <1>0, <1>4, <1>6, FS_AddElement
<1> QED BY <1>0, <1>3, <1>4, <1>5, <1>7, FailedInv DEF InsertError, x

LEMMA DeleteErrorInv ==
  ASSUME IInv, NEW c \in Client, DeleteError(c)
  PROVE  IInv'
<1> DEFINE q == CurrentQuad(c)
           x == txn[c]
<1>0. /\ TypeOK /\ HasQuadLeft(c) /\ q \in Quad /\ x \in Txn
      /\ WellHashed(x.strings) /\ IsFiniteSet(x.puts["SPOG"])
  BY CurrentQuadTyped DEF IInv, TypeOK, DeleteError, TxnConsistent
<1>1. PICK at \in Fault : txn' = [txn EXCEPT ![c] = DeleteQuadInTxn(x, q, at[2])]
  BY DEF DeleteError
<1> DEFINE tbls == FirstTables(DeleteOrder(q), at[2])
           z == DeleteKeys(x, tbls, q)
<1>3. txn' = [txn EXCEPT ![c] = z]
  BY <1>1 DEF DeleteQuadInTxn
<1> HIDE DEF q, x, tbls
<1>5. z \in Txn /\ z.snap = x.snap /\ z.strings = x.strings
  BY <1>0, DeleteKeysEffect
<1>6. z.puts["SPOG"] \subseteq x.puts["SPOG"]
  BY <1>0 DEF DeleteKeys, Txn, Tables, Table, QuadTable
<1> HIDE DEF z
<1>7. IsFiniteSet(z.puts["SPOG"])
  BY <1>0, <1>6, FS_Subset
<1> QED BY <1>0, <1>3, <1>5, <1>7, FailedInv DEF DeleteError, x

-----------------------------------------------------------------------------
(* The commit.                                                             *)

(* What a commit makes of the database: the batch is in it, or out of it,  *)
(* as a whole.                                                             *)
LEMMA CommitEffect ==
  ASSUME IInv, NEW c \in Client, CommitOk(c)
  PROVE  /\ db' \in Database /\ Consistent(db') /\ Extends(db'.id2str, db.id2str)
         /\ StoredQuads(db'.tables) =
              IF call[c].op = "insert"
              THEN StoredQuads(db.tables) \cup {call[c].batch[j] : j \in DOMAIN call[c].batch}
              ELSE StoredQuads(db.tables) \ {call[c].batch[j] : j \in DOMAIN call[c].batch}
<1> DEFINE x == txn[c]
           R == Done(c)
<1>0. /\ TypeOK /\ TxnConsistent(c) /\ x \in Txn /\ db \in Database /\ Consistent(db)
      /\ Writing(c) /\ call[c].op \in WriteOp /\ NextInBatch(c)
      /\ call[c].next \notin DOMAIN call[c].batch
  BY DEF IInv, TypeOK, CommitOk, ReadyToCommit, Writing, TxnConsistent
<1>1. R \in SUBSET Quad /\ R = {call[c].batch[j] : j \in DOMAIN call[c].batch}
  BY <1>0, DoneTyped
<1>2. db' = Apply(db, x)
  BY DEF CommitOk
<1>3. /\ WellHashed(x.strings) /\ Extends(db.id2str, x.snap.id2str)
      /\ IsFiniteSet(x.puts["SPOG"]) /\ WellHashed(db.id2str)
  BY <1>0 DEF TxnConsistent, Consistent
<1>4. db' \in Database /\ Extends(db'.id2str, db.id2str)
  BY <1>0, <1>2, <1>3, ApplyTyped, ApplyStrings
<1>5. CASE call[c].op = "insert"
  <2>1. Adds(x, Done(c))
    BY <1>0, <1>5 DEF TxnConsistent, TxnAligned
  <2>2. Adds(x, R)
    BY <2>1
  <2> HIDE DEF x, R
  <2>3. Consistent(db') /\ StoredQuads(db'.tables) = StoredQuads(db.tables) \cup R
    BY <1>0, <1>1, <1>2, <1>3, <2>2, ApplyInsert
  <2> QED BY <1>1, <1>4, <1>5, <2>3
<1>6. CASE call[c].op = "delete"
  <2>1. Removes(x, Done(c))
    BY <1>0, <1>6 DEF TxnConsistent, TxnAligned
  <2>2. Removes(x, R)
    BY <2>1
  <2> HIDE DEF x, R
  <2>3. Consistent(db') /\ StoredQuads(db'.tables) = StoredQuads(db.tables) \ R
    BY <1>0, <1>1, <1>2, <1>3, <2>2, ApplyDelete
  <2> QED BY <1>1, <1>4, <1>6, <2>3
<1> QED BY <1>0, <1>5, <1>6 DEF WriteOp

LEMMA CommitOkInv ==
  ASSUME IInv, NEW c \in Client, CommitOk(c)
  PROVE  IInv'
<1>0. TypeOK /\ txn \in [Client -> Txn] /\ DOMAIN call = Client
  BY DEF IInv, TypeOK
<1>1. db' \in Database /\ Consistent(db') /\ Extends(db'.id2str, db.id2str)
  BY CommitEffect
<1>2. /\ durable' = durable /\ call' = [call EXCEPT ![c] = NoCall]
      /\ ret' = [ret EXCEPT ![c] = Ret("ok")]
      /\ txn' = [x \in Client |->
               IF x = c THEN NoTxn
               ELSE IF call[x].op \in WriteOp THEN Miss(txn[x], txn[c]) ELSE txn[x]]
  BY DEF CommitOk
<1>3. txn' \in [Client -> Txn]
  <2>1. \A x \in Client : Miss(txn[x], txn[c]) \in Txn
    BY <1>0, MissTyped
  <2> QED BY <1>0, <1>2, <2>1, NoTxnTyped
<1>4. ASSUME NEW x \in Client, x # c
      PROVE  TxnConsistent(x)'
  <2>1. txn'[x] = txn[x] \/ txn'[x] = Miss(txn[x], txn[c])
    BY <1>2, <1>4
  <2>2. /\ txn'[x].snap = txn[x].snap /\ txn'[x].strings = txn[x].strings
        /\ txn'[x].puts = txn[x].puts /\ txn'[x].dels = txn[x].dels
    <3>1. txn[x] \in Txn /\ txn[c] \in Txn
      BY <1>0
    <3>2. /\ Miss(txn[x], txn[c]).snap = txn[x].snap
          /\ Miss(txn[x], txn[c]).strings = txn[x].strings
          /\ Miss(txn[x], txn[c]).puts = txn[x].puts
          /\ Miss(txn[x], txn[c]).dels = txn[x].dels
      BY <3>1, MissTyped, Zenon
    <3> QED BY <2>1, <3>2
  <2>3. call'[x] = call[x] /\ TxnConsistent(x)
    BY <1>0, <1>2, <1>4 DEF IInv
  <2> QED BY <1>1, <2>2, <2>3, OthersKept
<1>5. TxnConsistent(c)'
  BY <1>0, <1>2, IdleConsistent
<1>6. call' \in [Client -> {NoCall} \cup WriteCall \cup ReadCall]
  BY <1>0, <1>2 DEF TypeOK
<1>7. Ret("ok") \in [kind : {"none", "ok", "error", "conflict", "yes", "no", "count",
                             "complete", "partial"}, n : Nat]
  BY DEF Ret
<1>8. TypeOK'
  BY <1>0, <1>1, <1>2, <1>3, <1>6, <1>7, RetTyped DEF TypeOK
<1> QED BY <1>1, <1>2, <1>4, <1>5, <1>8 DEF IInv

-----------------------------------------------------------------------------
(* Reading, and the steps of the process as a whole.                       *)

LEMMA DecodeKnown ==
  ASSUME NEW dict, NEW term \in Term, Known(dict, term)
  PROVE  DecodeTerm(dict, term) \in {term, DecodeError}
<1>1. StrOf[term] = NoStr \/ dict[Hash[StrOf[term]]] = StrOf[term]
  BY DEF Known
<1> QED BY <1>1 DEF DecodeTerm

(* A quad read from a consistent database is the stored quad or an error,  *)
(* never a quad made of hash bytes.                                        *)
LEMMA ReadQuad ==
  ASSUME NEW d \in Database, Consistent(d), NEW pat \in Pattern,
         NEW k \in ScanKeys(d.tables, pat), NEW q,
         q = DecodeKey(SelectIndex(pat).key, k),
         NEW read, read = [pos \in Position |-> read[pos]],
         \A pos \in Position : read[pos] = DecodeTerm(d.id2str, q[pos])
                              /\ read[pos] # DecodeError
  PROVE  k \in Seq(Term) /\ read = q /\ q \in StoredQuads(d.tables) /\ Delivered(q, pat)
<1> DEFINE Q == StoredQuads(d.tables)
<1>1. SelectIndex(pat).table \in DefaultTable \cup QuadTable
  BY DefaultSelection, NamedSelection DEF DefaultTable, QuadTable
<1>2. k \in Seq(Term)
  BY <1>1 DEF ScanKeys, Database, Tables, Table
<1>3. Q \in SUBSET Quad /\ \A t \in DefaultTable \cup QuadTable : d.tables[t] = TableOf(t, Q)
  BY DEF Consistent, AgreesWithSPOG
<1>4. q \in {r \in Q : Delivered(r, pat)}
  BY <1>3, ScanIsAnswer
<1>5. q \in Quad /\ \A term \in TermsOf(q) : Known(d.id2str, term)
  BY <1>3, <1>4 DEF Consistent, TermsKnown
<1>6. \A pos \in Position : q[pos] \in Term /\ q[pos] \in TermsOf(q)
  BY <1>5 DEF Quad, TermsOf, Position
<1>7. \A pos \in Position : read[pos] = q[pos]
  BY <1>5, <1>6, DecodeKnown
<1>8. q = [pos \in Position |-> q[pos]]
  BY <1>5 DEF Quad, Position
<1>9. read = q
  BY <1>7, <1>8
<1> QED BY <1>2, <1>4, <1>9

LEMMA ReadCallTyped ==
  ASSUME TypeOK, NEW c \in Client, call[c].op = "query"
  PROVE  call[c] \in [op : {"query"}, pat : Query, seen : SUBSET Seq(Term),
                      out : SUBSET Quad, failed : BOOLEAN]
<1>1. call[c] \in {NoCall} \cup WriteCall \cup ReadCall
  BY DEF TypeOK
<1>2. call[c] # NoCall /\ call[c] \notin WriteCall
  BY DEF NoCall, WriteCall, WriteOp
<1> QED BY <1>1, <1>2 DEF ReadCall

LEMMA NextQuadInv ==
  ASSUME IInv, NEW c \in Client, NextQuad(c)
  PROVE  IInv'
<1> DEFINE QueryCall == [op : {"query"}, pat : Query, seen : SUBSET Seq(Term),
                         out : SUBSET Quad, failed : BOOLEAN]
<1>0. /\ TypeOK /\ TxnConsistent(c) /\ call[c].op = "query" /\ call[c] \in QueryCall
      /\ DOMAIN call = Client /\ txn[c] \in Txn /\ Consistent(txn[c].snap)
      /\ txn[c].snap \in Database
  BY ReadCallTyped DEF IInv, TypeOK, NextQuad, TxnConsistent, Txn
<1>1. PICK w \in QueryCall : call' = [call EXCEPT ![c] = w]
  <2>1. PICK k \in KeysLeft(c) :
          LET q == DecodeKey(SelectIndex(call[c].pat).key, k)
              read == [pos \in Position |-> DecodeTerm(txn[c].snap.id2str, q[pos])]
          IN  call' = IF \E pos \in Position : read[pos] = DecodeError
                      THEN [call EXCEPT ![c].failed = TRUE]
                      ELSE [call EXCEPT ![c].seen = @ \cup {k},
                                        ![c].out = @ \cup {read}]
    BY DEF NextQuad
  <2> DEFINE q == DecodeKey(SelectIndex(call[c].pat).key, k)
             read == [pos \in Position |-> DecodeTerm(txn[c].snap.id2str, q[pos])]
  <2>2. CASE \E pos \in Position : read[pos] = DecodeError
    <3> DEFINE w == [call[c] EXCEPT !.failed = TRUE]
    <3>1. w \in QueryCall
      BY <1>0
    <3>2. call' = [call EXCEPT ![c] = w]
      BY <1>0, <2>1, <2>2
    <3> QED BY <3>1, <3>2
  <2>3. CASE \A pos \in Position : read[pos] # DecodeError
    <3> DEFINE w == [call[c] EXCEPT !.seen = @ \cup {k}, !.out = @ \cup {read}]
    <3>1. k \in ScanKeys(txn[c].snap.tables, call[c].pat)
      BY DEF KeysLeft
    <3>2. call[c].pat \in Pattern
      BY <1>0, CallAssumption
    <3>5. call' = [call EXCEPT ![c].seen = @ \cup {k}, ![c].out = @ \cup {read}]
      BY <2>1, <2>3
    <3>q. q = DecodeKey(SelectIndex(call[c].pat).key, k)
      OBVIOUS
    <3>r. /\ read = [pos \in Position |-> read[pos]]
          /\ \A pos \in Position : read[pos] = DecodeTerm(txn[c].snap.id2str, q[pos])
                                  /\ read[pos] # DecodeError
      BY <2>3
    <3> HIDE DEF read, q
    <3>3. k \in Seq(Term) /\ read = q /\ q \in StoredQuads(txn[c].snap.tables)
      BY <1>0, <2>3, <3>1, <3>2, <3>q, <3>r, ReadQuad
    <3>4. read \in Quad
      BY <1>0, <3>3 DEF Consistent
    <3>6. w \in QueryCall
      BY <1>0, <3>3, <3>4
    <3>7. call' = [call EXCEPT ![c] = w]
      BY <1>0, <3>5
    <3> QED BY <3>6, <3>7
  <2> QED BY <2>2, <2>3
<1>2. w \in WriteCall \cup ReadCall /\ w.op = "query"
  BY DEF ReadCall
<1>3. txn' = txn /\ UNCHANGED <<db, durable, ret>>
  BY DEF NextQuad
<1>4. call'[c] = w
  BY <1>0, <1>1
<1> HIDE DEF QueryCall
<1>5. TxnAligned(c)' /\ NextInBatch(c)'
  BY <1>2, <1>4 DEF TxnAligned, NextInBatch, Writing, WriteOp
<1>6. TxnConsistent(c)'
  BY <1>0, <1>3, <1>5 DEF TxnConsistent
<1>7. txn' = [txn EXCEPT ![c] = txn[c]]
  BY <1>0, <1>3 DEF TypeOK
<1> QED BY <1>0, <1>1, <1>2, <1>3, <1>6, <1>7, StepInv

LEMMA PersistInv ==
  ASSUME IInv, Persist
  PROVE  IInv'
<1>1. TypeOK' /\ Consistent(db)' /\ Consistent(durable)'
  BY DEF IInv, TypeOK, Persist
<1>2. ASSUME NEW x \in Client PROVE TxnConsistent(x)'
  BY OthersKept, ExtendsSelf DEF IInv, Persist
<1> QED BY <1>1, <1>2 DEF IInv

LEMMA CrashInv ==
  ASSUME IInv, Crash
  PROVE  IInv'
<1>1. TypeOK'
  BY NoTxnTyped DEF IInv, TypeOK, Crash, NoRet
<1>2. Consistent(db)' /\ Consistent(durable)'
  BY DEF IInv, Crash
<1>3. ASSUME NEW x \in Client PROVE TxnConsistent(x)'
  BY IdleConsistent DEF Crash
<1> QED BY <1>1, <1>2, <1>3 DEF IInv

LEMMA StutterInv ==
  ASSUME IInv, UNCHANGED vars
  PROVE  IInv'
<1>1. TypeOK' /\ Consistent(db)' /\ Consistent(durable)'
  BY DEF IInv, TypeOK, vars
<1>2. ASSUME NEW x \in Client PROVE TxnConsistent(x)'
  BY OthersKept, ExtendsSelf DEF IInv, vars
<1> QED BY <1>1, <1>2 DEF IInv

(* IInv is inductive.                                                      *)
LEMMA NextInv == IInv /\ [Next]_vars => IInv'
<1> SUFFICES ASSUME IInv, [Next]_vars PROVE IInv'
  OBVIOUS
<1>1. ASSUME NEW c \in Writer, NEW op \in WriteOp, NEW batch \in Batch,
             CallWrite(c, op, batch)
      PROVE  IInv'
  BY <1>1, CallWriteInv
<1>2. ASSUME NEW c \in Writer, WriteStep(c)
      PROVE  IInv'
  <2>1. c \in Client
    BY DEF Client
  <2> QED BY <1>2, <2>1, InsertStepInv, DeleteStepInv, InsertErrorInv, DeleteErrorInv,
             CommitOkInv, ReturnInv DEF WriteStep
<1>3. ASSUME NEW c \in Reader,
             \/ \E q \in Probe : CallContains(c, q)
             \/ CallCount(c)
             \/ \E pat \in Query : CallQuery(c, pat)
      PROVE  IInv'
  BY <1>3, CallReadInv
<1>4. ASSUME NEW c \in Reader, ReadStep(c) \/ \E pat \in Query : RejectQuery(c, pat)
      PROVE  IInv'
  <2>1. c \in Client
    BY DEF Client
  <2> QED BY <1>4, <2>1, ReturnInv, NextQuadInv DEF ReadStep
<1>5. CASE Persist
  BY <1>5, PersistInv
<1>6. CASE Crash
  BY <1>6, CrashInv
<1>7. CASE UNCHANGED vars
  BY <1>7, StutterInv
<1> QED BY <1>1, <1>2, <1>3, <1>4, <1>5, <1>6, <1>7 DEF Next

-----------------------------------------------------------------------------
(* The theorems.                                                           *)

(* The invariant of every reachable state, for any number of writers and   *)
(* readers, any batches, any fault and any crash: it holds initially and   *)
(* every step keeps it.                                                    *)
THEOREM Invariance == Spec => []IInv
<1>1. Init => IInv
  BY InitInv
<1>2. IInv /\ [Next]_vars => IInv'
  BY NextInv
<1> QED BY <1>1, <1>2, PTL DEF Spec

(* Every variable keeps its type; in particular a query yields quads of    *)
(* stored terms only, never a term decoded out of hash bytes.              *)
THEOREM TypeCorrect == Spec => []TypeOK
<1>1. IInv => TypeOK
  BY DEF IInv
<1> QED BY <1>1, Invariance, PTL

LEMMA VisibleConsistent ==
  ASSUME IInv
  PROVE  \A d \in Visible : Consistent(d)
  BY DEF IInv, Visible, TxnConsistent

(* The nine index tables of every visible database describe one set of     *)
(* quads, whatever is inserted and deleted concurrently.                   *)
THEOREM IndexesAgree == Spec => []IndexAgreement
<1>1. IInv => IndexAgreement
  BY VisibleConsistent DEF IndexAgreement, Consistent
<1> QED BY <1>1, Invariance, PTL

(* Every graph that holds a quad is listed in the Graphs table.            *)
THEOREM GraphsAlwaysListed == Spec => []GraphsListed
<1>1. IInv => GraphsListed
  BY VisibleConsistent DEF GraphsListed, Consistent
<1> QED BY <1>1, Invariance, PTL

(* Every term of a stored quad has its string in the dictionary of the     *)
(* same database, although concurrent inserts of one new string do not     *)
(* both write it and a failed batch takes its strings back.                *)
THEOREM DictionaryAlwaysComplete == Spec => []DictionaryComplete
<1>1. IInv => DictionaryComplete
  BY VisibleConsistent DEF DictionaryComplete, Consistent
<1> QED BY <1>1, Invariance, PTL

-----------------------------------------------------------------------------
(* No garbage collection.                                                  *)

(* Every step but a commit and a crash leaves the database alone.          *)
LEMMA StepsThatKeep ==
  ASSUME [Next]_vars, ~Crash, \A c \in Client : ~CommitOk(c)
  PROVE  db' = db
<1>1. ASSUME NEW c \in Writer,
             \/ \E op \in WriteOp, batch \in Batch : CallWrite(c, op, batch)
             \/ WriteStep(c)
      PROVE  db' = db
  <2>1. c \in Client
    BY DEF Client
  <2> QED BY <1>1, <2>1 DEF CallWrite, Enter, WriteStep, InsertStep, DeleteStep, InsertError,
             DeleteError, CommitConflict, Rollback, Leave
<1>2. ASSUME NEW c \in Reader,
             \/ \E q \in Probe : CallContains(c, q)
             \/ CallCount(c)
             \/ \E pat \in Query : CallQuery(c, pat) \/ RejectQuery(c, pat)
             \/ ReadStep(c)
      PROVE  db' = db
  BY <1>2 DEF CallContains, CallCount, CallQuery, RejectQuery, ReadStep, ReturnContains,
              ReturnCount, NextQuad, CloseQuery, Enter, Leave
<1>3. Persist \/ UNCHANGED vars => db' = db
  BY DEF Persist, vars
<1> QED BY <1>1, <1>2, <1>3 DEF Next

(* A commit keeps every string and every listed graph.                     *)
LEMMA CommitCollectsNothing ==
  ASSUME IInv, NEW c \in Client, CommitOk(c)
  PROVE  /\ Extends(db'.id2str, db.id2str)
         /\ db.tables["Graphs"] \subseteq db'.tables["Graphs"]
<1>1. Extends(db'.id2str, db.id2str)
  BY CommitEffect
<1>2. db' = Apply(db, txn[c]) /\ db \in Database /\ txn[c] \in Txn
  BY DEF CommitOk, IInv, TypeOK
<1>3. TxnAligned(c) /\ Writing(c)
  BY DEF IInv, TxnConsistent, CommitOk, ReadyToCommit
<1>4. "Graphs" \in Table
  BY DEF Table
<1>5. txn[c].dels["Graphs"] = {}
  BY <1>3, <1>4 DEF TxnAligned, Adds, Removes
<1>6. db'.tables["Graphs"] = (db.tables["Graphs"] \ txn[c].dels["Graphs"]) \cup txn[c].puts["Graphs"]
  BY <1>2, <1>4, ApplyTyped
<1> QED BY <1>1, <1>5, <1>6

(* Apart from a crash no step removes or changes a string or unlists a     *)
(* graph, whatever is deleted.                                             *)
THEOREM NothingEverCollected == Spec => NothingCollected
<1> DEFINE Kept == Crash \/ /\ \A d \in Digest : db.id2str[d] # NoStr => db'.id2str[d] = db.id2str[d]
                            /\ db.tables["Graphs"] \subseteq db'.tables["Graphs"]
<1>1. IInv /\ [Next]_vars => [Kept]_vars
  <2> SUFFICES ASSUME IInv, [Next]_vars PROVE Kept
    OBVIOUS
  <2>1. CASE Crash
    BY <2>1
  <2>2. CASE \E c \in Client : CommitOk(c)
    BY <2>2, CommitCollectsNothing DEF Extends
  <2>3. CASE ~Crash /\ \A c \in Client : ~CommitOk(c)
    BY <2>3, StepsThatKeep
  <2> QED BY <2>1, <2>2, <2>3
<1> QED BY <1>1, Invariance, PTL DEF Spec, NothingCollected

-----------------------------------------------------------------------------
(* CallInv: first what the transaction operators do to reads and missed.   *)

LEMMA StoreStringReads ==
  ASSUME NEW x \in Txn, NEW term \in Term,
         WellHashed(x.strings), WellHashed(x.snap.id2str), LookedUp(x)
  PROVE  LET y == StoreString(x, term)
         IN  y.missed = x.missed /\ LookedUp(y)
<1> DEFINE str == StrOf[term]
           d == Hash[str]
           y == StoreString(x, term)
<1>0. x.strings \in Dictionary /\ x.snap.id2str \in Dictionary /\ x.reads \in SUBSET Digest
  BY DEF Txn, Database
<1>1. CASE str = NoStr
  BY <1>1 DEF StoreString
<1>2. CASE str # NoStr
  <2>1. str \in Str /\ d \in Digest
    BY <1>2, StringAssumption
  <2>2. CASE GetString(x, d) = str
    <3>1. y = ReadString(x, d)
      BY <1>2, <2>2 DEF StoreString
    <3>2. /\ y.missed = x.missed /\ y.strings = x.strings /\ y.snap = x.snap
          /\ x.reads \subseteq y.reads
      BY <1>0, <2>1, <3>1 DEF ReadString, Txn
    <3> QED BY <3>2 DEF LookedUp, StringsWritten
  <2>3. CASE GetString(x, d) # str
    <3>1. y = SetString(ReadString(x, d), d, str)
      BY <1>2, <2>3 DEF StoreString
    <3>2. x.strings[d] = NoStr
      <4>1. x.strings[d] # NoStr => Hash[x.strings[d]] = Hash[str] /\ x.strings[d] \in Str
        BY <1>0, <2>1 DEF WellHashed, Dictionary
      <4> QED BY <2>1, <2>3, <4>1, HashAssumption DEF GetString
    <3>3. x.snap.id2str[d] = NoStr
      <4>1. x.snap.id2str[d] # NoStr =>
              Hash[x.snap.id2str[d]] = Hash[str] /\ x.snap.id2str[d] \in Str
        BY <1>0, <2>1 DEF WellHashed, Dictionary
      <4> QED BY <2>1, <2>3, <3>2, <4>1, HashAssumption DEF GetString
    <3>4. /\ y.missed = x.missed /\ y.strings = [x.strings EXCEPT ![d] = str] /\ y.snap = x.snap
          /\ y.reads = x.reads \cup {d}
      BY <1>0, <2>1, <3>1, <3>2 DEF ReadString, SetString, Txn
    <3>5. \A e \in StringsWritten(y) : e = d \/ e \in StringsWritten(x)
      BY <1>0, <3>4 DEF StringsWritten, Dictionary
    <3> QED BY <3>3, <3>4, <3>5 DEF LookedUp
  <2> QED BY <2>2, <2>3
<1> QED BY <1>1, <1>2

LEMMA StoreStringsReads ==
  ASSUME NEW x \in Txn, NEW q \in Quad, NEW k \in 0 .. 4,
         WellHashed(x.strings), WellHashed(x.snap.id2str), LookedUp(x)
  PROVE  LET y == StoreStrings(x, q, k)
         IN  y.missed = x.missed /\ LookedUp(y)
<1> DEFINE t1 == StoreString(x, q.s)
           t2 == StoreString(t1, q.p)
           t3 == StoreString(t2, q.o)
           t4 == StoreString(t3, q.g)
           Fits(y) == /\ y \in Txn /\ y.snap = x.snap /\ WellHashed(y.strings)
                      /\ y.missed = x.missed /\ LookedUp(y)
<1>q. q.s \in Term /\ q.p \in Term /\ q.o \in Term /\ q.g \in Term
  BY DEF Quad
<1>1. Fits(t1)
  BY <1>q, StoreStringEffect, StoreStringReads
<1>2. Fits(t2)
  <2> HIDE DEF t1
  <2> QED BY <1>q, <1>1, StoreStringEffect, StoreStringReads
<1>3. Fits(t3)
  <2> HIDE DEF t2
  <2> QED BY <1>q, <1>2, StoreStringEffect, StoreStringReads
<1>4. Fits(t4)
  <2> HIDE DEF t3
  <2> QED BY <1>q, <1>3, StoreStringEffect, StoreStringReads
<1>5. StoreStrings(x, q, k) \in {x, t1, t2, t3, t4}
  BY DEF StoreStrings
<1> HIDE DEF t1, t2, t3, t4
<1> QED BY <1>1, <1>2, <1>3, <1>4, <1>5

LEMMA SetKeysReads ==
  ASSUME NEW x \in Txn, NEW tbls, NEW q
  PROVE  /\ SetKeys(x, tbls, q).reads = x.reads
         /\ SetKeys(x, tbls, q).missed = x.missed
         /\ SetKeys(x, tbls, q).snap = x.snap
         /\ SetKeys(x, tbls, q).strings = x.strings
         /\ DeleteKeys(x, tbls, q).reads = x.reads
         /\ DeleteKeys(x, tbls, q).missed = x.missed
         /\ DeleteKeys(x, tbls, q).snap = x.snap
         /\ DeleteKeys(x, tbls, q).strings = x.strings
  BY DEF SetKeys, DeleteKeys, Txn

-----------------------------------------------------------------------------
(* CallInv, one lemma per kind of step.                                    *)

CallFits(c) == ReadsFit(c) /\ DoneEncodable(c) /\ OutputFits(c)

LEMMA CallKept ==
  ASSUME NEW x \in Client, CallFits(x), db' = db, txn'[x] = txn[x], call'[x] = call[x]
  PROVE  CallFits(x)'
  BY DEF CallFits, ReadsFit, DoneEncodable, OutputFits, Writing, Done

LEMMA IdleFits ==
  ASSUME NEW x \in Client, call'[x] = NoCall
  PROVE  CallFits(x)'
  BY DEF CallFits, ReadsFit, DoneEncodable, OutputFits, Writing, NoCall, WriteOp

(* A step of c that leaves the database and the others alone.              *)
LEMMA OwnStep ==
  ASSUME IInv, CallInv, NEW c \in Client, db' = db,
         \A x \in Client \ {c} : txn'[x] = txn[x] /\ call'[x] = call[x],
         CallFits(c)'
  PROVE  CallInv'
  BY CallKept DEF CallInv, CallFits

LEMMA LeaveFits ==
  ASSUME IInv, CallInv, NEW c \in Client, NEW r, Leave(c, r)
  PROVE  CallInv'
<1>1. \A x \in Client \ {c} : txn'[x] = txn[x] /\ call'[x] = call[x]
  BY DEF IInv, TypeOK, Leave
<1>2. call'[c] = NoCall /\ db' = db
  BY DEF IInv, TypeOK, Leave
<1> QED BY <1>1, <1>2, IdleFits, OwnStep

LEMMA EnterFits ==
  ASSUME IInv, CallInv, NEW c \in Client, NEW record, Enter(c, record),
         record.op \in WriteOp => record.next = 1,
         record.op = "query" => record.seen = {} /\ record.out = {}
  PROVE  CallInv'
<1>t. db \in Database /\ txn \in [Client -> Txn] /\ DOMAIN call = Client
  BY DEF IInv, TypeOK
<1>1. \A x \in Client \ {c} : txn'[x] = txn[x] /\ call'[x] = call[x]
  BY <1>t DEF Enter
<1>2. call'[c] = record /\ txn'[c] = Begin(db) /\ db' = db
  BY <1>t DEF Enter
<1>3. ReadsFit(c)'
  <2>1. LookedUp(Begin(db)) /\ Begin(db).missed = {} /\ Begin(db).reads = {} /\ Begin(db).snap = db
    BY DEF LookedUp, StringsWritten, Begin, EmptyDictionary
  <2> QED BY <1>2, <2>1 DEF ReadsFit
<1>4. DoneEncodable(c)'
  BY <1>2 DEF DoneEncodable, Writing, Done
<1>5. OutputFits(c)'
  BY <1>2 DEF OutputFits
<1> QED BY <1>1, <1>2, <1>3, <1>4, <1>5, OwnStep DEF CallFits

LEMMA CallFitsEnter ==
  ASSUME IInv, CallInv,
         \/ \E c \in Writer, op \in WriteOp, batch \in Batch : CallWrite(c, op, batch)
         \/ \E c \in Reader :
              \/ \E q \in Probe : CallContains(c, q)
              \/ CallCount(c)
              \/ \E pat \in Query : CallQuery(c, pat)
  PROVE  CallInv'
<1>1. PICK c \in Client :
        \E record : /\ Enter(c, record)
                    /\ record.op \in WriteOp => record.next = 1
                    /\ record.op = "query" => record.seen = {} /\ record.out = {}
  <2>1. ASSUME NEW c \in Writer, NEW op \in WriteOp, NEW batch \in Batch, CallWrite(c, op, batch)
        PROVE  \E record : /\ Enter(c, record)
                           /\ record.op \in WriteOp => record.next = 1
                           /\ record.op = "query" => record.seen = {} /\ record.out = {}
    <3> WITNESS [op |-> op, batch |-> batch, next |-> 1, failed |-> FALSE]
    <3> QED BY <2>1 DEF CallWrite, WriteOp
  <2>2. ASSUME NEW c \in Reader, NEW q \in Probe, CallContains(c, q)
        PROVE  \E record : Enter(c, record) /\ record.op \notin WriteOp /\ record.op # "query"
    BY <2>2 DEF CallContains, WriteOp
  <2>3. ASSUME NEW c \in Reader, CallCount(c)
        PROVE  \E record : Enter(c, record) /\ record.op \notin WriteOp /\ record.op # "query"
    BY <2>3 DEF CallCount, WriteOp
  <2>4. ASSUME NEW c \in Reader, NEW pat \in Query, CallQuery(c, pat)
        PROVE  \E record : /\ Enter(c, record) /\ record.op \notin WriteOp
                           /\ record.seen = {} /\ record.out = {}
    <3> WITNESS [op |-> "query", pat |-> pat, seen |-> {}, out |-> {}, failed |-> FALSE]
    <3> QED BY <2>4 DEF CallQuery, WriteOp
  <2> QED BY <2>1, <2>2, <2>3, <2>4 DEF Client
<1> QED BY <1>1, EnterFits

LEMMA CallFitsInsert ==
  ASSUME IInv, CallInv, NEW c \in Client, InsertStep(c) \/ InsertError(c)
  PROVE  CallInv'
<1> DEFINE q == CurrentQuad(c)
           x == txn[c]
<1>0. /\ TypeOK /\ TxnConsistent(c) /\ HasQuadLeft(c) /\ call[c].op = "insert"
      /\ q \in Quad /\ x \in Txn /\ NextInBatch(c) /\ Writing(c) /\ call[c].op \in WriteOp
      /\ WellHashed(x.strings) /\ WellHashed(x.snap.id2str) /\ ReadsFit(c) /\ DoneEncodable(c)
  BY CurrentQuadTyped DEF IInv, TypeOK, InsertStep, InsertError, TxnConsistent, Consistent,
     HasQuadLeft, WriteOp, CallInv
<1>1. PICK k \in 0 .. 4 : \E n : txn' = [txn EXCEPT ![c] = InsertQuadInTxn(x, q, k, n)]
  <2>1. CASE InsertStep(c)
    <3>1. txn' = [txn EXCEPT ![c] = InsertQuadInTxn(x, q, 4, Len(InsertOrder(q)))]
      BY <2>1 DEF InsertStep
    <3>2. 4 \in 0 .. 4
      OBVIOUS
    <3> QED BY <3>1, <3>2
  <2>2. CASE InsertError(c)
    <3>1. PICK at \in Fault : txn' = [txn EXCEPT ![c] = InsertQuadInTxn(x, q, at[1], at[2])]
      BY <2>2 DEF InsertError
    <3>2. at[1] \in 0 .. 4
      BY CallAssumption
    <3> QED BY <3>1, <3>2
  <2> QED BY <2>1, <2>2
<1>a. PICK n : txn' = [txn EXCEPT ![c] = InsertQuadInTxn(x, q, k, n)]
  BY <1>1
<1> DEFINE y == StoreStrings(x, q, k)
           z == SetKeys(y, FirstTables(InsertOrder(q), n), q)
<1>2. txn' = [txn EXCEPT ![c] = z]
  BY <1>a DEF InsertQuadInTxn
<1>3. /\ db' = db /\ txn'[c] = z
      /\ \A w \in Client \ {c} : txn'[w] = txn[w] /\ call'[w] = call[w]
      /\ call'[c].op = "insert"
  <2>1. call[c] \in WriteCall /\ DOMAIN call = Client /\ DOMAIN txn = Client
    BY <1>0, WriteCallTyped DEF TypeOK
  <2>2. call'[c] = [call[c] EXCEPT !.next = @ + 1] \/ call'[c] = [call[c] EXCEPT !.failed = TRUE]
    BY <2>1 DEF InsertStep, InsertError
  <2>3. call'[c].op = call[c].op
    BY <2>1, <2>2 DEF WriteCall
  <2> HIDE DEF z
  <2> QED BY <1>0, <1>2, <2>1, <2>3 DEF InsertStep, InsertError
<1> HIDE DEF q, x
<1>4. LookedUp(x) /\ x.missed = {d \in Digest : x.snap.id2str[d] = NoStr /\ db.id2str[d] # NoStr}
  BY <1>0 DEF ReadsFit, x
<1>5. y.snap = x.snap /\ y.missed = x.missed /\ LookedUp(y)
  BY <1>0, <1>4, StoreStringsEffect, StoreStringsReads
<1> HIDE DEF y
<1>6. z.snap = x.snap /\ z.missed = x.missed /\ LookedUp(z)
  <2>1. y \in Txn
    BY <1>0, StoreStringsEffect DEF y
  <2>2. z.snap = y.snap /\ z.missed = y.missed /\ z.reads = y.reads /\ z.strings = y.strings
    BY <2>1, SetKeysReads
  <2> HIDE DEF z
  <2> QED BY <1>5, <2>2 DEF LookedUp, StringsWritten
<1> HIDE DEF z
<1>7. ReadsFit(c)'
  BY <1>3, <1>4, <1>6 DEF ReadsFit
<1>8. DoneEncodable(c)'
  <2>1. CASE InsertStep(c)
    <3>1. Done(c)' = Done(c) \cup {q} /\ Encodable(q)
      BY <1>0, <2>1, AdvanceCall DEF InsertStep, q
    <3> QED BY <1>0, <3>1 DEF DoneEncodable
  <2>2. CASE InsertError(c)
    <3>1. call[c] \in WriteCall /\ DOMAIN call = Client
      BY <1>0, WriteCallTyped DEF TypeOK
    <3>2. call'[c].failed
      BY <2>2, <3>1 DEF InsertError, WriteCall
    <3> QED BY <3>2 DEF DoneEncodable, Writing
  <2> QED BY <2>1, <2>2
<1>9. OutputFits(c)'
  BY <1>3 DEF OutputFits
<1> QED BY <1>3, <1>7, <1>8, <1>9, OwnStep DEF CallFits

LEMMA CallFitsDelete ==
  ASSUME IInv, CallInv, NEW c \in Client, DeleteStep(c) \/ DeleteError(c)
  PROVE  CallInv'
<1> DEFINE q == CurrentQuad(c)
           x == txn[c]
<1>0. /\ TypeOK /\ TxnConsistent(c) /\ HasQuadLeft(c) /\ call[c].op = "delete"
      /\ x \in Txn /\ NextInBatch(c) /\ Writing(c) /\ call[c].op \in WriteOp
      /\ ReadsFit(c) /\ DoneEncodable(c)
  BY DEF IInv, TypeOK, DeleteStep, DeleteError, TxnConsistent, HasQuadLeft, WriteOp, CallInv
<1>1. PICK n : txn' = [txn EXCEPT ![c] = DeleteQuadInTxn(x, q, n)]
  BY DEF DeleteStep, DeleteError
<1> DEFINE z == DeleteKeys(x, FirstTables(DeleteOrder(q), n), q)
<1>2. txn' = [txn EXCEPT ![c] = z]
  BY <1>1 DEF DeleteQuadInTxn
<1>3. /\ db' = db /\ txn'[c] = z
      /\ \A w \in Client \ {c} : txn'[w] = txn[w] /\ call'[w] = call[w]
      /\ call'[c].op = "delete"
  <2>1. call[c] \in WriteCall /\ DOMAIN call = Client /\ DOMAIN txn = Client
    BY <1>0, WriteCallTyped DEF TypeOK
  <2>2. call'[c] = [call[c] EXCEPT !.next = @ + 1] \/ call'[c] = [call[c] EXCEPT !.failed = TRUE]
    BY <2>1 DEF DeleteStep, DeleteError
  <2>3. call'[c].op = call[c].op
    BY <2>1, <2>2 DEF WriteCall
  <2> HIDE DEF z
  <2> QED BY <1>0, <1>2, <2>1, <2>3 DEF DeleteStep, DeleteError
<1>4. z.snap = x.snap /\ z.missed = x.missed /\ z.reads = x.reads /\ z.strings = x.strings
  BY <1>0, SetKeysReads
<1> HIDE DEF z
<1>7. ReadsFit(c)'
  BY <1>0, <1>3, <1>4 DEF ReadsFit, LookedUp, StringsWritten
<1>8. DoneEncodable(c)'
  <2>1. CASE DeleteStep(c)
    <3>1. Done(c)' = Done(c) \cup {q} /\ Encodable(q)
      BY <1>0, <2>1, AdvanceCall DEF DeleteStep
    <3> HIDE DEF q
    <3> QED BY <1>0, <3>1 DEF DoneEncodable
  <2>2. CASE DeleteError(c)
    <3>1. call[c] \in WriteCall /\ DOMAIN call = Client
      BY <1>0, WriteCallTyped DEF TypeOK
    <3>2. call'[c].failed
      BY <2>2, <3>1 DEF DeleteError, WriteCall
    <3> QED BY <3>2 DEF DoneEncodable, Writing
  <2> QED BY <2>1, <2>2
<1>9. OutputFits(c)'
  BY <1>3 DEF OutputFits
<1> QED BY <1>3, <1>7, <1>8, <1>9, OwnStep DEF CallFits

(* The strings a commit writes are new to the database: had another commit *)
(* brought one since, this one would have been refused.                    *)
LEMMA CommitWritesNewStrings ==
  ASSUME IInv, CallInv, NEW c \in Client, CommitOk(c)
  PROVE  \A d \in StringsWritten(txn[c]) : db.id2str[d] = NoStr
<1>1. ReadsFit(c) /\ call[c].op \in WriteOp /\ ~Conflicts(txn[c])
  BY DEF CallInv, CommitOk, ReadyToCommit, Writing
<1> SUFFICES ASSUME NEW d \in StringsWritten(txn[c]) PROVE db.id2str[d] = NoStr
  OBVIOUS
<1>2. d \in txn[c].reads /\ txn[c].snap.id2str[d] = NoStr /\ d \in Digest
  BY <1>1 DEF ReadsFit, LookedUp, StringsWritten
<1>3. ~WroteNothing(txn[c])
  BY DEF WroteNothing
<1>4. d \notin txn[c].missed
  BY <1>1, <1>2, <1>3 DEF Conflicts
<1> QED BY <1>1, <1>2, <1>4 DEF ReadsFit

LEMMA CallFitsCommit ==
  ASSUME IInv, CallInv, NEW c \in Client, CommitOk(c)
  PROVE  CallInv'
<1>0. /\ TypeOK /\ txn \in [Client -> Txn] /\ DOMAIN call = Client /\ db \in Database
      /\ db' = Apply(db, txn[c])
  BY DEF IInv, TypeOK, CommitOk
<1>1. /\ call' = [call EXCEPT ![c] = NoCall]
      /\ txn' = [x \in Client |->
               IF x = c THEN NoTxn
               ELSE IF call[x].op \in WriteOp THEN Miss(txn[x], txn[c]) ELSE txn[x]]
  BY DEF CommitOk
<1>2. CallFits(c)'
  BY <1>0, <1>1, IdleFits
<1>3. ASSUME NEW x \in Client, x # c
      PROVE  CallFits(x)'
  <2>1. call'[x] = call[x] /\ CallFits(x)
    BY <1>0, <1>1, <1>3 DEF CallInv, CallFits
  <2>2. CASE call[x].op \in WriteOp
    <3>1. txn'[x] = Miss(txn[x], txn[c]) /\ txn[x] \in Txn
      BY <1>0, <1>1, <1>3, <2>2
    <3>2. /\ txn'[x].snap = txn[x].snap /\ txn'[x].reads = txn[x].reads
          /\ txn'[x].strings = txn[x].strings
          /\ txn'[x].missed = txn[x].missed \cup StringsWritten(txn[c])
      BY <3>1 DEF Miss, Txn
    <3>3. LookedUp(txn[x]) => LookedUp(txn[x])'
      BY <3>2 DEF LookedUp, StringsWritten
    <3>4. \A d \in Digest : db'.id2str[d] # NoStr <=>
            db.id2str[d] # NoStr \/ d \in StringsWritten(txn[c])
      BY <1>0, ApplyTyped DEF StringsWritten
    <3>5. Extends(db.id2str, txn[x].snap.id2str)
      BY DEF IInv, TxnConsistent
    <3>6. \A d \in StringsWritten(txn[c]) : d \in Digest /\ txn[x].snap.id2str[d] = NoStr
      BY <3>5, CommitWritesNewStrings DEF Extends, StringsWritten
    <3>7. ReadsFit(x)'
      BY <2>1, <2>2, <3>2, <3>3, <3>4, <3>6 DEF CallFits, ReadsFit
    <3> QED BY <2>1, <2>2, <3>7 DEF CallFits, DoneEncodable, OutputFits, Writing, Done, WriteOp
  <2>3. CASE call[x].op \notin WriteOp
    <3>1. txn'[x] = txn[x]
      BY <1>0, <1>1, <1>3, <2>3
    <3> QED BY <2>1, <2>3, <3>1 DEF CallFits, ReadsFit, DoneEncodable, OutputFits, Writing, Done
  <2> QED BY <2>2, <2>3
<1> QED BY <1>2, <1>3 DEF CallInv, CallFits

-----------------------------------------------------------------------------
(* Reading a query's result.                                               *)

LEMMA DecodeOfKnown ==
  ASSUME NEW dict, NEW term \in Term, Known(dict, term)
  PROVE  DecodeTerm(dict, term) = IF term \in Quoted THEN DecodeError ELSE term
<1>1. StrOf[term] = NoStr \/ dict[Hash[StrOf[term]]] = StrOf[term]
  BY DEF Known
<1> QED BY <1>1 DEF DecodeTerm

LEMMA SelectedTable ==
  ASSUME NEW pat \in Pattern
  PROVE  SelectIndex(pat).table \in DefaultTable \cup QuadTable
  BY DefaultSelection, NamedSelection DEF DefaultTable, QuadTable

(* The keys a query scans and the quads of its answer are one to one.      *)
LEMMA KeysAreQuads ==
  ASSUME NEW d \in Database, Consistent(d), NEW pat \in Pattern,
         NEW k1 \in ScanKeys(d.tables, pat), NEW k2 \in ScanKeys(d.tables, pat),
         DecodeKey(SelectIndex(pat).key, k1) = DecodeKey(SelectIndex(pat).key, k2)
  PROVE  k1 = k2
<1> DEFINE Q == StoredQuads(d.tables)
           index == SelectIndex(pat)
<1>1. index.table \in DefaultTable \cup QuadTable
  BY SelectedTable
<1>2. Q \subseteq Quad /\ d.tables[index.table] = TableOf(index.table, Q)
  BY <1>1 DEF Consistent, AgreesWithSPOG
<1>3. QuadsIn(index.table, Q) \subseteq Quad
  BY <1>2 DEF QuadsIn
<1>4. \A q \in QuadsIn(index.table, Q) :
        DecodeKey(index.key, KeyOf(index.table, q)) = q
  <2>1. \A q \in QuadsIn(index.table, Q) : index.table \in DefaultTable => InDefaultGraph(q)
    BY DEF QuadsIn
  <2> QED BY <1>3, <2>1, ScannedIsMatching
<1>5. \A k \in ScanKeys(d.tables, pat) :
        \E q \in QuadsIn(index.table, Q) : k = KeyOf(index.table, q)
  BY <1>2 DEF ScanKeys, TableOf
<1> QED BY <1>4, <1>5

LEMMA QueryTyped ==
  ASSUME IInv, NEW c \in Client, call[c].op = "query"
  PROVE  /\ call[c] \in [op : {"query"}, pat : Query, seen : SUBSET Seq(Term),
                         out : SUBSET Quad, failed : BOOLEAN]
         /\ call[c].pat \in Pattern
         /\ txn[c].snap \in Database /\ Consistent(txn[c].snap)
         /\ DOMAIN call = Client
<1>1. TypeOK /\ TxnConsistent(c)
  BY DEF IInv
<1>2. call[c] \in [op : {"query"}, pat : Query, seen : SUBSET Seq(Term),
                   out : SUBSET Quad, failed : BOOLEAN]
  BY <1>1, ReadCallTyped
<1> QED BY <1>1, <1>2, CallAssumption DEF TypeOK, TxnConsistent, Txn

(* The record of a query that has read one more key.                       *)
ReadOn(c, k, q) ==
  [call[c] EXCEPT !.seen = call[c].seen \cup {k}, !.out = call[c].out \cup {q}]

(* One step of the iterator: another quad of the answer, delivered if it   *)
(* can be decoded; one that cannot ends the scan.                          *)
LEMMA NextQuadEffect ==
  ASSUME IInv, NEW c \in Client, NextQuad(c)
  PROVE  \E k \in KeysLeft(c) :
           LET q == DecodeKey(SelectIndex(call[c].pat).key, k)
           IN  /\ k \in ScanKeys(txn[c].snap.tables, call[c].pat)
               /\ q \in StoredQuads(txn[c].snap.tables) /\ Delivered(q, call[c].pat)
               /\ call' = [call EXCEPT ![c] =
                             IF Readable(q) THEN ReadOn(c, k, q)
                             ELSE [call[c] EXCEPT !.failed = TRUE]]
<1> DEFINE d == txn[c].snap
           pat == call[c].pat
<1>0. /\ call[c].op = "query" /\ pat \in Pattern /\ d \in Database /\ Consistent(d)
      /\ DOMAIN call = Client
  BY QueryTyped DEF NextQuad
<1>1. PICK k \in KeysLeft(c) :
        LET q == DecodeKey(SelectIndex(pat).key, k)
            read == [pos \in Position |-> DecodeTerm(d.id2str, q[pos])]
        IN  call' = IF \E pos \in Position : read[pos] = DecodeError
                    THEN [call EXCEPT ![c].failed = TRUE]
                    ELSE [call EXCEPT ![c].seen = @ \cup {k}, ![c].out = @ \cup {read}]
  BY DEF NextQuad
<1> DEFINE q == DecodeKey(SelectIndex(pat).key, k)
           read == [pos \in Position |-> DecodeTerm(d.id2str, q[pos])]
<1>2. k \in ScanKeys(d.tables, pat)
  BY DEF KeysLeft
<1>3. q \in StoredQuads(d.tables) /\ Delivered(q, pat)
  <2>1. /\ StoredQuads(d.tables) \in SUBSET Quad
        /\ \A t \in DefaultTable \cup QuadTable : d.tables[t] = TableOf(t, StoredQuads(d.tables))
    BY <1>0 DEF Consistent, AgreesWithSPOG
  <2>2. q \in {r \in StoredQuads(d.tables) : Delivered(r, pat)}
    BY <1>0, <1>2, <2>1, ScanIsAnswer
  <2> QED BY <2>2
<1>4. q \in Quad /\ \A term \in TermsOf(q) : Known(d.id2str, term)
  BY <1>0, <1>3 DEF Consistent, TermsKnown
<1>5. /\ \A pos \in Position : q[pos] \in Term /\ q[pos] \in TermsOf(q)
      /\ \A term \in TermsOf(q) : \E pos \in Position : term = q[pos]
      /\ q = [pos \in Position |-> q[pos]]
  BY <1>4 DEF Quad, TermsOf, Position
<1> HIDE DEF q
<1>6. \A pos \in Position :
        read[pos] = IF q[pos] \in Quoted THEN DecodeError ELSE q[pos]
  BY <1>4, <1>5, DecodeOfKnown
<1>7. (\E pos \in Position : read[pos] = DecodeError) <=> ~Readable(q)
  BY <1>5, <1>6, MarkAssumption DEF Readable
<1>8. Readable(q) => read = q
  <2>1. Readable(q) => \A pos \in Position : read[pos] = q[pos]
    BY <1>5, <1>6 DEF Readable
  <2> QED BY <1>5, <2>1
<1>9. call' = IF \E pos \in Position : read[pos] = DecodeError
              THEN [call EXCEPT ![c].failed = TRUE]
              ELSE [call EXCEPT ![c].seen = @ \cup {k}, ![c].out = @ \cup {read}]
  BY <1>1 DEF q
<1> HIDE DEF read
<1>10. call' = [call EXCEPT ![c] =
                  IF Readable(q) THEN ReadOn(c, k, q)
                  ELSE [call[c] EXCEPT !.failed = TRUE]]
  <2>1. CASE Readable(q)
    <3>1. call' = [call EXCEPT ![c].seen = @ \cup {k}, ![c].out = @ \cup {q}]
      BY <1>7, <1>8, <1>9, <2>1
    <3> QED BY <1>0, <2>1, <3>1 DEF ReadOn
  <2>2. CASE ~Readable(q)
    BY <1>0, <1>7, <1>9, <2>2
  <2> QED BY <2>1, <2>2
<1> QED BY <1>2, <1>3, <1>10 DEF q

LEMMA CallFitsNext ==
  ASSUME IInv, CallInv, NEW c \in Client, NextQuad(c)
  PROVE  CallInv'
<1> DEFINE d == txn[c].snap
           pat == call[c].pat
           q(k) == DecodeKey(SelectIndex(pat).key, k)
<1>1. PICK k \in KeysLeft(c) :
        /\ k \in ScanKeys(d.tables, pat)
        /\ call' = [call EXCEPT ![c] =
             IF Readable(q(k)) THEN ReadOn(c, k, q(k))
             ELSE [call[c] EXCEPT !.failed = TRUE]]
  BY NextQuadEffect
<1>2. /\ call[c].op = "query" /\ DOMAIN call = Client
      /\ call[c] \in [op : {"query"}, pat : Query, seen : SUBSET Seq(Term),
                      out : SUBSET Quad, failed : BOOLEAN]
  BY QueryTyped DEF NextQuad
<1>3. /\ db' = db /\ txn' = txn
      /\ \A x \in Client \ {c} : txn'[x] = txn[x] /\ call'[x] = call[x]
  BY <1>1, <1>2 DEF NextQuad
<1>4. /\ call'[c].op = "query" /\ call'[c].pat = pat
      /\ \/ call'[c].seen = call[c].seen /\ call'[c].out = call[c].out
         \/ call'[c].seen = call[c].seen \cup {k} /\ call'[c].out = call[c].out \cup {q(k)}
  BY <1>1, <1>2 DEF ReadOn
<1>5. OutputFits(c)'
  <2> DEFINE keys == ScanKeys(d.tables, pat)
             Fits(r) == r.seen \subseteq keys /\ r.out = {q(x) : x \in r.seen}
  <2>1. Fits(call[c])
    BY <1>2 DEF CallInv, OutputFits
  <2>2. k \in keys
    BY <1>1
  <2>3. Fits(call'[c])
    <3> HIDE DEF keys, q
    <3> QED BY <1>4, <2>1, <2>2
  <2>4. txn'[c].snap = d /\ call'[c].pat = pat
    BY <1>3, <1>4
  <2> QED BY <2>3, <2>4 DEF OutputFits
<1>6. CallFits(c)'
  BY <1>4, <1>5 DEF CallFits, ReadsFit, DoneEncodable, Writing, WriteOp
<1> QED BY <1>3, <1>6, OwnStep

LEMMA CallInvInit == Init => CallInv
<1> SUFFICES ASSUME Init, NEW c \in Client PROVE CallFits(c)
  BY DEF CallInv, CallFits
<1>1. call[c].op = "none"
  BY DEF Init, NoCall
<1> QED BY <1>1 DEF CallFits, ReadsFit, DoneEncodable, OutputFits, Writing, WriteOp

LEMMA CallInvNext ==
  ASSUME IInv, CallInv, [Next]_vars
  PROVE  CallInv'
<1>1. ASSUME NEW c \in Writer, NEW op \in WriteOp, NEW batch \in Batch, CallWrite(c, op, batch)
      PROVE  CallInv'
  BY <1>1, CallFitsEnter
<1>2. ASSUME NEW c \in Writer, WriteStep(c)
      PROVE  CallInv'
  <2>0. c \in Client
    BY DEF Client
  <2>1. CASE InsertStep(c) \/ InsertError(c)
    BY <2>0, <2>1, CallFitsInsert
  <2>2. CASE DeleteStep(c) \/ DeleteError(c)
    BY <2>0, <2>2, CallFitsDelete
  <2>3. CASE CommitOk(c)
    BY <2>0, <2>3, CallFitsCommit
  <2>4. CASE CommitConflict(c) \/ Rollback(c)
    BY <2>0, <2>4, LeaveFits DEF CommitConflict, Rollback
  <2> QED BY <1>2, <2>1, <2>2, <2>3, <2>4 DEF WriteStep
<1>3. ASSUME NEW c \in Reader,
             \/ \E q \in Probe : CallContains(c, q)
             \/ CallCount(c)
             \/ \E pat \in Query : CallQuery(c, pat)
      PROVE  CallInv'
  BY <1>3, CallFitsEnter
<1>4. ASSUME NEW c \in Reader, (\E pat \in Query : RejectQuery(c, pat)) \/ ReadStep(c)
      PROVE  CallInv'
  <2>0. c \in Client
    BY DEF Client
  <2>1. CASE NextQuad(c)
    BY <2>0, <2>1, CallFitsNext
  <2>2. CASE ~NextQuad(c)
    BY <1>4, <2>0, <2>2, LeaveFits
    DEF ReadStep, RejectQuery, ReturnContains, ReturnCount, CloseQuery
  <2> QED BY <2>1, <2>2
<1>5. CASE Persist \/ UNCHANGED vars
  BY <1>5, CallKept DEF Persist, vars, CallInv, CallFits
<1>6. CASE Crash
  BY <1>6, IdleFits DEF Crash, CallInv, CallFits
<1> QED BY <1>1, <1>2, <1>3, <1>4, <1>5, <1>6 DEF Next

(* Every string an open transaction writes it has looked up in vain, and   *)
(* it has missed exactly what was committed of its snapshot's gaps; every  *)
(* quad an open write call has done can be encoded; and every query has    *)
(* delivered the quads of the keys it has read, once each.                 *)
THEOREM CallInvariance == Spec => []CallInv
<1>1. IInv /\ CallInv /\ [Next]_vars => CallInv'
  BY CallInvNext
<1> QED BY <1>1, CallInvInit, Invariance, PTL DEF Spec

(* Database, buffers and calls under way fit together in every state: the  *)
(* invariant that the runs check.                                          *)
THEOREM StoreInvariance == Spec => []StoreInv
BY Invariance, CallInvariance, PTL DEF StoreInv

-----------------------------------------------------------------------------
(* Conflicts.                                                              *)

(* A transaction that conflicts is an insert, and one of the strings it    *)
(* looked up in vain has been committed since.                             *)
LEMMA ConflictCause ==
  ASSUME CallInv, NEW c \in Client, call[c].op \in WriteOp, Conflicts(txn[c])
  PROVE  /\ call[c].op = "insert"
         /\ \E d \in Digest : txn[c].snap.id2str[d] = NoStr /\ db.id2str[d] # NoStr
  BY DEF CallInv, ReadsFit, Conflicts, WriteOp

(* Only CommitConflict returns a conflict.                                 *)
LEMMA ConflictReturned ==
  ASSUME IInv, [Next]_vars, NEW c \in Client,
         ret'[c].kind = "conflict", ret[c].kind # "conflict"
  PROVE  CommitConflict(c)
<1>0. DOMAIN ret = Client
  BY DEF IInv, TypeOK
<1>1. ASSUME NEW x \in Client, NEW r, ret' = [ret EXCEPT ![x] = r], r.kind # "conflict"
      PROVE  FALSE
  BY <1>0, <1>1
<1>2. ASSUME NEW x \in Writer,
             \/ \E op \in WriteOp, batch \in Batch : CallWrite(x, op, batch)
             \/ WriteStep(x)
      PROVE  CommitConflict(c)
  <2>0. x \in Client
    BY DEF Client
  <2>1. CASE ret' = ret
    BY <2>1
  <2>2. CASE CommitConflict(x)
    BY <1>0, <2>0, <2>2 DEF CommitConflict, Leave
  <2>3. CASE \E op \in WriteOp, batch \in Batch : CallWrite(x, op, batch)
    BY <1>1, <2>0, <2>3 DEF CallWrite, Enter, NoRet
  <2>4. CASE CommitOk(x)
    BY <1>1, <2>0, <2>4 DEF CommitOk, Ret
  <2>5. CASE Rollback(x)
    BY <1>1, <2>0, <2>5 DEF Rollback, Leave, Ret
  <2>6. InsertStep(x) \/ DeleteStep(x) \/ InsertError(x) \/ DeleteError(x) => ret' = ret
    BY DEF InsertStep, DeleteStep, InsertError, DeleteError
  <2> QED BY <1>2, <2>1, <2>2, <2>3, <2>4, <2>5, <2>6 DEF WriteStep
<1>3. ASSUME NEW x \in Reader,
             \/ \E q \in Probe : CallContains(x, q)
             \/ CallCount(x)
             \/ \E pat \in Query : CallQuery(x, pat) \/ RejectQuery(x, pat)
             \/ ReadStep(x)
      PROVE  FALSE
  <2>0. x \in Client
    BY DEF Client
  <2>1. NextQuad(x) => ret' = ret
    BY DEF NextQuad
  <2>2. CASE \/ \E q \in Probe : CallContains(x, q)
             \/ CallCount(x)
             \/ \E pat \in Query : CallQuery(x, pat)
    BY <1>1, <2>0, <2>2 DEF CallContains, CallCount, CallQuery, Enter, NoRet
  <2>3. CASE ReturnContains(x)
    <3>1. PICK r : Leave(x, r) /\ r.kind # "conflict"
      BY <2>3 DEF ReturnContains, Ret
    <3> QED BY <1>1, <2>0, <3>1 DEF Leave
  <2>4. CASE ReturnCount(x)
    BY <1>1, <2>0, <2>4 DEF ReturnCount, Leave, RetCount
  <2>5. CASE CloseQuery(x)
    <3>1. PICK r : Leave(x, r) /\ r.kind # "conflict"
      BY <2>5 DEF CloseQuery, Ret
    <3> QED BY <1>1, <2>0, <3>1 DEF Leave
  <2>6. CASE \E pat \in Query : RejectQuery(x, pat)
    BY <1>1, <2>0, <2>6 DEF RejectQuery, Leave, Ret
  <2> QED BY <1>3, <2>1, <2>2, <2>3, <2>4, <2>5, <2>6 DEF ReadStep
<1>4. Persist \/ UNCHANGED vars => ret' = ret
  BY DEF Persist, vars
<1>5. ~Crash
  BY DEF Crash, NoRet
<1> QED BY <1>2, <1>3, <1>4, <1>5 DEF Next

(* A commit is refused only to an insert, and only when a string that was  *)
(* missing when it began has been committed since.                         *)
THEOREM ConflictsExplained == Spec => ConflictOnlyOverNewStrings
<1> DEFINE Explained ==
      \A c \in Writer :
        ret'[c].kind = "conflict" /\ ret[c].kind # "conflict" =>
          /\ call[c].op = "insert"
          /\ \E d \in Digest : txn[c].snap.id2str[d] = NoStr /\ db.id2str[d] # NoStr
<1>1. IInv /\ CallInv /\ [Next]_vars => [Explained]_vars
  <2> SUFFICES ASSUME IInv, CallInv, [Next]_vars, NEW c \in Writer,
                      ret'[c].kind = "conflict", ret[c].kind # "conflict"
               PROVE  /\ call[c].op = "insert"
                      /\ \E d \in Digest : txn[c].snap.id2str[d] = NoStr /\ db.id2str[d] # NoStr
    OBVIOUS
  <2>1. c \in Client /\ CommitConflict(c)
    BY ConflictReturned DEF Client
  <2> QED BY <2>1, ConflictCause DEF CommitConflict, ReadyToCommit, Writing
<1> QED BY <1>1, Invariance, CallInvariance, PTL DEF Spec, ConflictOnlyOverNewStrings

-----------------------------------------------------------------------------
(* The store implements QuadStore.  First the calls as the abstract store  *)
(* sees them.                                                              *)

LEMMA AbstractedWrite ==
  ASSUME NEW r, NEW at, r.op \in WriteOp
  PROVE  Abstracted(r, at) = [op |-> r.op, batch |-> r.batch]
<1>1. r # NoCall /\ r.op \notin {"contains", "count", "query"}
  BY DEF NoCall, WriteOp
<1> QED BY <1>1 DEF Abstracted

LEMMA AbstractedIdle == \A at : Abstracted(NoCall, at) = NoCall
<1>1. NoCall.op \notin WriteOp \cup {"contains", "count", "query"}
  BY DEF NoCall, WriteOp
<1> QED BY <1>1 DEF Abstracted

LEMMA AbstractedRead ==
  ASSUME NEW r, NEW at
  PROVE  /\ r.op = "contains" =>
              Abstracted(r, at) = [op |-> "contains", quad |-> r.quad, at |-> at]
         /\ r.op = "count" => Abstracted(r, at) = [op |-> "count", at |-> at]
         /\ r.op = "query" =>
              Abstracted(r, at) = [op |-> "query", pat |-> r.pat, at |-> at,
                                   out |-> r.out, failed |-> r.failed]
<1>1. r.op \in {"contains", "count", "query"} => r # NoCall /\ r.op \notin WriteOp
  BY DEF NoCall, WriteOp
<1>2. CASE r.op = "contains"
  BY <1>1, <1>2 DEF Abstracted
<1>3. CASE r.op = "count"
  BY <1>1, <1>3 DEF Abstracted
<1>4. CASE r.op = "query"
  BY <1>1, <1>4 DEF Abstracted
<1> QED BY <1>2, <1>3, <1>4

Calls == [c \in Client |-> AbstractCall(c)]

(* A step of c alone changes the abstract call of c alone.                 *)
LEMMA AbstractOthers ==
  ASSUME NEW c \in Client,
         \A x \in Client \ {c} : call'[x] = call[x] /\ txn'[x].snap = txn[x].snap
  PROVE  Calls' = [Calls EXCEPT ![c] = AbstractCall(c)']
<1>1. \A x \in Client \ {c} : AbstractCall(x)' = AbstractCall(x)
  BY DEF AbstractCall
<1> QED BY <1>1 DEF Calls

LEMMA AbstractInit == Init => Abstract!Init
<1> SUFFICES ASSUME Init PROVE Abstract!Init
  OBVIOUS
<1>1. StoredQuads(EmptyDatabase.tables) = {}
  BY DEF StoredQuads, EmptyDatabase, Table, QuadTable
<1>2. \A c \in Client : AbstractCall(c) = NoCall
  BY AbstractedIdle DEF Init, AbstractCall
<1> QED BY <1>1, <1>2
        DEF Init, Abstract!Init, Abstract!NoCall, Abstract!NoRet, Abstract!Client, Client,
            NoCall, NoRet

(* A step that leaves the database, the results and, seen from the         *)
(* abstract store, the calls alone.                                        *)
LEMMA AbstractStutter ==
  ASSUME TypeOK, db' = db, durable' = durable, ret' = ret,
         \A x \in Client : AbstractCall(x)' = AbstractCall(x)
  PROVE  UNCHANGED Abstract!vars
  BY DEF Abstract!vars

(* Beginning and ending a call.                                            *)
LEMMA AbstractEnter ==
  ASSUME TypeOK, NEW c \in Client, NEW record, Enter(c, record)
  PROVE  /\ Abstract!Enter(c, AbstractCall(c)')
         /\ call'[c] = record /\ txn'[c].snap = db
<1>1. /\ call'[c] = record /\ txn'[c] = Begin(db) /\ ret' = [ret EXCEPT ![c] = NoRet]
      /\ db' = db /\ durable' = durable
      /\ \A x \in Client \ {c} : call'[x] = call[x] /\ txn'[x] = txn[x]
  BY DEF TypeOK, Enter
<1>2. txn'[c].snap = db
  BY <1>1 DEF Begin
<1>3. Calls' = [Calls EXCEPT ![c] = AbstractCall(c)']
  BY <1>1, AbstractOthers
<1>4. AbstractCall(c) = NoCall
  BY AbstractedIdle DEF Enter, Idle, AbstractCall
<1> QED BY <1>1, <1>2, <1>3, <1>4
        DEF Abstract!Enter, Abstract!Idle, Abstract!NoCall, Abstract!NoRet, NoCall, NoRet, Calls

LEMMA AbstractLeave ==
  ASSUME TypeOK, NEW c \in Client, NEW r, Leave(c, r)
  PROVE  /\ Abstract!Return(c, r)
         /\ UNCHANGED <<StoredQuads(db.tables), StoredQuads(durable.tables)>>
<1>1. /\ call'[c] = NoCall /\ ret' = [ret EXCEPT ![c] = r]
      /\ db' = db /\ durable' = durable
      /\ \A x \in Client \ {c} : call'[x] = call[x] /\ txn'[x] = txn[x]
  BY DEF TypeOK, Leave
<1>2. Calls' = [Calls EXCEPT ![c] = AbstractCall(c)']
  BY <1>1, AbstractOthers
<1>3. AbstractCall(c)' = NoCall
  BY <1>1, AbstractedIdle DEF AbstractCall
<1> QED BY <1>1, <1>2, <1>3 DEF Abstract!Return, Abstract!NoCall, NoCall, Calls

(* The four calls, each answered from what is stored when it begins.       *)
LEMMA WriteBegins ==
  ASSUME TypeOK, NEW c \in Writer, NEW op \in WriteOp, NEW batch \in Batch, CallWrite(c, op, batch)
  PROVE  Abstract!Next
<1>0. c \in Client
  BY DEF Client
<1>1. call'[c] = [op |-> op, batch |-> batch, next |-> 1, failed |-> FALSE]
  BY <1>0, AbstractEnter DEF CallWrite
<1>2. AbstractCall(c)' = [op |-> op, batch |-> batch]
  BY <1>1, AbstractedWrite DEF AbstractCall
<1>3. Abstract!Enter(c, [op |-> op, batch |-> batch])
  BY <1>0, <1>2, AbstractEnter DEF CallWrite
<1> QED BY <1>3 DEF Abstract!Next, Abstract!CallWrite, WriteOp

LEMMA ReadBegins ==
  ASSUME TypeOK, NEW c \in Reader,
         \/ \E q \in Probe : CallContains(c, q)
         \/ CallCount(c)
         \/ \E pat \in Query : CallQuery(c, pat)
  PROVE  Abstract!Next
<1> DEFINE at == StoredQuads(db.tables)
<1>0. c \in Client
  BY DEF Client
<1>1. ASSUME NEW q \in Probe, CallContains(c, q)
      PROVE  Abstract!CallContains(c, q)
  <2>1. call'[c] = [op |-> "contains", quad |-> q] /\ txn'[c].snap = db
    BY <1>0, <1>1, AbstractEnter DEF CallContains
  <2>2. AbstractCall(c)' = [op |-> "contains", quad |-> q, at |-> at]
    BY <2>1, AbstractedRead DEF AbstractCall
  <2> QED BY <1>0, <1>1, <2>2, AbstractEnter DEF CallContains, Abstract!CallContains
<1>2. ASSUME CallCount(c)
      PROVE  Abstract!CallCount(c)
  <2>1. call'[c] = [op |-> "count"] /\ txn'[c].snap = db
    BY <1>0, <1>2, AbstractEnter DEF CallCount
  <2>2. AbstractCall(c)' = [op |-> "count", at |-> at]
    BY <2>1, AbstractedRead DEF AbstractCall
  <2> QED BY <1>0, <1>2, <2>2, AbstractEnter DEF CallCount, Abstract!CallCount
<1>3. ASSUME NEW pat \in Query, CallQuery(c, pat)
      PROVE  Abstract!CallQuery(c, pat)
  <2>1. /\ call'[c] = [op |-> "query", pat |-> pat, seen |-> {}, out |-> {}, failed |-> FALSE]
        /\ txn'[c].snap = db
    BY <1>0, <1>3, AbstractEnter DEF CallQuery
  <2>2. AbstractCall(c)' = [op |-> "query", pat |-> pat, at |-> at, out |-> {}, failed |-> FALSE]
    <3> DEFINE r == [op |-> "query", pat |-> pat, seen |-> {}, out |-> {}, failed |-> FALSE]
    <3>1. r.op = "query" /\ r.pat = pat /\ r.out = {} /\ r.failed = FALSE
      OBVIOUS
    <3>2. call'[c] = r
      BY <2>1
    <3> HIDE DEF r
    <3>3. Abstracted(r, at) = [op |-> "query", pat |-> pat, at |-> at, out |-> {}, failed |-> FALSE]
      BY <3>1, AbstractedRead
    <3> QED BY <2>1, <3>2, <3>3 DEF AbstractCall
  <2>3. Abstract!Enter(c, [op |-> "query", pat |-> pat, at |-> at, out |-> {}, failed |-> FALSE])
    BY <1>0, <1>3, <2>2, AbstractEnter DEF CallQuery
  <2> QED BY <1>3, <2>3
          DEF CallQuery, PatternTerms, Position,
              Abstract!CallQuery, Abstract!PatternTerms, Abstract!Position
<1> QED BY <1>1, <1>2, <1>3 DEF Abstract!Next

(* A quad of a batch, written or failed, is not seen from outside.         *)
LEMMA QuadStepHidden ==
  ASSUME IInv, NEW c \in Client,
         InsertStep(c) \/ DeleteStep(c) \/ InsertError(c) \/ DeleteError(c)
  PROVE  UNCHANGED Abstract!vars
<1>0. TypeOK /\ HasQuadLeft(c) /\ call[c].op \in WriteOp /\ call[c] \in WriteCall /\ DOMAIN call = Client
  <2>1. TypeOK /\ HasQuadLeft(c) /\ call[c].op \in WriteOp
    BY DEF IInv, InsertStep, DeleteStep, InsertError, DeleteError, HasQuadLeft, Writing
  <2> QED BY <2>1, WriteCallTyped DEF TypeOK
<1>1. /\ db' = db /\ durable' = durable /\ ret' = ret
      /\ \A x \in Client \ {c} : txn'[x] = txn[x] /\ call'[x] = call[x]
  BY <1>0 DEF TypeOK, InsertStep, DeleteStep, InsertError, DeleteError
<1>2. call'[c].op = call[c].op /\ call'[c].batch = call[c].batch
  <2>1. call' = [call EXCEPT ![c].next = @ + 1] \/ call' = [call EXCEPT ![c].failed = TRUE]
    BY DEF InsertStep, DeleteStep, InsertError, DeleteError
  <2> QED BY <1>0, <2>1 DEF WriteCall
<1>3. AbstractCall(c)' = AbstractCall(c)
  BY <1>0, <1>2, AbstractedWrite DEF AbstractCall
<1>4. \A x \in Client : AbstractCall(x)' = AbstractCall(x)
  BY <1>1, <1>3 DEF AbstractCall
<1> QED BY <1>0, <1>1, <1>4, AbstractStutter

(* A commit is the instant at which the whole batch takes effect.          *)
LEMMA CommitIsWriteOk ==
  ASSUME IInv, CallInv, NEW c \in Client, CommitOk(c)
  PROVE  Abstract!WriteOk(c)
<1> DEFINE R == {call[c].batch[j] : j \in DOMAIN call[c].batch}
<1>0. /\ TypeOK /\ Writing(c) /\ call[c].op \in WriteOp /\ NextInBatch(c)
      /\ call[c].next \notin DOMAIN call[c].batch
      /\ txn \in [Client -> Txn] /\ DOMAIN call = Client
  BY DEF IInv, TypeOK, CommitOk, ReadyToCommit, Writing, TxnConsistent
<1>1. /\ call' = [call EXCEPT ![c] = NoCall]
      /\ txn' = [x \in Client |->
               IF x = c THEN NoTxn
               ELSE IF call[x].op \in WriteOp THEN Miss(txn[x], txn[c]) ELSE txn[x]]
      /\ ret' = [ret EXCEPT ![c] = Ret("ok")] /\ durable' = durable
  BY DEF CommitOk
<1>2. \A x \in Client \ {c} : call'[x] = call[x] /\ txn'[x].snap = txn[x].snap
  <2>1. \A x \in Client : Miss(txn[x], txn[c]).snap = txn[x].snap
    BY <1>0, MissTyped
  <2> QED BY <1>0, <1>1, <2>1
<1>3. Calls' = [Calls EXCEPT ![c] = NoCall]
  <2>1. AbstractCall(c)' = NoCall
    BY <1>0, <1>1, AbstractedIdle DEF AbstractCall
  <2> QED BY <1>2, <2>1, AbstractOthers
<1>4. Calls[c] = [op |-> call[c].op, batch |-> call[c].batch]
  BY <1>0, AbstractedWrite DEF AbstractCall, Calls
<1>5. StoredQuads(db'.tables) = IF call[c].op = "insert" THEN StoredQuads(db.tables) \cup R
                                ELSE StoredQuads(db.tables) \ R
  BY CommitEffect
<1>6. \A q \in R : Encodable(q)
  <2>1. R = Done(c)
    BY <1>0, DoneTyped
  <2> QED BY <1>0, <2>1 DEF CallInv, DoneEncodable
<1>7. Abstract!QuadsOf(Calls[c].batch) = R
  BY <1>4 DEF Abstract!QuadsOf
<1>8. \A q \in R : Abstract!Encodable(q)
  BY <1>6 DEF Encodable, TermsOf, Abstract!Encodable, Abstract!TermsOf
<1>9. Abstract!Return(c, Abstract!Ret("ok"))
  BY <1>1, <1>3 DEF Abstract!Return, Abstract!Ret, Abstract!NoCall, NoCall, Ret, Calls
<1> HIDE DEF R
<1>10. call[c].op = "insert" \/ call[c].op = "delete"
  BY <1>0 DEF WriteOp
<1>11. Calls[c].op = call[c].op
  BY <1>4
<1> QED BY <1>1, <1>5, <1>7, <1>8, <1>9, <1>10, <1>11 DEF Abstract!WriteOk, Calls

(* A call that loses a conflict or rolls back an error has no effect.      *)
LEMMA FailureIsWriteFails ==
  ASSUME IInv, CallInv, NEW c \in Client, CommitConflict(c) \/ Rollback(c)
  PROVE  Abstract!WriteFails(c)
<1>0. TypeOK /\ call[c].op \in WriteOp
  BY DEF IInv, CommitConflict, Rollback, ReadyToCommit, Writing
<1>1. Calls[c].op = call[c].op
  BY <1>0, AbstractedWrite DEF AbstractCall, Calls
<1>2. CASE CommitConflict(c)
  <2>1. call[c].op = "insert"
    BY <1>0, <1>2, ConflictCause DEF CommitConflict
  <2>2. Leave(c, Ret("conflict"))
    BY <1>2 DEF CommitConflict
  <2> QED BY <1>0, <1>1, <2>1, <2>2, AbstractLeave
          DEF Abstract!WriteFails, Abstract!Ret, Ret, Calls
<1>3. CASE Rollback(c)
  <2>1. Leave(c, Ret("error"))
    BY <1>3 DEF Rollback
  <2> QED BY <1>0, <1>1, <2>1, AbstractLeave
          DEF Abstract!WriteFails, Abstract!Ret, Ret, Calls, WriteOp
<1> QED BY <1>2, <1>3

LEMMA RejectIsReject ==
  ASSUME TypeOK, NEW c \in Client, NEW pat \in Query, RejectQuery(c, pat)
  PROVE  Abstract!RejectQuery(c, pat)
<1>1. Calls[c] = Abstract!NoCall
  BY AbstractedIdle DEF RejectQuery, Idle, Calls, AbstractCall, Abstract!NoCall, NoCall
<1>2. Leave(c, Ret("error"))
  BY DEF RejectQuery
<1>3. Abstract!PatternTerms(pat) \cap Unencodable # {}
  BY DEF RejectQuery, PatternTerms, Position, Abstract!PatternTerms, Abstract!Position
<1> QED BY <1>1, <1>2, <1>3, AbstractLeave
        DEF Abstract!RejectQuery, Abstract!Idle, Abstract!Ret, Ret, Calls

(* The SPOG table and the set of quads it stands for.                      *)
LEMMA SPOGKeys ==
  ASSUME NEW d \in Database, Consistent(d)
  PROVE  /\ \A q \in Quad : KeyOf("SPOG", q) \in d.tables["SPOG"] <=> q \in StoredQuads(d.tables)
         /\ Cardinality(d.tables["SPOG"]) = Cardinality(StoredQuads(d.tables))
<1> DEFINE Q == StoredQuads(d.tables)
           K == d.tables["SPOG"]
<1>1. Q \in SUBSET Quad /\ IsFiniteSet(K) /\ K = {KeyOf("SPOG", q) : q \in Q}
  BY DEF Consistent, AgreesWithSPOG, TableOf, QuadsIn, DefaultTable, QuadTable
<1>2. \A q1, q2 \in Quad : KeyOf("SPOG", q1) = KeyOf("SPOG", q2) => q1 = q2
  BY KeyOfInjective DEF DefaultTable, QuadTable
<1>3. \A q \in Quad : KeyOf("SPOG", q) \in K <=> q \in Q
  BY <1>1, <1>2
<1>4. Cardinality(K) = Cardinality(Q)
  <2> DEFINE f == [k \in K |-> DecodeKey(KeyOrder["SPOG"], k)]
  <2>1. \A q \in Q : DecodeKey(KeyOrder["SPOG"], KeyOf("SPOG", q)) = q
    BY <1>1, DecodeSPOG
  <2>2. \A k \in K : f[k] \in Q /\ KeyOf("SPOG", f[k]) = k
    BY <1>1, <2>1
  <2>3. \A q \in Q : KeyOf("SPOG", q) \in K /\ f[KeyOf("SPOG", q)] = q
    BY <1>1, <2>1
  <2>4. f \in [K -> Q]
    BY <2>2
  <2> HIDE DEF Q, K, f
  <2>5. f \in Bijection(K, Q)
    BY <2>2, <2>3, <2>4 DEF Bijection, Injection, Surjection, IsInjective
  <2>6. ExistsBijection(K, Q)
    BY <2>5 DEF ExistsBijection
  <2> QED BY <1>1, <2>6, FS_Bijection
<1> QED BY <1>3, <1>4

LEMMA SnapConsistent ==
  ASSUME IInv, NEW c \in Client
  PROVE  txn[c].snap \in Database /\ Consistent(txn[c].snap)
<1>1. TxnConsistent(c) /\ txn[c] \in Txn
  BY DEF IInv, TypeOK
<1> QED BY <1>1 DEF TxnConsistent, Txn

LEMMA ReadCallQuad ==
  ASSUME NEW r \in ReadCall, r.op = "contains"
  PROVE  r.quad \in Quad
  BY DEF ReadCall

LEMMA ContainsAnswers ==
  ASSUME IInv, NEW c \in Client, ReturnContains(c)
  PROVE  Abstract!ReturnContains(c)
<1> DEFINE q == call[c].quad
           at == StoredQuads(txn[c].snap.tables)
<1>1. TypeOK /\ call[c].op = "contains"
  BY DEF IInv, ReturnContains
<1>2. q \in Quad
  <2>1. call[c] \in {NoCall} \cup WriteCall \cup ReadCall
    BY <1>1 DEF TypeOK
  <2>2. call[c] # NoCall /\ call[c] \notin WriteCall
    BY <1>1 DEF NoCall, WriteCall, WriteOp
  <2> QED BY <1>1, <2>1, <2>2, ReadCallQuad
<1>3. Calls[c] = [op |-> "contains", quad |-> q, at |-> at]
  BY <1>1, AbstractedRead DEF Calls, AbstractCall
<1>4. KeyOf("SPOG", q) \in txn[c].snap.tables["SPOG"] <=> q \in at
  BY <1>2, SnapConsistent, SPOGKeys
<1>5. Leave(c, IF ~Encodable(q) THEN Ret("error") ELSE IF q \in at THEN Ret("yes") ELSE Ret("no"))
  BY <1>4 DEF ReturnContains
<1>6. Encodable(q) <=> Abstract!Encodable(q)
  BY DEF Encodable, TermsOf, Abstract!Encodable, Abstract!TermsOf
<1>7. Calls[c].op = "contains" /\ Calls[c].quad = q /\ Calls[c].at = at
  BY <1>3
<1> HIDE DEF q, at
<1> DEFINE r == IF ~Encodable(q) THEN Ret("error") ELSE IF q \in at THEN Ret("yes") ELSE Ret("no")
<1>8. r = IF ~Abstract!Encodable(Calls[c].quad) THEN Abstract!Ret("error")
          ELSE IF Calls[c].quad \in Calls[c].at THEN Abstract!Ret("yes") ELSE Abstract!Ret("no")
  <2>1. r = IF ~Abstract!Encodable(q) THEN Abstract!Ret("error")
            ELSE IF q \in at THEN Abstract!Ret("yes") ELSE Abstract!Ret("no")
    BY <1>6 DEF Abstract!Ret, Ret
  <2> QED BY <1>7, <2>1
<1>9. Abstract!Return(c, r) /\ UNCHANGED <<StoredQuads(db.tables), StoredQuads(durable.tables)>>
  BY <1>1, <1>5, AbstractLeave
<1> HIDE DEF r
<1> QED BY <1>7, <1>8, <1>9 DEF Abstract!ReturnContains, Calls

LEMMA SameCardinality == \A S : Abstract!Cardinality(S) = Cardinality(S)
  BY Zenon DEF Cardinality, Abstract!Cardinality

LEMMA CountAnswers ==
  ASSUME IInv, NEW c \in Client, ReturnCount(c)
  PROVE  Abstract!ReturnCount(c)
<1> DEFINE at == StoredQuads(txn[c].snap.tables)
<1>1. TypeOK /\ call[c].op = "count"
  BY DEF IInv, ReturnCount
<1>2. Calls[c] = [op |-> "count", at |-> at]
  BY <1>1, AbstractedRead DEF Calls, AbstractCall
<1>3. Leave(c, RetCount(Cardinality(at)))
  BY SnapConsistent, SPOGKeys DEF ReturnCount
<1> HIDE DEF at
<1> QED BY <1>1, <1>2, <1>3, AbstractLeave, SameCardinality
        DEF Abstract!ReturnCount, Abstract!RetCount, RetCount, Calls

(* The answer of a query, from the keys of its scan.                       *)
LEMMA AnswerOfScan ==
  ASSUME IInv, NEW c \in Client, call[c].op = "query"
  PROVE  Abstract!Answer(StoredQuads(txn[c].snap.tables), call[c].pat)
           = {DecodeKey(SelectIndex(call[c].pat).key, k) :
                k \in ScanKeys(txn[c].snap.tables, call[c].pat)}
<1> DEFINE d == txn[c].snap
           pat == call[c].pat
           Q == StoredQuads(d.tables)
<1>1. pat \in Pattern /\ d \in Database /\ Consistent(d)
  BY QueryTyped
<1>2. Q \in SUBSET Quad /\ \A t \in DefaultTable \cup QuadTable : d.tables[t] = TableOf(t, Q)
  BY <1>1 DEF Consistent, AgreesWithSPOG
<1>3. {DecodeKey(SelectIndex(pat).key, k) : k \in ScanKeys(d.tables, pat)}
        = {q \in Q : Delivered(q, pat)}
  BY <1>1, <1>2, ScanIsAnswer
<1>4. Abstract!Answer(Q, pat) = {q \in Q : Delivered(q, pat)}
  BY DEF Abstract!Answer, Abstract!Delivered, Abstract!Matches, Abstract!InDefaultGraph, Delivered, Matches, InDefaultGraph
<1> QED BY <1>3, <1>4

LEMMA NextQuadIsYield ==
  ASSUME IInv, CallInv, NEW c \in Client, NextQuad(c)
  PROVE  Abstract!Yield(c)
<1> DEFINE d == txn[c].snap
           pat == call[c].pat
           at == StoredQuads(d.tables)
           quad(k) == DecodeKey(SelectIndex(pat).key, k)
<1>0. /\ call[c].op = "query" /\ ~call[c].failed /\ DOMAIN call = Client
      /\ pat \in Pattern /\ d \in Database /\ Consistent(d) /\ OutputFits(c)
      /\ call[c] \in [op : {"query"}, pat : Query, seen : SUBSET Seq(Term),
                      out : SUBSET Quad, failed : BOOLEAN]
  BY QueryTyped DEF NextQuad, CallInv
<1>1. PICK k \in KeysLeft(c) :
        /\ k \in ScanKeys(d.tables, pat)
        /\ call' = [call EXCEPT ![c] =
             IF Readable(quad(k)) THEN ReadOn(c, k, quad(k))
             ELSE [call[c] EXCEPT !.failed = TRUE]]
  BY NextQuadEffect
<1>2. quad(k) \in Abstract!Answer(at, pat)
  BY <1>0, <1>1, AnswerOfScan
<1>3. quad(k) \notin call[c].out
  <2>1. k \notin call[c].seen
    BY DEF KeysLeft
  <2>2. \A k2 \in call[c].seen : quad(k2) # quad(k)
    <3>1. call[c].seen \subseteq ScanKeys(d.tables, pat)
      BY <1>0 DEF OutputFits
    <3> QED BY <1>0, <1>1, <2>1, <3>1, KeysAreQuads
  <2>3. call[c].out = {quad(k2) : k2 \in call[c].seen}
    BY <1>0 DEF OutputFits
  <2> HIDE DEF quad
  <2> QED BY <2>2, <2>3
<1> DEFINE q == quad(k)
<1> HIDE DEF quad
<1>4. Calls[c] = [op |-> "query", pat |-> pat, at |-> at, out |-> call[c].out,
                  failed |-> call[c].failed]
  BY <1>0, AbstractedRead DEF Calls, AbstractCall
<1>5. /\ \A x \in Client \ {c} : call'[x] = call[x] /\ txn'[x].snap = txn[x].snap
      /\ txn' = txn /\ db' = db /\ durable' = durable /\ ret' = ret
  BY <1>0, <1>1 DEF NextQuad
<1>6. Calls' = [Calls EXCEPT ![c] = AbstractCall(c)']
  BY <1>5, AbstractOthers
<1>7. Readable(q) <=> Abstract!Readable(q)
  BY DEF Readable, TermsOf, Abstract!Readable, Abstract!TermsOf
<1>11. call'[c].op = "query" =>
          AbstractCall(c)' = [op |-> "query", pat |-> call'[c].pat, at |-> at,
                              out |-> call'[c].out, failed |-> call'[c].failed]
  <2>1. AbstractCall(c)' = Abstracted(call'[c], at)
    BY <1>5 DEF AbstractCall
  <2> HIDE DEF at
  <2> QED BY <2>1, AbstractedRead
<1>12. DOMAIN Calls = Client
  BY DEF Calls
<1>8. Calls' = IF Abstract!Readable(q) THEN [Calls EXCEPT ![c].out = @ \cup {q}]
               ELSE [Calls EXCEPT ![c].failed = TRUE]
  <2>1. CASE Readable(q)
    <3>1. /\ call'[c].op = "query" /\ call'[c].pat = pat
          /\ call'[c].out = call[c].out \cup {q} /\ call'[c].failed = call[c].failed
      BY <1>0, <1>1, <2>1 DEF ReadOn
    <3>2. AbstractCall(c)' = [op |-> "query", pat |-> pat, at |-> at,
                              out |-> call[c].out \cup {q}, failed |-> call[c].failed]
      BY <1>11, <3>1
    <3>3. [Calls[c] EXCEPT !.out = @ \cup {q}] = AbstractCall(c)'
      BY <1>4, <3>2
    <3>4. Calls' = [Calls EXCEPT ![c].out = @ \cup {q}]
      BY <1>6, <1>12, <3>3
    <3> QED BY <1>7, <2>1, <3>4
  <2>2. CASE ~Readable(q)
    <3>1. /\ call'[c].op = "query" /\ call'[c].pat = pat
          /\ call'[c].out = call[c].out /\ call'[c].failed = TRUE
      BY <1>0, <1>1, <2>2
    <3>2. AbstractCall(c)' = [op |-> "query", pat |-> pat, at |-> at,
                              out |-> call[c].out, failed |-> TRUE]
      BY <1>11, <3>1
    <3>3. [Calls[c] EXCEPT !.failed = TRUE] = AbstractCall(c)'
      <4> DEFINE T == TRUE
                 old == [op |-> "query", pat |-> pat, at |-> at, out |-> call[c].out,
                         failed |-> call[c].failed]
                 new == [op |-> "query", pat |-> pat, at |-> at, out |-> call[c].out,
                         failed |-> T]
      <4>1. Calls[c] = old /\ AbstractCall(c)' = new
        BY <1>4, <3>2
      <4>2. [old EXCEPT !.failed = T] = new
        <5> HIDE DEF T
        <5> QED OBVIOUS
      <4> HIDE DEF old, new
      <4> QED BY <4>1, <4>2
    <3>4. Calls' = [Calls EXCEPT ![c].failed = TRUE]
      BY <1>6, <1>12, <3>3
    <3> QED BY <1>7, <2>2, <3>4
  <2> QED BY <2>1, <2>2
<1>9. q \in Abstract!Answer(Calls[c].at, Calls[c].pat) \ Calls[c].out
  BY <1>2, <1>3, <1>4
<1>10. Calls[c].op = "query" /\ ~Calls[c].failed
  BY <1>0, <1>4
<1> HIDE DEF q
<1> QED BY <1>5, <1>8, <1>9, <1>10 DEF Abstract!Yield, Calls

LEMMA CloseIsClose ==
  ASSUME IInv, CallInv, NEW c \in Client, CloseQuery(c)
  PROVE  Abstract!CloseQuery(c)
<1> DEFINE d == txn[c].snap
           pat == call[c].pat
           at == StoredQuads(d.tables)
           scan == ScanKeys(d.tables, pat)
           quad(k) == DecodeKey(SelectIndex(pat).key, k)
<1>0. /\ TypeOK /\ call[c].op = "query" /\ pat \in Pattern /\ d \in Database /\ Consistent(d)
      /\ OutputFits(c)
  BY QueryTyped DEF IInv, CloseQuery, CallInv
<1>1. Calls[c] = [op |-> "query", pat |-> pat, at |-> at, out |-> call[c].out,
                  failed |-> call[c].failed]
  BY <1>0, AbstractedRead DEF Calls, AbstractCall
<1>2. Abstract!Answer(at, pat) = {quad(k) : k \in scan}
  BY <1>0, AnswerOfScan
<1>3. call[c].seen \subseteq scan /\ call[c].out = {quad(k) : k \in call[c].seen}
  BY <1>0 DEF OutputFits
<1>4. \A k1, k2 \in scan : quad(k1) = quad(k2) => k1 = k2
  BY <1>0, KeysAreQuads
<1>5. KeysLeft(c) = {} <=> scan = call[c].seen
  BY <1>3 DEF KeysLeft
<1> HIDE DEF quad, scan
<1>6. scan = call[c].seen <=> call[c].out = Abstract!Answer(at, pat)
  <2>1. ASSUME call[c].out = Abstract!Answer(at, pat), NEW k \in scan
        PROVE  k \in call[c].seen
    <3>1. quad(k) \in call[c].out
      BY <1>2, <2>1
    <3>2. PICK k2 \in call[c].seen : quad(k) = quad(k2)
      BY <1>3, <3>1
    <3> QED BY <1>3, <1>4, <2>1, <3>2
  <2>2. scan = call[c].seen => call[c].out = Abstract!Answer(at, pat)
    BY <1>2, <1>3
  <2> QED BY <1>3, <2>1, <2>2
<1>7. Leave(c, IF ~call[c].failed /\ call[c].out = Abstract!Answer(at, pat)
               THEN Ret("complete") ELSE Ret("partial"))
  BY <1>5, <1>6 DEF CloseQuery
<1> HIDE DEF at, pat
<1> QED BY <1>0, <1>1, <1>7, AbstractLeave
        DEF Abstract!CloseQuery, Abstract!Ret, Ret, Calls

LEMMA AbstractNext ==
  ASSUME IInv, CallInv, [Next]_vars
  PROVE  Abstract!Next \/ UNCHANGED Abstract!vars
<1>t. TypeOK
  BY DEF IInv
<1>1. ASSUME NEW c \in Writer, NEW op \in WriteOp, NEW batch \in Batch, CallWrite(c, op, batch)
      PROVE  Abstract!Next
  BY <1>t, <1>1, WriteBegins
<1>2. ASSUME NEW c \in Writer, WriteStep(c)
      PROVE  Abstract!Next \/ UNCHANGED Abstract!vars
  <2>0. c \in Client
    BY DEF Client
  <2>1. CASE InsertStep(c) \/ DeleteStep(c) \/ InsertError(c) \/ DeleteError(c)
    BY <2>0, <2>1, QuadStepHidden
  <2>2. CASE CommitOk(c)
    BY <2>0, <2>2, CommitIsWriteOk DEF Abstract!Next
  <2>3. CASE CommitConflict(c) \/ Rollback(c)
    BY <2>0, <2>3, FailureIsWriteFails DEF Abstract!Next
  <2> QED BY <1>2, <2>1, <2>2, <2>3 DEF WriteStep
<1>3. ASSUME NEW c \in Reader,
             \/ \E q \in Probe : CallContains(c, q)
             \/ CallCount(c)
             \/ \E pat \in Query : CallQuery(c, pat)
      PROVE  Abstract!Next
  BY <1>t, <1>3, ReadBegins
<1>4. ASSUME NEW c \in Reader, (\E pat \in Query : RejectQuery(c, pat)) \/ ReadStep(c)
      PROVE  Abstract!Next
  <2>0. c \in Client
    BY DEF Client
  <2>1. CASE \E pat \in Query : RejectQuery(c, pat)
    BY <1>t, <2>0, <2>1, RejectIsReject DEF Abstract!Next
  <2>2. CASE ReturnContains(c)
    BY <2>0, <2>2, ContainsAnswers DEF Abstract!Next
  <2>3. CASE ReturnCount(c)
    BY <2>0, <2>3, CountAnswers DEF Abstract!Next
  <2>4. CASE NextQuad(c)
    BY <2>0, <2>4, NextQuadIsYield DEF Abstract!Next
  <2>5. CASE CloseQuery(c)
    BY <2>0, <2>5, CloseIsClose DEF Abstract!Next
  <2> QED BY <1>4, <2>1, <2>2, <2>3, <2>4, <2>5 DEF ReadStep
<1>5. CASE Persist
  BY <1>5 DEF Persist, Abstract!Next, Abstract!Persist, AbstractCall
<1>6. CASE Crash
  <2>1. \A c \in Client : AbstractCall(c)' = NoCall
    BY <1>6, AbstractedIdle DEF Crash, AbstractCall
  <2>2. Abstract!Crash
    BY <1>6, <2>1
    DEF Crash, Abstract!Crash, Abstract!NoCall, Abstract!NoRet, NoCall, NoRet, Client, Abstract!Client
  <2> QED BY <2>2 DEF Abstract!Next
<1>7. CASE UNCHANGED vars
  BY <1>7 DEF vars, Abstract!vars, AbstractCall
<1> QED BY <1>1, <1>2, <1>3, <1>4, <1>5, <1>6, <1>7 DEF Next

(* The store implements QuadStore.                                         *)
THEOREM StoreImplements == Spec => Implements
<1>1. IInv /\ CallInv /\ [Next]_vars => [Abstract!Next]_(Abstract!vars)
  BY AbstractNext
<1> QED BY <1>1, AbstractInit, Invariance, CallInvariance, PTL
        DEF Spec, Implements, Abstract!Spec
=============================================================================
