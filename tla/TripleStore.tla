---------------------------- MODULE TripleStore ----------------------------
(***************************************************************************)
(* The triple store (pkg/store/store.go, pkg/store/query.go) on Badger     *)
(* transactions: concurrent callers insert and delete quads one by one or  *)
(* in batches, and read them back with ContainsQuad, Count and Query.      *)
(*                                                                         *)
(* One step is one quad of a batch, one commit, one quad of a query; what  *)
(* happens between the storage calls of one step is private to its         *)
(* transaction.  A storage call may fail after any number of the writes of *)
(* a quad (ErrTxnTooBig); the call then rolls back.  The process may crash *)
(* at any time; NewBadgerStorage leaves SyncWrites off and nothing calls   *)
(* Sync, so a crash can take back commits that were acknowledged.          *)
(***************************************************************************)
EXTENDS BadgerTxn, FiniteSets

CONSTANTS
  Writer, Reader,   \* the callers (HTTP handlers, command line, test
                    \* runner): those that write and those that read
  Batch,            \* the batches (sequences of quads) written
  Probe,            \* the quads asked for
  Query,            \* the patterns queried
  Fault,            \* the points <<strings, tables>> of a quad's writes at
                    \* which a storage call may fail
  MayCrash          \* whether the process may crash

Client == Writer \cup Reader

ASSUME CallAssumption ==
  /\ Batch \subseteq Seq(Quad) \ {<<>>}
  /\ Probe \subseteq Quad
  /\ Query \subseteq Pattern
  /\ Fault \subseteq (0 .. 3) \X {0} \cup {4} \X (0 .. 9)
  /\ MayCrash \in BOOLEAN

(* What decodeTerm gives for want of a string is no term.                  *)
ASSUME MarkAssumption == DecodeError \notin Term /\ WrongTerm \notin Term

VARIABLES
  db,        \* the committed database
  durable,   \* the database that a crash goes back to
  txn,       \* the transaction of each client
  call,      \* the call each client is executing
  ret        \* what its last call returned

vars == <<db, durable, txn, call, ret>>

NoTxn == Begin(EmptyDatabase)
NoCall == [op |-> "none"]
NoRet == [kind |-> "none", n |-> 0]
Ret(kind) == [kind |-> kind, n |-> 0]
RetCount(n) == [kind |-> "count", n |-> n]

WriteOp == {"insert", "delete"}
WriteCall ==
  [op : WriteOp, batch : Batch, next : Nat, failed : BOOLEAN]
ReadCall ==
  [op : {"contains"}, quad : Quad] \cup [op : {"count"}]
  \cup [op : {"query"}, pat : Query, seen : SUBSET Seq(Term),
        out : SUBSET Quad, failed : BOOLEAN]

TypeOK ==
  /\ db \in Database
  /\ durable \in Database
  /\ txn \in [Client -> Txn]
  /\ call \in [Client -> {NoCall} \cup WriteCall \cup ReadCall]
  /\ ret \in [Client ->
       [kind : {"none", "ok", "error", "conflict", "yes", "no", "count",
                "complete", "partial"}, n : Nat]]

Init ==
  /\ db = EmptyDatabase
  /\ durable = EmptyDatabase
  /\ txn = [c \in Client |-> NoTxn]
  /\ call = [c \in Client |-> NoCall]
  /\ ret = [c \in Client |-> NoRet]

Idle(c) == call[c] = NoCall

Enter(c, record) ==
  /\ Idle(c)
  /\ txn' = [txn EXCEPT ![c] = Begin(db)]
  /\ call' = [call EXCEPT ![c] = record]
  /\ ret' = [ret EXCEPT ![c] = NoRet]
  /\ UNCHANGED <<db, durable>>

(* The deferred Rollback and the return to the caller. *)
Leave(c, r) ==
  /\ txn' = [txn EXCEPT ![c] = NoTxn]
  /\ call' = [call EXCEPT ![c] = NoCall]
  /\ ret' = [ret EXCEPT ![c] = r]
  /\ UNCHANGED <<db, durable>>

-----------------------------------------------------------------------------
(* InsertQuad, InsertTriple, InsertQuadsBatch, InsertTriplesBatch,         *)
(* DeleteQuad, DeleteTriple, DeleteQuadsBatch, DeleteTriplesBatch: a       *)
(* single quad is a batch of one.                                          *)

CallWrite(c, op, batch) ==
  /\ batch # <<>>
  /\ Enter(c, [op |-> op, batch |-> batch, next |-> 1, failed |-> FALSE])

(* storeString: an entry that is there already is not written again. *)
(* Mutant of StoreString: the string is written whether it is there or not. *)
RewriteString(t, term) ==
  IF StrOf[term] = NoStr THEN t
  ELSE SetString(ReadString(t, Hash[StrOf[term]]), Hash[StrOf[term]], StrOf[term])

StoreString(t, term) ==
  IF StrOf[term] = NoStr THEN t
  ELSE LET d == Hash[StrOf[term]]
       IN  IF GetString(t, d) = StrOf[term] THEN ReadString(t, d)
           ELSE SetString(ReadString(t, d), d, StrOf[term])

(* Mutant of StoreStrings: the string of the graph is not stored. *)
StoreTripleStrings(t, q, k) ==
  LET t1 == StoreString(t, q.s)
      t2 == StoreString(t1, q.p)
      t3 == StoreString(t2, q.o)
  IN  CASE k = 0 -> t [] k = 1 -> t1 [] k = 2 -> t2 [] k \in {3, 4} -> t3

(* The strings of the first k of the four terms of a quad. *)
StoreStrings(t, q, k) ==
  LET t1 == StoreString(t, q.s)
      t2 == StoreString(t1, q.p)
      t3 == StoreString(t2, q.o)
      t4 == StoreString(t3, q.g)
  IN  CASE k = 0 -> t [] k = 1 -> t1 [] k = 2 -> t2 [] k = 3 -> t3 [] k = 4 -> t4

(* insertQuadInTxn up to string k and table n. *)
InsertQuadInTxn(t, q, k, n) ==
  SetKeys(StoreStrings(t, q, k), FirstTables(InsertOrder(q), n), q)

(* deleteQuadInTxn up to table n; strings and graphs stay. *)
DeleteQuadInTxn(t, q, n) == DeleteKeys(t, FirstTables(DeleteOrder(q), n), q)

Writing(c) == call[c].op \in WriteOp /\ ~call[c].failed

CurrentQuad(c) == call[c].batch[call[c].next]

HasQuadLeft(c) == Writing(c) /\ call[c].next \in DOMAIN call[c].batch

InsertStep(c) ==
  /\ HasQuadLeft(c) /\ call[c].op = "insert" /\ Encodable(CurrentQuad(c))
  /\ LET q == CurrentQuad(c)
     IN  txn' = [txn EXCEPT ![c] = InsertQuadInTxn(@, q, 4, Len(InsertOrder(q)))]
  /\ call' = [call EXCEPT ![c].next = @ + 1]
  /\ UNCHANGED <<db, durable, ret>>

DeleteStep(c) ==
  /\ HasQuadLeft(c) /\ call[c].op = "delete" /\ Encodable(CurrentQuad(c))
  /\ LET q == CurrentQuad(c)
     IN  txn' = [txn EXCEPT ![c] = DeleteQuadInTxn(@, q, Len(DeleteOrder(q)))]
  /\ call' = [call EXCEPT ![c].next = @ + 1]
  /\ UNCHANGED <<db, durable, ret>>

(* EncodeTerm rejects a term, before anything is written; or a storage     *)
(* call fails, after some of the writes of the quad.                       *)
InsertError(c) ==
  /\ HasQuadLeft(c) /\ call[c].op = "insert"
  /\ LET q == CurrentQuad(c)
     IN  \E at \in Fault :
           /\ at[2] < Len(InsertOrder(q))
           /\ ~Encodable(q) => at[1] = 0
           /\ txn' = [txn EXCEPT ![c] = InsertQuadInTxn(@, q, at[1], at[2])]
  /\ call' = [call EXCEPT ![c].failed = TRUE]
  /\ UNCHANGED <<db, durable, ret>>

DeleteError(c) ==
  /\ HasQuadLeft(c) /\ call[c].op = "delete"
  /\ LET q == CurrentQuad(c)
     IN  \E at \in Fault :
           /\ at[2] < Len(DeleteOrder(q))
           /\ ~Encodable(q) => at[2] = 0
           /\ txn' = [txn EXCEPT ![c] = DeleteQuadInTxn(@, q, at[2])]
  /\ call' = [call EXCEPT ![c].failed = TRUE]
  /\ UNCHANGED <<db, durable, ret>>

ReadyToCommit(c) == Writing(c) /\ call[c].next \notin DOMAIN call[c].batch

CommitOk(c) ==
  /\ ReadyToCommit(c) /\ ~Conflicts(txn[c])
  /\ db' = Apply(db, txn[c])
  /\ txn' = [x \in Client |->
               IF x = c THEN NoTxn
               ELSE IF call[x].op \in WriteOp THEN Miss(txn[x], txn[c]) ELSE txn[x]]
  /\ call' = [call EXCEPT ![c] = NoCall]
  /\ ret' = [ret EXCEPT ![c] = Ret("ok")]
  /\ UNCHANGED durable

(* Mutant of CommitConflict: the commit of the same transaction is retried. *)
CommitRetried(c) ==
  ReadyToCommit(c) /\ Conflicts(txn[c]) /\ UNCHANGED vars

(* ErrConflict goes to the caller; nothing retries. *)
CommitConflict(c) ==
  ReadyToCommit(c) /\ Conflicts(txn[c]) /\ Leave(c, Ret("conflict"))

(* Mutant of Rollback: what was written until the error is committed.      *)
RollbackCommits(c) ==
  /\ call[c].op \in WriteOp /\ call[c].failed
  /\ db' = Apply(db, txn[c])
  /\ txn' = [txn EXCEPT ![c] = NoTxn]
  /\ call' = [call EXCEPT ![c] = NoCall]
  /\ ret' = [ret EXCEPT ![c] = Ret("error")]
  /\ UNCHANGED durable

Rollback(c) ==
  call[c].op \in WriteOp /\ call[c].failed /\ Leave(c, Ret("error"))

-----------------------------------------------------------------------------
(* ContainsQuad, Count and Query read in a read-only transaction.          *)

CallContains(c, q) == Enter(c, [op |-> "contains", quad |-> q])

ReturnContains(c) ==
  /\ call[c].op = "contains"
  /\ LET q == call[c].quad
     IN  Leave(c, IF ~Encodable(q) THEN Ret("error")
                  ELSE IF KeyOf("SPOG", q) \in txn[c].snap.tables["SPOG"]
                  THEN Ret("yes") ELSE Ret("no"))

CallCount(c) == Enter(c, [op |-> "count"])

ReturnCount(c) ==
  /\ call[c].op = "count"
  /\ Leave(c, RetCount(Cardinality(txn[c].snap.tables["SPOG"])))

CallQuery(c, pat) ==
  /\ PatternTerms(pat) \cap Unencodable = {}
  /\ Enter(c, [op |-> "query", pat |-> pat, seen |-> {}, out |-> {},
               failed |-> FALSE])

(* buildScanPrefix fails: Query rolls back and returns the error. *)
RejectQuery(c, pat) ==
  Idle(c) /\ PatternTerms(pat) \cap Unencodable # {} /\ Leave(c, Ret("error"))

(* Mutant of KeysLeft: the scan runs on the committed database. *)
LiveKeysLeft(c) == ScanKeys(db.tables, call[c].pat) \ call[c].seen

KeysLeft(c) == ScanKeys(txn[c].snap.tables, call[c].pat) \ call[c].seen

(* Next and Quad of the iterator.  The executor's scan takes an error of   *)
(* Quad for the end of the scan.                                           *)
NextQuad(c) ==
  /\ call[c].op = "query" /\ ~call[c].failed
  /\ \E k \in KeysLeft(c) :
       LET q == DecodeKey(SelectIndex(call[c].pat).key, k)
           read == [pos \in Position |-> DecodeTerm(txn[c].snap.id2str, q[pos])]
       IN  call' = IF \E pos \in Position : read[pos] = DecodeError
                   THEN [call EXCEPT ![c].failed = TRUE]
                   ELSE [call EXCEPT ![c].seen = @ \cup {k},
                                     ![c].out = @ \cup {read}]
  /\ UNCHANGED <<db, durable, txn, ret>>

(* Close, at the end of the scan or before it (LIMIT, ASK). *)
CloseQuery(c) ==
  /\ call[c].op = "query"
  /\ Leave(c, IF ~call[c].failed /\ KeysLeft(c) = {}
              THEN Ret("complete") ELSE Ret("partial"))

-----------------------------------------------------------------------------
(* Badger writes its log to disk in its own time.                          *)
Persist ==
  /\ MayCrash
  /\ durable' = db
  /\ UNCHANGED <<db, txn, call, ret>>

Crash ==
  /\ MayCrash
  /\ db' = durable
  /\ txn' = [c \in Client |-> NoTxn]
  /\ call' = [c \in Client |-> NoCall]
  /\ ret' = [c \in Client |-> NoRet]
  /\ UNCHANGED durable

WriteStep(c) ==
  \/ InsertStep(c) \/ DeleteStep(c) \/ InsertError(c) \/ DeleteError(c)
  \/ CommitOk(c) \/ CommitConflict(c) \/ Rollback(c)

ReadStep(c) ==
  ReturnContains(c) \/ ReturnCount(c) \/ NextQuad(c) \/ CloseQuery(c)

Next ==
  \/ \E c \in Writer :
       \/ \E op \in WriteOp, batch \in Batch : CallWrite(c, op, batch)
       \/ WriteStep(c)
  \/ \E c \in Reader :
       \/ \E q \in Probe : CallContains(c, q)
       \/ CallCount(c)
       \/ \E pat \in Query : CallQuery(c, pat) \/ RejectQuery(c, pat)
       \/ ReadStep(c)
  \/ Persist
  \/ Crash

Spec == Init /\ [][Next]_vars

-----------------------------------------------------------------------------
(* Properties.                                                             *)

(* Every database some caller can see: the committed one, the one a crash  *)
(* goes back to, and the snapshots of the open transactions.               *)
Visible == {db, durable} \cup {txn[c].snap : c \in Client}

AgreesWithSPOG(d) ==
  \A t \in DefaultTable \cup QuadTable :
    d.tables[t] = TableOf(t, StoredQuads(d.tables))

GraphListed(d) ==
  \A q \in StoredQuads(d.tables) :
    ~InDefaultGraph(q) => KeyOf("Graphs", q) \in d.tables["Graphs"]

TermsKnown(d) ==
  \A q \in StoredQuads(d.tables) : \A x \in TermsOf(q) : Known(d.id2str, x)

(* However writers interleave, fail, lose a conflict or crash, the nine    *)
(* index tables of every visible database describe one set of quads, so    *)
(* that the answer of a query does not depend on the index it selects.     *)
IndexAgreement == \A d \in Visible : AgreesWithSPOG(d)

(* Every named graph that holds a quad is listed in the Graphs table.      *)
GraphsListed == \A d \in Visible : GraphListed(d)

(* Every term of every stored quad has its string in the dictionary of the *)
(* same database, although an insert that finds the string in its snapshot *)
(* does not write it: decodeTerm never guesses a term from hash bytes.     *)
DictionaryComplete == \A d \in Visible : TermsKnown(d)

(* "No garbage collection" (deleteQuadInTxn): apart from a crash no step   *)
(* removes or changes a dictionary entry or unlists a graph.               *)
NothingCollected ==
  [][Crash \/ /\ \A d \in Digest : db.id2str[d] # NoStr => db'.id2str[d] = db.id2str[d]
              /\ db.tables["Graphs"] \subseteq db'.tables["Graphs"]]_vars

(* A commit is refused only to an insert, and only when a string that was  *)
(* missing when it began has been committed since: a retry finds it.       *)
ConflictOnlyOverNewStrings ==
  [][\A c \in Writer :
       ret'[c].kind = "conflict" /\ ret[c].kind # "conflict" =>
         /\ call[c].op = "insert"
         /\ \E d \in Digest : txn[c].snap.id2str[d] = NoStr /\ db.id2str[d] # NoStr]_vars

-----------------------------------------------------------------------------
(* The inductive invariant behind IndexAgreement, GraphsListed and         *)
(* DictionaryComplete.                                                     *)

Done(c) == {call[c].batch[i] : i \in 1 .. call[c].next - 1}

(* A dictionary holds under a digest only a string of that digest.         *)
WellHashed(dict) == \A d \in Digest : dict[d] # NoStr => Hash[dict[d]] = d

Extends(newer, older) == \A d \in Digest : older[d] # NoStr => newer[d] = older[d]

Consistent(d) ==
  /\ IsFiniteSet(d.tables["SPOG"])
  /\ StoredQuads(d.tables) \subseteq Quad
  /\ AgreesWithSPOG(d)
  /\ GraphListed(d)
  /\ TermsKnown(d)
  /\ WellHashed(d.id2str)

(* What an insert has buffered between two quads of its batch: all keys of *)
(* the quads done, and every string of theirs that its snapshot lacks.     *)
Adds(t, quads) ==
  /\ \A b \in Table : t.dels[b] = {}
  /\ \A b \in DefaultTable \cup QuadTable : t.puts[b] = TableOf(b, quads)
  /\ \A q \in quads : ~InDefaultGraph(q) => KeyOf("Graphs", q) \in t.puts["Graphs"]
  /\ \A q \in quads : \A x \in TermsOf(q) :
       Known(t.strings, x) \/ Known(t.snap.id2str, x)

(* What a delete has buffered: the deletion of all keys of the quads done. *)
Removes(t, quads) ==
  /\ \A b \in Table : t.puts[b] = {}
  /\ \A b \in DefaultTable \cup QuadTable : t.dels[b] = TableOf(b, quads)
  /\ t.dels["Graphs"] = {}

(* Nothing is said of a call that failed in the middle of a quad: it only  *)
(* rolls back.                                                             *)
TxnAligned(c) ==
  Writing(c) => IF call[c].op = "insert" THEN Adds(txn[c], Done(c))
                ELSE Removes(txn[c], Done(c))

NextInBatch(c) ==
  call[c].op \in WriteOp => call[c].next \in 1 .. Len(call[c].batch) + 1

TxnConsistent(c) ==
  /\ NextInBatch(c)
  /\ Consistent(txn[c].snap)
  /\ Extends(db.id2str, txn[c].snap.id2str)
  /\ WellHashed(txn[c].strings)
  /\ IsFiniteSet(txn[c].puts["SPOG"])
  /\ TxnAligned(c)

IInv ==
  /\ TypeOK
  /\ Consistent(db)
  /\ Consistent(durable)
  /\ \A c \in Client : TxnConsistent(c)

-----------------------------------------------------------------------------
(* What IInv leaves out: how reads and conflicts of write calls fit        *)
(* together, and what a query has delivered.  ConflictOnlyOverNewStrings   *)
(* and Implements rest on it.                                              *)

(* Every string an open transaction writes it has looked up in vain, and   *)
(* what it has missed is what its snapshot lacks of the committed          *)
(* dictionary: a string is never committed twice.                          *)
LookedUp(t) == \A d \in StringsWritten(t) : d \in t.reads /\ t.snap.id2str[d] = NoStr

ReadsFit(c) ==
  call[c].op \in WriteOp =>
    /\ LookedUp(txn[c])
    /\ txn[c].missed = {d \in Digest : txn[c].snap.id2str[d] = NoStr /\ db.id2str[d] # NoStr}
    /\ call[c].op = "delete" => txn[c].reads = {}

DoneEncodable(c) == Writing(c) => \A q \in Done(c) : Encodable(q)

(* A query has delivered the quads of the keys it has seen.                *)
OutputFits(c) ==
  call[c].op = "query" =>
    /\ call[c].seen \subseteq ScanKeys(txn[c].snap.tables, call[c].pat)
    /\ call[c].out = {DecodeKey(SelectIndex(call[c].pat).key, k) : k \in call[c].seen}

CallInv == \A c \in Client : ReadsFit(c) /\ DoneEncodable(c) /\ OutputFits(c)

(* All that the theorems on the store rest on, and inductive as a whole:   *)
(* the database, the buffers and the calls under way fit together.         *)
StoreInv == IInv /\ CallInv

-----------------------------------------------------------------------------
(* The store implements QuadStore: the quads are those of the SPOG table,  *)
(* a read call answers from those of its snapshot.                         *)
Abstracted(r, at) ==
  CASE r = NoCall -> NoCall
    [] r.op \in WriteOp -> [op |-> r.op, batch |-> r.batch]
    [] r.op = "contains" -> [op |-> "contains", quad |-> r.quad, at |-> at]
    [] r.op = "count" -> [op |-> "count", at |-> at]
    [] r.op = "query" ->
         [op |-> "query", pat |-> r.pat, at |-> at, out |-> r.out, failed |-> r.failed]

AbstractCall(c) == Abstracted(call[c], StoredQuads(txn[c].snap.tables))

Abstract == INSTANCE QuadStore WITH
  quads <- StoredQuads(db.tables),
  persisted <- StoredQuads(durable.tables),
  call <- [c \in Client |-> AbstractCall(c)],
  ret <- ret

(* A write call inserts or deletes its whole batch in one step or changes  *)
(* nothing, an acknowledged one only by what a crash takes back; a read    *)
(* call answers from the quads stored when it began, and a query that was  *)
(* read to its end delivered every one of its quads exactly once.          *)
Implements == Abstract!Spec
=============================================================================
