----------------------------- MODULE BadgerTxn -----------------------------
(***************************************************************************)
(* The key-value transactions the store runs on: the Transaction interface *)
(* of pkg/store/storage.go as internal/storage/badger.go implements it on  *)
(* BadgerDB.  Badger itself is not part of the repository; what is modelled *)
(* of it is what the wrapper relies on: a transaction reads the database   *)
(* as of its begin under its own writes, its writes are buffered, and      *)
(* Commit applies all of them at once unless a key it read from the        *)
(* database was committed in the meantime (ErrConflict).  A transaction    *)
(* that wrote nothing always commits.                                      *)
(*                                                                         *)
(* Writing transactions of the store read only the id2str table, so the    *)
(* keys read and the keys committed in the meantime are kept for that      *)
(* table alone.                                                            *)
(***************************************************************************)
EXTENDS Indexes

Tables == [Table -> SUBSET Seq(Term)]

Database == [tables : Tables, id2str : Dictionary]

EmptyDatabase == [tables |-> [t \in Table |-> {}], id2str |-> EmptyDictionary]

Txn == [snap : Database,
        reads : SUBSET Digest,    \* id2str keys read from the database
        missed : SUBSET Digest,   \* id2str keys others committed since Begin
        puts : Tables, dels : Tables, strings : Dictionary]

Begin(db) ==
  [snap |-> db, reads |-> {}, missed |-> {},
   puts |-> [t \in Table |-> {}], dels |-> [t \in Table |-> {}],
   strings |-> EmptyDictionary]

(* Get on the id2str table: the transaction's own write first. *)
GetString(t, d) == IF t.strings[d] # NoStr THEN t.strings[d] ELSE t.snap.id2str[d]

ReadString(t, d) ==
  IF t.strings[d] # NoStr THEN t ELSE [t EXCEPT !.reads = @ \cup {d}]

SetString(t, d, str) == [t EXCEPT !.strings[d] = str]

(* Set and Delete of the key of one quad in each of several tables. *)
SetKeys(t, tbls, q) ==
  [t EXCEPT
     !.puts = [b \in Table |-> IF b \in tbls THEN @[b] \cup {KeyOf(b, q)} ELSE @[b]],
     !.dels = [b \in Table |-> IF b \in tbls THEN @[b] \ {KeyOf(b, q)} ELSE @[b]]]

DeleteKeys(t, tbls, q) ==
  [t EXCEPT
     !.puts = [b \in Table |-> IF b \in tbls THEN @[b] \ {KeyOf(b, q)} ELSE @[b]],
     !.dels = [b \in Table |-> IF b \in tbls THEN @[b] \cup {KeyOf(b, q)} ELSE @[b]]]

StringsWritten(t) == {d \in Digest : t.strings[d] # NoStr}

WroteNothing(t) ==
  StringsWritten(t) = {} /\ \A b \in Table : t.puts[b] = {} /\ t.dels[b] = {}

Conflicts(t) == ~WroteNothing(t) /\ t.reads \cap t.missed # {}

(* Mutant of Apply: a commit writes back its own view of the database. *)
ApplyToSnapshot(db, t) ==
  [tables |-> [b \in Table |-> (t.snap.tables[b] \ t.dels[b]) \cup t.puts[b]],
   id2str |-> [d \in Digest |-> GetString(t, d)]]

Apply(db, t) ==
  [tables |-> [b \in Table |-> (db.tables[b] \ t.dels[b]) \cup t.puts[b]],
   id2str |-> [d \in Digest |->
                 IF t.strings[d] # NoStr THEN t.strings[d] ELSE db.id2str[d]]]

(* What a transaction begun earlier misses of one that commits now. *)
Miss(t, committed) == [t EXCEPT !.missed = @ \cup StringsWritten(committed)]
=============================================================================
