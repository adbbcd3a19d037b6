----------------------------- MODULE QuadStore -----------------------------
(***************************************************************************)
(* What the triple store promises its callers, without indexes, dictionary *)
(* or storage engine: a set of quads.  A write call inserts or deletes a   *)
(* whole batch at one instant or leaves the set alone; a read call answers *)
(* from the set as it was when the call began, however long it takes; a    *)
(* crash goes back to an earlier set, never to part of a batch.            *)
(***************************************************************************)
EXTENDS Quads, FiniteSets

CONSTANTS
  Writer, Reader,   \* the callers: those that write and those that read
  Batch,            \* the batches (sequences of quads) written
  Probe,            \* the quads asked for
  Query             \* the patterns queried

Client == Writer \cup Reader

VARIABLES
  quads,      \* the set of quads stored
  persisted,  \* the set of quads a crash goes back to
  call,       \* the call each client is executing
  ret         \* what its last call returned

vars == <<quads, persisted, call, ret>>

NoCall == [op |-> "none"]
NoRet == [kind |-> "none", n |-> 0]
Ret(kind) == [kind |-> kind, n |-> 0]
RetCount(n) == [kind |-> "count", n |-> n]

QuadsOf(batch) == {batch[i] : i \in DOMAIN batch}

Init ==
  /\ quads = {}
  /\ persisted = {}
  /\ call = [c \in Client |-> NoCall]
  /\ ret = [c \in Client |-> NoRet]

Idle(c) == call[c] = NoCall

Return(c, r) ==
  /\ call' = [call EXCEPT ![c] = NoCall]
  /\ ret' = [ret EXCEPT ![c] = r]

Enter(c, record) ==
  /\ Idle(c)
  /\ call' = [call EXCEPT ![c] = record]
  /\ ret' = [ret EXCEPT ![c] = NoRet]
  /\ UNCHANGED <<quads, persisted>>

CallWrite(c, op, batch) ==
  op \in {"insert", "delete"} /\ Enter(c, [op |-> op, batch |-> batch])

(* The whole batch takes effect when the call returns. *)
WriteOk(c) ==
  /\ \/ call[c].op = "insert" /\ quads' = quads \cup QuadsOf(call[c].batch)
     \/ call[c].op = "delete" /\ quads' = quads \ QuadsOf(call[c].batch)
  /\ \A q \in QuadsOf(call[c].batch) : Encodable(q)
  /\ Return(c, Ret("ok"))
  /\ UNCHANGED persisted

(* A call that reports an error has no effect; only an insert can lose to  *)
(* a concurrent writer.                                                    *)
WriteFails(c) ==
  /\ \/ call[c].op \in {"insert", "delete"} /\ Return(c, Ret("error"))
     \/ call[c].op = "insert" /\ Return(c, Ret("conflict"))
  /\ UNCHANGED <<quads, persisted>>

CallContains(c, q) == Enter(c, [op |-> "contains", quad |-> q, at |-> quads])

CallCount(c) == Enter(c, [op |-> "count", at |-> quads])

CallQuery(c, pat) ==
  /\ PatternTerms(pat) \cap Unencodable = {}
  /\ Enter(c, [op |-> "query", pat |-> pat, at |-> quads, out |-> {}, failed |-> FALSE])

(* A pattern with a term that has no encoding is refused at once. *)
RejectQuery(c, pat) ==
  /\ Idle(c)
  /\ PatternTerms(pat) \cap Unencodable # {}
  /\ Return(c, Ret("error"))
  /\ UNCHANGED <<quads, persisted>>

ReturnContains(c) ==
  /\ call[c].op = "contains"
  /\ Return(c, IF ~Encodable(call[c].quad) THEN Ret("error")
               ELSE IF call[c].quad \in call[c].at THEN Ret("yes") ELSE Ret("no"))
  /\ UNCHANGED <<quads, persisted>>

ReturnCount(c) ==
  /\ call[c].op = "count"
  /\ Return(c, RetCount(Cardinality(call[c].at)))
  /\ UNCHANGED <<quads, persisted>>

(* A query yields the quads of its answer one by one, in any order; one    *)
(* that cannot be read back ends it.                                       *)
Yield(c) ==
  /\ call[c].op = "query" /\ ~call[c].failed
  /\ \E q \in Answer(call[c].at, call[c].pat) \ call[c].out :
       call' = IF Readable(q) THEN [call EXCEPT ![c].out = @ \cup {q}]
               ELSE [call EXCEPT ![c].failed = TRUE]
  /\ UNCHANGED <<quads, persisted, ret>>

(* "complete" only when the whole answer was delivered. *)
CloseQuery(c) ==
  /\ call[c].op = "query"
  /\ Return(c, IF ~call[c].failed /\ call[c].out = Answer(call[c].at, call[c].pat)
               THEN Ret("complete") ELSE Ret("partial"))
  /\ UNCHANGED <<quads, persisted>>

Persist ==
  /\ persisted' = quads
  /\ UNCHANGED <<quads, call, ret>>

Crash ==
  /\ quads' = persisted
  /\ call' = [c \in Client |-> NoCall]
  /\ ret' = [c \in Client |-> NoRet]
  /\ UNCHANGED persisted

Next ==
  \/ \E c \in Writer :
       \/ \E op \in {"insert", "delete"}, b \in Batch : CallWrite(c, op, b)
       \/ WriteOk(c) \/ WriteFails(c)
  \/ \E c \in Reader :
       \/ \E q \in Probe : CallContains(c, q)
       \/ CallCount(c)
       \/ \E pat \in Query : CallQuery(c, pat) \/ RejectQuery(c, pat)
       \/ ReturnContains(c) \/ ReturnCount(c)
       \/ Yield(c) \/ CloseQuery(c)
  \/ Persist
  \/ Crash

Spec == Init /\ [][Next]_vars
=============================================================================
