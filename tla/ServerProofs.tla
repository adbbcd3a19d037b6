---------------------------- MODULE ServerProofs ----------------------------
(***************************************************************************)
(* What a user of the server may rely on, for every number of users and    *)
(* handlers, every document, every parser and every trouble: ServerInv is  *)
(* inductive.  That the store underneath stays consistent is taken from    *)
(* TripleStoreProofs: every step of the server is a step of the store.     *)
(***************************************************************************)
EXTENDS Server, TripleStoreProofs

LEMMA WriterIsClient == Writer \subseteq Client
BY DEF Client

LEMMA Types == "" \notin DOMAIN ParserOf
BY DEF ParserOf

LEMMA RequestTyped ==
  ASSUME ServerTypeOK, NEW h \in Writer, serving[h] # NoRequest
  PROVE  /\ serving[h] \in
              [stage : {"check", "read", "insert", "inserting"}, user : DOMAIN wants,
               listening : BOOLEAN, quads : {<<>>} \cup Batch]
BY DEF ServerTypeOK

LEMMA Busy ==
  ASSUME NEW h \in Writer, NEW s \in {"check", "read", "insert", "inserting"}, At(h, s)
  PROVE  serving[h] # NoRequest
BY DEF At, NoRequest

(* A call that is under way is the insert of a handler.                    *)
LEMMA InsertUnderWay ==
  ASSUME ServerInv, NEW h \in Writer, ~Idle(h)
  PROVE  /\ At(h, "inserting") /\ serving[h] # NoRequest
         /\ call[h].op = "insert" /\ call[h].batch = serving[h].quads
         /\ Posts(serving[h].user) /\ QuadsOf(h) \in Readings(serving[h].user)
<1>1. HandlerFits(h)
  BY DEF ServerInv
<1>2. At(h, "inserting")
  BY <1>1 DEF HandlerFits
<1>3. serving[h] # NoRequest
  BY <1>2, Busy
<1> QED BY <1>1, <1>2, <1>3 DEF HandlerFits, At

(* Every step of the server is a step of the store, or leaves it alone.    *)
LEMMA StoreSteps ==
  ASSUME ServerInv, [ServerNext]_allVars
  PROVE  [Next]_vars
<1>1. ASSUME NEW h \in Writer, Insert(h)
      PROVE  Next
  <2>1. serving[h] # NoRequest /\ CallWrite(h, "insert", serving[h].quads)
    BY <1>1, Busy DEF Insert
  <2>2. serving[h].quads \in Batch
    BY <2>1, RequestTyped DEF ServerInv, CallWrite
  <2> QED BY <2>1, <2>2 DEF Next, WriteOp
<1>2. ASSUME NEW h \in Writer, StorageStep(h) \/ StorageTrouble(h)
      PROVE  Next
  BY <1>2 DEF StorageStep, StorageTrouble, WriteStep, Next
<1>3. ASSUME NEW h \in Writer,
             \/ CheckRequest(h) \/ ReadBody(h) \/ InsertNothing(h) \/ Inserted(h)
             \/ BodyTimeout(h) \/ Break(h)
      PROVE  UNCHANGED vars
  BY <1>3 DEF CheckRequest, ReadBody, InsertNothing, Inserted, BodyTimeout, Break
<1>4. ASSUME NEW u \in DOMAIN wants, Post(u)
      PROVE  UNCHANGED vars
  BY <1>4 DEF Post
<1>5. CASE UNCHANGED allVars
  BY <1>5 DEF allVars
<1> QED BY <1>1, <1>2, <1>3, <1>4, <1>5 DEF ServerNext, Handle

-----------------------------------------------------------------------------
(* Steps that leave the store alone.                                       *)

(* A handler that neither moves nor sees its call move still fits when the *)
(* store has grown.                                                        *)
LEMMA OtherFits ==
  ASSUME NEW x \in Writer, HandlerFits(x), wants' = wants,
         serving'[x] = serving[x], call'[x] = call[x], ret'[x] = ret[x],
         StoredQuads(db.tables) \subseteq StoredQuads(db'.tables)
  PROVE  HandlerFits(x)'
<1>1. QuadsOf(x)' = QuadsOf(x)
  BY DEF QuadsOf
<1>2. \A u : (Posts(u)' <=> Posts(u)) /\ Readings(u)' = Readings(u)
  BY DEF Posts, Readings, Outcomes
<1>3. \A s : At(x, s)' <=> At(x, s)
  BY DEF At
<1>4. Idle(x)' <=> Idle(x)
  BY DEF Idle
<1> QED BY <1>1, <1>2, <1>3, <1>4 DEF HandlerFits

LEMMA FreeFits ==
  ASSUME NEW h \in Writer, serving'[h] = NoRequest, call'[h] = NoCall
  PROVE  HandlerFits(h)'
BY DEF HandlerFits, At, NoRequest, Idle

(* One handler moves on, or is done, while the store rests.                *)
LEMMA HandlerMoves ==
  ASSUME ServerInv, IInv', UNCHANGED <<vars, wants>>, NEW h \in Writer, NEW r,
         serving' = [serving EXCEPT ![h] = r],
         r \in {NoRequest} \cup
           [stage : {"check", "read", "insert", "inserting"}, user : DOMAIN wants,
            listening : BOOLEAN, quads : {<<>>} \cup Batch],
         HandlerFits(h)',
         heard' \in [DOMAIN wants -> {"nothing", "waiting", "broken"} \cup Status],
         \A u \in DOMAIN wants : heard'[u] = "200" /\ heard[u] # "200" /\ Posts(u) =>
           \E reading \in Readings(u) : reading \subseteq StoredQuads(db.tables)
  PROVE  ServerInv'
<1>1. db' = db /\ call' = call /\ ret' = ret /\ wants' = wants
  BY DEF vars
<1>2. \A u : (Posts(u)' <=> Posts(u)) /\ Readings(u)' = Readings(u)
  BY <1>1 DEF Posts, Readings, Outcomes
<1>3. ServerTypeOK'
  BY <1>1 DEF ServerInv, ServerTypeOK
<1>4. ASSUME NEW x \in Writer PROVE HandlerFits(x)'
  <2>1. CASE x # h
    <3>1. HandlerFits(x) /\ serving'[x] = serving[x]
      BY <2>1 DEF ServerInv, ServerTypeOK
    <3> QED BY <1>1, <3>1, OtherFits
  <2> QED BY <2>1
<1>5. OkMeansStored'
  BY <1>1, <1>2 DEF ServerInv, OkMeansStored
<1>6. WholeUploads'
  BY <1>1, <1>2 DEF ServerInv, WholeUploads
<1> QED BY <1>3, <1>4, <1>5, <1>6 DEF ServerInv

LEMMA RespondInv ==
  ASSUME ServerInv, IInv', UNCHANGED <<vars, wants>>, NEW h \in Writer,
         serving[h] # NoRequest, Idle(h),
         NEW status \in Status \cup {"broken"}, Respond(h, status),
         status = "200" /\ Posts(serving[h].user) =>
           \E reading \in Readings(serving[h].user) : reading \subseteq StoredQuads(db.tables)
  PROVE  ServerInv'
<1> DEFINE u == serving[h].user
<1>1. u \in DOMAIN wants /\ heard \in [DOMAIN wants -> {"nothing", "waiting", "broken"} \cup Status]
      /\ serving \in [Writer -> {NoRequest} \cup
           [stage : {"check", "read", "insert", "inserting"}, user : DOMAIN wants,
            listening : BOOLEAN, quads : {<<>>} \cup Batch]]
  BY RequestTyped DEF ServerInv, ServerTypeOK
<1>2. serving' = [serving EXCEPT ![h] = NoRequest]
      /\ heard' \in {heard, [heard EXCEPT ![u] = status]}
  BY DEF Respond
<1>3. HandlerFits(h)'
  <2>1. serving'[h] = NoRequest /\ call'[h] = NoCall
    BY <1>1, <1>2 DEF Idle, vars
  <2> QED BY <2>1, FreeFits
<1>4. heard' \in [DOMAIN wants -> {"nothing", "waiting", "broken"} \cup Status]
  BY <1>1, <1>2
<1>5. ASSUME NEW v \in DOMAIN wants, heard'[v] = "200", heard[v] # "200", Posts(v)
      PROVE  \E reading \in Readings(v) : reading \subseteq StoredQuads(db.tables)
  <2>1. v = u /\ status = "200"
    BY <1>1, <1>2, <1>5
  <2> QED BY <1>5, <2>1
<1> HIDE DEF u
<1> QED BY <1>2, <1>3, <1>4, <1>5, HandlerMoves

LEMMA PostInv ==
  ASSUME ServerInv, IInv', NEW u \in DOMAIN wants, Post(u)
  PROVE  ServerInv'
<1> DEFINE r == RequestOf("check", u, <<>>)
<1>1. PICK h \in Writer : serving[h] = NoRequest /\ serving' = [serving EXCEPT ![h] = r]
  <2>1. (CHOOSE h \in Free : TRUE) \in Free
    BY DEF Post
  <2> QED BY <2>1 DEF Post, Free
<1>2. heard' = [heard EXCEPT ![u] = "waiting"] /\ UNCHANGED <<vars, wants>>
  BY DEF Post
<1>3. r \in [stage : {"check", "read", "insert", "inserting"}, user : DOMAIN wants,
             listening : BOOLEAN, quads : {<<>>} \cup Batch]
  BY DEF RequestOf
<1>4. r.stage = "check"
  BY DEF RequestOf
<1> HIDE DEF r
<1>5. HandlerFits(h)'
  <2>1. serving'[h] = r /\ call' = call
    BY <1>1, <1>2 DEF ServerInv, ServerTypeOK, vars
  <2>2. Idle(h)
    BY <1>1 DEF ServerInv, HandlerFits, At, NoRequest
  <2> QED BY <1>4, <2>1, <2>2 DEF HandlerFits, At, Idle
<1>6. /\ heard' \in [DOMAIN wants -> {"nothing", "waiting", "broken"} \cup Status]
      /\ \A v \in DOMAIN wants : heard'[v] = "200" => heard[v] = "200"
  BY <1>2 DEF ServerInv, ServerTypeOK
<1> QED BY <1>1, <1>2, <1>3, <1>5, <1>6, HandlerMoves

LEMMA CheckRequestInv ==
  ASSUME ServerInv, IInv', NEW h \in Writer, CheckRequest(h)
  PROVE  ServerInv'
<1> DEFINE rq == wants[serving[h].user]
<1>1. serving[h] # NoRequest /\ Idle(h) /\ UNCHANGED <<vars, wants>>
  <2>1. At(h, "check")
    BY DEF CheckRequest
  <2>2. ~At(h, "inserting")
    BY <2>1 DEF At
  <2> QED BY <2>1, <2>2, Busy DEF CheckRequest, ServerInv, HandlerFits
<1>2. CASE rq.method = "POST" /\ rq.type \in DOMAIN ParserOf
  <2> DEFINE r == [serving[h] EXCEPT !.stage = "read"]
  <2>1. serving' = [serving EXCEPT ![h].stage = "read"] /\ heard' = heard
    BY <1>2, Types DEF CheckRequest
  <2>2. r \in [stage : {"check", "read", "insert", "inserting"}, user : DOMAIN wants,
               listening : BOOLEAN, quads : {<<>>} \cup Batch]
        /\ r.stage = "read" /\ r.user = serving[h].user
    BY <1>1, RequestTyped DEF ServerInv
  <2>3. serving' = [serving EXCEPT ![h] = r] /\ serving'[h] = r
    BY <2>1 DEF ServerInv, ServerTypeOK
  <2> HIDE DEF r
  <2>4. HandlerFits(h)'
    BY <1>1, <1>2, <2>2, <2>3 DEF HandlerFits, At, Idle, Posts, vars
  <2>5. heard' \in [DOMAIN wants -> {"nothing", "waiting", "broken"} \cup Status]
    BY <2>1 DEF ServerInv, ServerTypeOK
  <2> QED BY <1>1, <2>1, <2>2, <2>3, <2>4, <2>5, HandlerMoves
<1>3. CASE ~(rq.method = "POST" /\ rq.type \in DOMAIN ParserOf)
  <2>1. PICK status \in Status : Respond(h, status)
    <3>1. CASE rq.method = "OPTIONS"
      BY <3>1 DEF CheckRequest, Status
    <3>2. CASE rq.method \notin {"OPTIONS", "POST"}
      BY <3>2 DEF CheckRequest, Status
    <3>3. CASE rq.method = "POST" /\ rq.type = ""
      BY <3>3, Types DEF CheckRequest, Status
    <3>4. CASE rq.method = "POST" /\ rq.type # "" /\ rq.type \notin DOMAIN ParserOf
      BY <3>4 DEF CheckRequest, Status
    <3> QED BY <1>3, <3>1, <3>2, <3>3, <3>4
  <2>2. ~Posts(serving[h].user)
    BY <1>3 DEF Posts
  <2> QED BY <1>1, <2>1, <2>2, RespondInv
<1> QED BY <1>2, <1>3

(* A handler that reads holds a request, and no call of its is under way.  *)
LEMMA Reading ==
  ASSUME ServerInv, NEW h \in Writer, At(h, "read")
  PROVE  /\ serving[h] # NoRequest /\ Idle(h) /\ Posts(serving[h].user)
         /\ \A out \in Outcomes(wants[serving[h].user]) :
              \/ out \in {ParseError, Panic}
              \/ out.kind = "quads" /\ (out.quads = <<>> \/ out.quads \in Batch)
<1>1. serving[h] # NoRequest
  BY Busy
<1>2. Posts(serving[h].user) /\ Idle(h)
  BY DEF ServerInv, HandlerFits, At
<1>3. wants \in Scenario /\ serving[h].user \in DOMAIN wants
  BY <1>1, RequestTyped DEF ServerInv, ServerTypeOK
<1>4. wants[serving[h].user].type \in DOMAIN ParserOf
  BY <1>2 DEF Posts
<1> QED BY <1>1, <1>2, <1>3, <1>4, ScenarioAssumption

LEMMA ReadBodyInv ==
  ASSUME ServerInv, IInv', NEW h \in Writer, ReadBody(h)
  PROVE  ServerInv'
<1> DEFINE u == serving[h].user
<1>1. /\ At(h, "read") /\ UNCHANGED <<vars, wants>>
      /\ serving[h] # NoRequest /\ Idle(h) /\ Posts(u)
  BY Reading DEF ReadBody
<1>2. ASSUME NEW out \in Outcomes(wants[u]), out.kind = "quads",
             serving' = [serving EXCEPT ![h].stage = "insert", ![h].quads = out.quads],
             heard' = heard
      PROVE  ServerInv'
  <2> DEFINE r == [serving[h] EXCEPT !.stage = "insert", !.quads = out.quads]
  <2>1. out.quads \in {<<>>} \cup Batch
    BY <1>1, <1>2, Reading DEF ParseError, Panic
  <2>2. r \in [stage : {"check", "read", "insert", "inserting"}, user : DOMAIN wants,
               listening : BOOLEAN, quads : {<<>>} \cup Batch]
        /\ r.stage = "insert" /\ r.user = u /\ r.quads = out.quads
    BY <1>1, <2>1, RequestTyped DEF ServerInv
  <2>3. serving' = [serving EXCEPT ![h] = r] /\ serving'[h] = r
    BY <1>2 DEF ServerInv, ServerTypeOK
  <2> HIDE DEF r
  <2>4. HandlerFits(h)'
    <3>1. At(h, "insert")' /\ Idle(h)' /\ serving'[h].user = u
      BY <1>1, <2>2, <2>3 DEF At, Idle, vars
    <3>2. (Posts(u) <=> wants'[u].method = "POST" /\ wants'[u].type \in DOMAIN ParserOf)
      BY <1>1 DEF Posts
    <3>3. QuadsOf(h)' = {out.quads[i] : i \in DOMAIN out.quads}
      BY <2>2, <2>3 DEF QuadsOf
    <3>4. {out.quads[i] : i \in DOMAIN out.quads} \in Readings(u)
      BY <1>2 DEF Readings
    <3>5. Readings(serving[h].user)' = Readings(u)
      BY <1>1, <3>1 DEF Readings, Outcomes
    <3> QED BY <1>1, <3>1, <3>2, <3>3, <3>4, <3>5 DEF HandlerFits, At, Posts
  <2>5. heard' \in [DOMAIN wants -> {"nothing", "waiting", "broken"} \cup Status]
    BY <1>2 DEF ServerInv, ServerTypeOK
  <2> QED BY <1>1, <1>2, <2>2, <2>3, <2>4, <2>5, HandlerMoves
<1>3. ASSUME Respond(h, "400") \/ Respond(h, "broken")
      PROVE  ServerInv'
  BY <1>1, <1>3, RespondInv DEF Status
<1>4. CASE ~serving[h].listening /\ Respond(h, "400")
  BY <1>3, <1>4
<1>5. ASSUME NEW out \in Outcomes(wants[u]),
             CASE out.kind = "quads" ->
                    /\ serving' = [serving EXCEPT ![h].stage = "insert", ![h].quads = out.quads]
                    /\ UNCHANGED heard
               [] out.kind = "error" -> Respond(h, "400")
               [] out.kind = "panic" -> Respond(h, "broken")
      PROVE  ServerInv'
  <2>1. out.kind \in {"quads", "error", "panic"}
    BY <1>1, Reading DEF ParseError, Panic
  <2>2. CASE out.kind = "quads"
    BY <1>2, <1>5, <2>2
  <2>3. CASE out.kind = "error"
    BY <1>3, <1>5, <2>3
  <2>4. CASE out.kind = "panic"
    BY <1>3, <1>5, <2>4
  <2> QED BY <2>1, <2>2, <2>3, <2>4
<1> QED BY <1>4, <1>5 DEF ReadBody

LEMMA BodyTimeoutInv ==
  ASSUME ServerInv, IInv', NEW h \in Writer, BodyTimeout(h)
  PROVE  ServerInv'
<1>1. serving[h] # NoRequest /\ Idle(h)
  BY Reading DEF BodyTimeout
<1> QED BY <1>1, RespondInv DEF BodyTimeout, Status

LEMMA InsertNothingInv ==
  ASSUME ServerInv, IInv', NEW h \in Writer, InsertNothing(h)
  PROVE  ServerInv'
<1>1. serving[h] # NoRequest /\ HandlerFits(h) /\ At(h, "insert")
  BY Busy DEF InsertNothing, ServerInv
<1>2. Idle(h) /\ QuadsOf(h) \in Readings(serving[h].user)
  BY <1>1 DEF HandlerFits, At
<1>3. QuadsOf(h) = {}
  BY DEF QuadsOf, InsertNothing
<1> QED BY <1>1, <1>2, <1>3, RespondInv DEF InsertNothing, Status

(* The call has returned: with "ok" the quads are in the store.            *)
LEMMA InsertedInv ==
  ASSUME ServerInv, IInv', NEW h \in Writer, Inserted(h)
  PROVE  ServerInv'
<1>1. serving[h] # NoRequest /\ HandlerFits(h) /\ At(h, "inserting") /\ Idle(h)
  BY Busy DEF Inserted, ServerInv
<1>2. /\ ret[h].kind = "ok" => QuadsOf(h) \subseteq StoredQuads(db.tables)
      /\ QuadsOf(h) \in Readings(serving[h].user)
  BY <1>1 DEF HandlerFits, At
<1>3. CASE ret[h].kind = "ok"
  BY <1>1, <1>2, <1>3, RespondInv DEF Inserted, Status
<1>4. CASE ret[h].kind # "ok"
  BY <1>1, <1>4, RespondInv DEF Inserted, Status
<1> QED BY <1>3, <1>4

LEMMA BreakInv ==
  ASSUME ServerInv, IInv', NEW h \in Writer, Break(h)
  PROVE  ServerInv'
<1> DEFINE r == [serving[h] EXCEPT !.listening = FALSE]
           u == serving[h].user
<1>1. r \in [stage : {"check", "read", "insert", "inserting"}, user : DOMAIN wants,
             listening : BOOLEAN, quads : {<<>>} \cup Batch]
      /\ r.stage = serving[h].stage /\ r.user = u /\ r.quads = serving[h].quads
  BY RequestTyped DEF ServerInv, Break
<1>2. serving' = [serving EXCEPT ![h] = r] /\ serving'[h] = r
      /\ heard' = [heard EXCEPT ![u] = "broken"] /\ UNCHANGED <<vars, wants>>
  BY DEF ServerInv, ServerTypeOK, Break
<1> HIDE DEF r, u
<1>3. HandlerFits(h)'
  <2>1. HandlerFits(h)
    BY DEF ServerInv
  <2>2. \A s : At(h, s)' <=> At(h, s)
    BY <1>1, <1>2 DEF At
  <2>3. QuadsOf(h)' = QuadsOf(h) /\ serving'[h].user = serving[h].user
        /\ serving'[h].quads = serving[h].quads /\ serving'[h].stage = serving[h].stage
    BY <1>1, <1>2 DEF QuadsOf, u
  <2>4. Readings(serving[h].user)' = Readings(serving[h].user)
        /\ (Posts(serving[h].user)' <=> Posts(serving[h].user))
    BY <1>2, <2>3 DEF Readings, Outcomes, Posts
  <2>5. (Idle(h)' <=> Idle(h)) /\ call' = call /\ ret' = ret /\ db' = db
    BY <1>2 DEF Idle, vars
  <2> QED BY <2>1, <2>2, <2>3, <2>4, <2>5 DEF HandlerFits
<1>4. /\ heard' \in [DOMAIN wants -> {"nothing", "waiting", "broken"} \cup Status]
      /\ \A v \in DOMAIN wants : heard'[v] = "200" => heard[v] = "200"
  BY <1>2 DEF ServerInv, ServerTypeOK
<1> QED BY <1>1, <1>2, <1>3, <1>4, HandlerMoves

-----------------------------------------------------------------------------
(* Steps of the store for a handler.                                       *)

LEMMA InsertInv ==
  ASSUME ServerInv, IInv', NEW h \in Writer, Insert(h)
  PROVE  ServerInv'
<1> DEFINE r == [serving[h] EXCEPT !.stage = "inserting"]
<1>1. /\ serving[h] # NoRequest /\ serving[h].stage = "insert" /\ HandlerFits(h)
      /\ CallWrite(h, "insert", serving[h].quads) /\ DOMAIN call = Client
  BY Busy DEF Insert, ServerInv, At, IInv, TypeOK
<1>2. r \in [stage : {"check", "read", "insert", "inserting"}, user : DOMAIN wants,
             listening : BOOLEAN, quads : {<<>>} \cup Batch]
      /\ r.stage = "inserting" /\ r.user = serving[h].user /\ r.quads = serving[h].quads
  BY <1>1, RequestTyped DEF ServerInv
<1>3. /\ serving \in [Writer -> {NoRequest} \cup
           [stage : {"check", "read", "insert", "inserting"}, user : DOMAIN wants,
            listening : BOOLEAN, quads : {<<>>} \cup Batch]]
      /\ serving' = [serving EXCEPT ![h].stage = "inserting"]
      /\ wants' = wants /\ heard' = heard /\ db' = db
  BY <1>1 DEF ServerInv, ServerTypeOK, Insert, CallWrite, Enter
<1>4. serving' = [serving EXCEPT ![h] = r] /\ serving'[h] = r
  BY <1>3
<1>5. /\ \A x \in Writer \ {h} : call'[x] = call[x] /\ ret'[x] = ret[x]
      /\ call'[h] = [op |-> "insert", batch |-> serving[h].quads, next |-> 1, failed |-> FALSE]
  BY <1>1, WriterIsClient DEF CallWrite, Enter, ServerInv, IInv, TypeOK
<1>6. \A v : (Posts(v)' <=> Posts(v)) /\ Readings(v)' = Readings(v)
  BY <1>3 DEF Posts, Readings, Outcomes
<1> HIDE DEF r
<1>7. HandlerFits(h)'
  <2>1. call'[h].op = "insert" /\ call'[h].batch = serving[h].quads /\ call'[h] # NoCall
    BY <1>5 DEF NoCall
  <2>2. /\ serving'[h].stage = "inserting" /\ serving'[h].user = serving[h].user
        /\ serving'[h].quads = serving[h].quads /\ QuadsOf(h)' = QuadsOf(h)
    BY <1>2, <1>4 DEF QuadsOf
  <2>3. Posts(serving[h].user) /\ QuadsOf(h) \in Readings(serving[h].user)
    BY <1>1 DEF HandlerFits
  <2> QED BY <1>6, <2>1, <2>2, <2>3 DEF HandlerFits, At, Idle
<1>8. ASSUME NEW x \in Writer PROVE HandlerFits(x)'
  <2>1. CASE x # h
    <3>1. HandlerFits(x) /\ serving'[x] = serving[x] /\ call'[x] = call[x] /\ ret'[x] = ret[x]
      BY <1>3, <1>5, <2>1 DEF ServerInv
    <3> QED BY <1>3, <3>1, OtherFits
  <2> QED BY <1>7, <2>1
<1>9. ServerTypeOK'
  BY <1>2, <1>3, <1>4 DEF ServerInv, ServerTypeOK
<1>10. OkMeansStored'
  BY <1>3, <1>6 DEF ServerInv, OkMeansStored
<1>11. WholeUploads'
  BY <1>3, <1>6 DEF ServerInv, WholeUploads
<1> QED BY <1>8, <1>9, <1>10, <1>11 DEF ServerInv

(* Of a handler's insert only the commit changes the store, and it adds    *)
(* what the handler read.                                                  *)
LEMMA StorageEffect ==
  ASSUME ServerInv, NEW h \in Writer,
         \/ InsertStep(h) \/ InsertError(h) \/ CommitOk(h) \/ CommitConflict(h) \/ Rollback(h)
  PROVE  /\ ~Idle(h)
         /\ \A x \in Writer \ {h} : call'[x] = call[x] /\ ret'[x] = ret[x]
         /\ \/ /\ StoredQuads(db'.tables) = StoredQuads(db.tables)
               /\ \/ /\ call'[h] # NoCall /\ call'[h].op = "insert"
                     /\ call'[h].batch = call[h].batch
                  \/ call'[h] = NoCall /\ ret'[h].kind # "ok"
            \/ /\ StoredQuads(db'.tables) = StoredQuads(db.tables) \cup QuadsOf(h)
               /\ call'[h] = NoCall
<1>1. ~Idle(h)
  BY DEF Idle, NoCall, WriteOp, Writing, HasQuadLeft, ReadyToCommit, InsertStep, InsertError,
         CommitOk, CommitConflict, Rollback
<1>2. /\ h \in Client /\ call[h].op = "insert" /\ call[h].batch = serving[h].quads
      /\ TypeOK /\ DOMAIN call = Client /\ DOMAIN ret = Client /\ IInv
  BY <1>1, InsertUnderWay, WriterIsClient DEF ServerInv, IInv, TypeOK
<1>3. CASE InsertStep(h) \/ InsertError(h)
  <2>1. call[h] \in WriteCall
    BY <1>2, WriteCallTyped DEF WriteOp
  <2>2. /\ db' = db /\ ret' = ret
        /\ \/ call' = [call EXCEPT ![h].next = @ + 1]
           \/ call' = [call EXCEPT ![h].failed = TRUE]
    BY <1>3 DEF InsertStep, InsertError
  <2>3. /\ call'[h].op = "insert" /\ call'[h].batch = call[h].batch
        /\ \A x \in Writer \ {h} : call'[x] = call[x]
    BY <1>2, <2>1, <2>2, WriterIsClient DEF WriteCall
  <2>4. call'[h] # NoCall
    BY <2>3 DEF NoCall
  <2> QED BY <1>1, <2>2, <2>3, <2>4
<1>4. CASE CommitOk(h)
  <2>1. StoredQuads(db'.tables) =
          StoredQuads(db.tables) \cup {call[h].batch[j] : j \in DOMAIN call[h].batch}
    BY <1>2, <1>4, CommitEffect
  <2>2. QuadsOf(h) = {call[h].batch[j] : j \in DOMAIN call[h].batch}
    BY <1>2 DEF QuadsOf
  <2>3. /\ call'[h] = NoCall
        /\ \A x \in Writer \ {h} : call'[x] = call[x] /\ ret'[x] = ret[x]
    BY <1>2, <1>4, WriterIsClient DEF CommitOk
  <2> QED BY <1>1, <2>1, <2>2, <2>3
<1>5. CASE CommitConflict(h) \/ Rollback(h)
  <2>1. /\ db' = db /\ call'[h] = NoCall /\ ret'[h].kind # "ok"
        /\ \A x \in Writer \ {h} : call'[x] = call[x] /\ ret'[x] = ret[x]
    BY <1>2, <1>5, WriterIsClient DEF CommitConflict, Rollback, Leave, Ret
  <2> QED BY <1>1, <2>1
<1> QED BY <1>3, <1>4, <1>5

LEMMA StorageInv ==
  ASSUME ServerInv, IInv', NEW h \in Writer,
         \/ InsertStep(h) \/ InsertError(h) \/ CommitOk(h) \/ CommitConflict(h) \/ Rollback(h),
         UNCHANGED <<wants, heard, serving>>
  PROVE  ServerInv'
<1> DEFINE stored == StoredQuads(db.tables)
           R == QuadsOf(h)
           u == serving[h].user
<1>1. /\ At(h, "inserting") /\ serving[h] # NoRequest /\ Posts(u) /\ R \in Readings(u)
      /\ call[h].batch = serving[h].quads /\ ~Idle(h)
  BY StorageEffect, InsertUnderWay
<1>2. StoredQuads(db'.tables) = stored \/ StoredQuads(db'.tables) = stored \cup R
  BY StorageEffect
<1>3. \A v : (Posts(v)' <=> Posts(v)) /\ Readings(v)' = Readings(v)
  BY DEF Posts, Readings, Outcomes
<1>4. ServerTypeOK'
  BY DEF ServerInv, ServerTypeOK
<1>5. HandlerFits(h)'
  <2>1. QuadsOf(h)' = R /\ serving'[h] = serving[h] /\ serving[h].stage = "inserting"
    BY <1>1 DEF QuadsOf, At
  <2>2. CASE call'[h] = NoCall
    <3>1. ret'[h].kind = "ok" => R \subseteq StoredQuads(db'.tables)
      BY <2>2, StorageEffect
    <3> QED BY <1>1, <1>3, <2>1, <2>2, <3>1 DEF HandlerFits, At, Idle
  <2>3. CASE call'[h] # NoCall
    <3>1. call'[h].op = "insert" /\ call'[h].batch = serving[h].quads
      BY <1>1, <2>3, StorageEffect
    <3> QED BY <1>1, <1>3, <2>1, <2>3, <3>1 DEF HandlerFits, At, Idle
  <2> QED BY <2>2, <2>3
<1>6. ASSUME NEW x \in Writer PROVE HandlerFits(x)'
  <2>1. CASE x # h
    <3>1. HandlerFits(x) /\ serving'[x] = serving[x] /\ call'[x] = call[x] /\ ret'[x] = ret[x]
      BY <2>1, StorageEffect DEF ServerInv
    <3>2. StoredQuads(db.tables) \subseteq StoredQuads(db'.tables)
      BY <1>2
    <3> QED BY <3>1, <3>2, OtherFits
  <2> QED BY <1>5, <2>1
<1>7. u \in DOMAIN wants
  BY <1>1, RequestTyped DEF ServerInv
<1> HIDE DEF R, u
<1>8. OkMeansStored'
  BY <1>2, <1>3 DEF ServerInv, OkMeansStored
<1>9. WholeUploads'
  <2> DEFINE all == UNION {Readings(v) : v \in {x \in DOMAIN wants : Posts(x)}}
             new == StoredQuads(db'.tables)
  <2>1. R \in all
    BY <1>1, <1>7
  <2>2. stored = UNION {reading \in all : reading \subseteq stored}
    BY DEF ServerInv, WholeUploads
  <2>3. all' = all
    BY <1>3
  <2>4. new = stored \/ new = stored \cup R
    BY <1>2
  <2> HIDE DEF all, stored
  <2>5. CASE new = stored
    <3>1. new = UNION {reading \in all : reading \subseteq new}
      BY <2>2, <2>5
    <3> QED BY <2>3, <3>1 DEF WholeUploads, all
  <2>6. CASE new = stored \cup R
    <3> HIDE DEF new
    <3>1. new = UNION {reading \in all : reading \subseteq new}
      <4>1. UNION {reading \in all : reading \subseteq new} \subseteq new
        OBVIOUS
      <4>2. stored \subseteq UNION {reading \in all : reading \subseteq new}
        BY <2>2, <2>6
      <4>3. R \subseteq UNION {reading \in all : reading \subseteq new}
        BY <2>1, <2>6
      <4> QED BY <2>6, <4>1, <4>2, <4>3
    <3> QED BY <2>3, <3>1 DEF WholeUploads, all, new
  <2> QED BY <2>4, <2>5, <2>6
<1> QED BY <1>4, <1>6, <1>8, <1>9 DEF ServerInv

-----------------------------------------------------------------------------
(* The invariant and the theorems.                                         *)

LEMMA ServerInitInv == ServerInit => ServerInv
<1> SUFFICES ASSUME ServerInit PROVE ServerInv
  OBVIOUS
<1>1. IInv /\ db = EmptyDatabase /\ call = [c \in Client |-> NoCall]
  BY InitInv DEF ServerInit, Init
<1>2. ServerTypeOK
  BY DEF ServerInit, ServerTypeOK
<1>3. \A h \in Writer : HandlerFits(h)
  BY <1>1, WriterIsClient DEF ServerInit, HandlerFits, At, NoRequest, Idle
<1>4. OkMeansStored
  BY DEF ServerInit, OkMeansStored
<1>5. StoredQuads(db.tables) = {}
  BY <1>1 DEF EmptyDatabase, StoredQuads, Table, DefaultTable, QuadTable
<1>6. WholeUploads
  BY <1>5 DEF WholeUploads
<1> QED BY <1>1, <1>2, <1>3, <1>4, <1>6 DEF ServerInv

LEMMA ServerNextInv == ServerInv /\ [ServerNext]_allVars => ServerInv'
<1> SUFFICES ASSUME ServerInv, [ServerNext]_allVars PROVE ServerInv'
  OBVIOUS
<1>1. IInv'
  BY StoreSteps, NextInv DEF ServerInv
<1>2. ASSUME NEW u \in DOMAIN wants, Post(u)
      PROVE  ServerInv'
  BY <1>1, <1>2, PostInv
<1>3. ASSUME NEW h \in Writer, CheckRequest(h) \/ ReadBody(h) \/ BodyTimeout(h) \/ Break(h)
      PROVE  ServerInv'
  BY <1>1, <1>3, CheckRequestInv, ReadBodyInv, BodyTimeoutInv, BreakInv
<1>4. ASSUME NEW h \in Writer, InsertNothing(h) \/ Insert(h) \/ Inserted(h)
      PROVE  ServerInv'
  BY <1>1, <1>4, InsertNothingInv, InsertInv, InsertedInv
<1>5. ASSUME NEW h \in Writer, StorageStep(h) \/ StorageTrouble(h)
      PROVE  ServerInv'
  <2>1. /\ \/ InsertStep(h) \/ InsertError(h) \/ CommitOk(h) \/ CommitConflict(h)
           \/ Rollback(h)
        /\ UNCHANGED <<wants, heard, serving>>
    BY <1>5 DEF StorageStep, StorageTrouble, serverVars
  <2> QED BY <1>1, <2>1, StorageInv
<1>6. CASE UNCHANGED allVars
  <2>1. UNCHANGED <<db, call, ret, wants, heard, serving>>
    BY <1>6 DEF allVars, vars, serverVars
  <2>2. \A v : (Posts(v)' <=> Posts(v)) /\ Readings(v)' = Readings(v)
    BY <2>1 DEF Posts, Readings, Outcomes
  <2>3. \A x \in Writer : HandlerFits(x)'
    BY <2>1, OtherFits DEF ServerInv
  <2>4. ServerTypeOK'
    BY <2>1 DEF ServerInv, ServerTypeOK
  <2>5. OkMeansStored' /\ WholeUploads'
    BY <2>1, <2>2 DEF ServerInv, OkMeansStored, WholeUploads
  <2> QED BY <1>1, <2>3, <2>4, <2>5 DEF ServerInv
<1> QED BY <1>2, <1>3, <1>4, <1>5, <1>6 DEF ServerNext, Handle

(* The invariant of every reachable state of the server and its store.     *)
THEOREM ServerInvariance == ServerSpec => []ServerInv
<1>1. ServerInit => ServerInv
  BY ServerInitInv
<1>2. ServerInv /\ [ServerNext]_allVars => ServerInv'
  BY ServerNextInv
<1> QED BY <1>1, <1>2, PTL DEF ServerSpec

(* Whatever handlers run at the same time and whatever breaks off: a user  *)
(* that is told of success finds its whole document in the store.          *)
THEOREM SuccessMeansStored == ServerSpec => []OkMeansStored
<1>1. ServerInv => OkMeansStored
  BY DEF ServerInv
<1> QED BY <1>1, ServerInvariance, PTL

(* The store never holds part of an upload, however often what failed is   *)
(* posted again.                                                           *)
THEOREM OnlyWholeUploads == ServerSpec => []WholeUploads
<1>1. ServerInv => WholeUploads
  BY DEF ServerInv
<1> QED BY <1>1, ServerInvariance, PTL

(* Under the server the nine index tables agree, in the committed database *)
(* and in every snapshot a query may be reading.                           *)
THEOREM ServedIndexesAgree == ServerSpec => []IndexAgreement
<1>1. ServerInv => IndexAgreement
  BY VisibleConsistent DEF ServerInv, IndexAgreement, Consistent
<1> QED BY <1>1, ServerInvariance, PTL

(* Under the server the store is still an atomic set of quads: whatever    *)
(* the handlers do, and wherever one of them is cut off, an upload shows   *)
(* in the store at its commit and not before, whole.                       *)
THEOREM ServedStoreImplements == ServerSpec => Implements
<1>1. ServerInit => CallInv
  BY CallInvInit DEF ServerInit
<1>2. ServerInv /\ CallInv /\ [ServerNext]_allVars => CallInv'
  BY StoreSteps, CallInvNext DEF ServerInv
<1>3. ServerInit => Abstract!Init
  BY AbstractInit DEF ServerInit
<1>4. ServerInv /\ CallInv /\ [ServerNext]_allVars => [Abstract!Next]_(Abstract!vars)
  BY StoreSteps, AbstractNext DEF ServerInv
<1> QED BY <1>1, <1>2, <1>3, <1>4, ServerInvariance, PTL
        DEF ServerSpec, Implements, Abstract!Spec
=============================================================================
