------------------------------- MODULE Server -------------------------------
(***************************************************************************)
(* Uploads over HTTP (pkg/server) on the triple store.  net/http runs one  *)
(* goroutine per request; handleDataUpload reads and parses the body,      *)
(* inserts the quads as one batch and answers.  A connection may break at  *)
(* any time, by the 15-second timeouts of Start or on the user's side: the *)
(* handler is not told and runs to its end.                                *)
(*                                                                         *)
(* The users are not part of the repository: one posts its document and    *)
(* posts it again as long as it has not heard of success.                  *)
(***************************************************************************)
EXTENDS TripleStore

CONSTANTS
  User,
  Scenario,      \* what the users want to post: functions from users to
                 \* [method, type, body]
  Parse(_, _),   \* what a parser may make of a body: a set of outcomes
  Trouble(_)     \* bound: how many connections break, reads time out and
                 \* storage calls fail in a scenario

Quads(quads) == [kind |-> "quads", quads |-> quads]
ParseError == [kind |-> "error", quads |-> <<>>]
Panic == [kind |-> "panic", quads |-> <<>>]

(* NewParser: the content types and the parser of each. *)
ParserOf ==
  [type \in {"application/n-triples", "text/plain", "text/turtle", "application/x-turtle",
             "application/n-quads", "application/trig", "application/x-trig",
             "application/rdf+xml", "application/xml", "text/xml",
             "application/ld+json", "application/json"} |->
     CASE type \in {"application/n-triples", "text/plain", "text/turtle",
                    "application/x-turtle"} -> "turtle"
       [] type = "application/n-quads" -> "nquads"
       [] type \in {"application/trig", "application/x-trig"} -> "trig"
       [] type \in {"application/rdf+xml", "application/xml", "text/xml"} -> "rdfxml"
       [] type \in {"application/ld+json", "application/json"} -> "jsonld"]

Outcomes(rq) == Parse(ParserOf[rq.type], rq.body)

ASSUME ScenarioAssumption ==
  \A wish \in Scenario :
    /\ DOMAIN wish \subseteq User
    /\ \A u \in DOMAIN wish :
         wish[u].type \in DOMAIN ParserOf =>
           \A out \in Outcomes(wish[u]) :
             \/ out \in {ParseError, Panic}
             \/ out.kind = "quads" /\ (out.quads = <<>> \/ out.quads \in Batch)

VARIABLES
  wants,     \* what each user posts
  heard,     \* the last answer each user got
  serving,   \* the request each handler is at
  trouble    \* the troubles to come

serverVars == <<wants, heard, serving, trouble>>
allVars == <<vars, serverVars>>

NoRequest == [stage |-> "none"]

Status == {"200", "400", "405", "415", "500"}

RequestOf(stage, u, quads) ==
  [stage |-> stage, user |-> u, listening |-> TRUE, quads |-> quads]

ServerInit ==
  /\ Init
  /\ wants \in Scenario
  /\ heard = [u \in DOMAIN wants |-> "nothing"]
  /\ serving = [h \in Writer |-> NoRequest]
  /\ trouble = Trouble(wants)

Free == {h \in Writer : serving[h] = NoRequest}

At(h, stage) == serving[h].stage = stage

(* A user posts, for the first time or again; one goroutine is as good as  *)
(* another.                                                                *)
Post(u) ==
  /\ heard[u] \notin {"waiting", "200"}
  /\ Free # {}
  /\ LET h == CHOOSE h \in Free : TRUE
     IN  serving' = [serving EXCEPT ![h] = RequestOf("check", u, <<>>)]
  /\ heard' = [heard EXCEPT ![u] = "waiting"]
  /\ UNCHANGED <<vars, wants, trouble>>

(* The end of the handler.  What it writes is lost on a broken connection. *)
Respond(h, status) ==
  /\ serving' = [serving EXCEPT ![h] = NoRequest]
  /\ heard' = IF serving[h].listening THEN [heard EXCEPT ![serving[h].user] = status]
              ELSE heard

CheckRequest(h) ==
  /\ At(h, "check")
  /\ LET rq == wants[serving[h].user]
         status == CASE rq.method = "OPTIONS" -> "200"
                     [] rq.method \notin {"OPTIONS", "POST"} -> "405"
                     [] rq.method = "POST" /\ rq.type = "" -> "400"
                     [] rq.method = "POST" /\ rq.type \notin DOMAIN ParserOf \cup {""} -> "415"
                     [] rq.method = "POST" /\ rq.type \in DOMAIN ParserOf -> "fine"
     IN  IF status = "fine"
         THEN serving' = [serving EXCEPT ![h].stage = "read"] /\ UNCHANGED heard
         ELSE Respond(h, status)
  /\ UNCHANGED <<vars, wants, trouble>>

(* parser.Parse over the body.  net/http recovers a panic and closes the   *)
(* connection; a body that breaks off with the connection is an error.     *)
ReadBody(h) ==
  /\ At(h, "read")
  /\ \/ \E out \in Outcomes(wants[serving[h].user]) :
          CASE out.kind = "quads" ->
                 /\ serving' = [serving EXCEPT ![h].stage = "insert", ![h].quads = out.quads]
                 /\ UNCHANGED heard
            [] out.kind = "error" -> Respond(h, "400")
            [] out.kind = "panic" -> Respond(h, "broken")
     \/ ~serving[h].listening /\ Respond(h, "400")
  /\ UNCHANGED <<vars, wants, trouble>>

(* ReadTimeout passes while the body is read. *)
BodyTimeout(h) ==
  /\ At(h, "read") /\ trouble > 0
  /\ Respond(h, "400")
  /\ trouble' = trouble - 1
  /\ UNCHANGED <<vars, wants>>

(* InsertQuadsBatch of no quads returns at once. *)
InsertNothing(h) ==
  /\ At(h, "insert") /\ serving[h].quads = <<>>
  /\ Respond(h, "200")
  /\ UNCHANGED <<vars, wants, trouble>>

Insert(h) ==
  /\ At(h, "insert")
  /\ CallWrite(h, "insert", serving[h].quads)
  /\ serving' = [serving EXCEPT ![h].stage = "inserting"]
  /\ UNCHANGED <<wants, heard, trouble>>

(* Mutant of Inserted: the error of InsertQuadsBatch is not looked at. *)
InsertedAnyhow(h) ==
  /\ At(h, "inserting") /\ Idle(h)
  /\ Respond(h, "200")
  /\ UNCHANGED <<vars, wants, trouble>>

Inserted(h) ==
  /\ At(h, "inserting") /\ Idle(h)
  /\ Respond(h, IF ret[h].kind = "ok" THEN "200" ELSE "500")
  /\ UNCHANGED <<vars, wants, trouble>>

StorageStep(h) ==
  /\ \/ InsertStep(h) \/ CommitOk(h) \/ CommitConflict(h) \/ Rollback(h)
     \/ InsertError(h) /\ ~Encodable(CurrentQuad(h))
  /\ UNCHANGED serverVars

StorageTrouble(h) ==
  /\ trouble > 0
  /\ InsertError(h) /\ Encodable(CurrentQuad(h))
  /\ trouble' = trouble - 1
  /\ UNCHANGED <<wants, heard, serving>>

(* The connection breaks, before the handler has answered. *)
Break(h) ==
  /\ serving[h] # NoRequest /\ serving[h].listening
  /\ trouble > 0
  /\ serving' = [serving EXCEPT ![h].listening = FALSE]
  /\ heard' = [heard EXCEPT ![serving[h].user] = "broken"]
  /\ trouble' = trouble - 1
  /\ UNCHANGED <<vars, wants>>

Handle(h) ==
  CheckRequest(h) \/ ReadBody(h) \/ InsertNothing(h) \/ Insert(h) \/ StorageStep(h)
    \/ Inserted(h)

ServerNext ==
  \/ \E u \in DOMAIN wants : Post(u)
  \/ \E h \in Writer : Handle(h) \/ BodyTimeout(h) \/ StorageTrouble(h) \/ Break(h)

ServerSpec == ServerInit /\ [][ServerNext]_allVars

PostAgain(u) == u \in DOMAIN wants /\ Post(u)

(***************************************************************************)
(* Goroutines are scheduled fairly, and a user does not give up.           *)
(***************************************************************************)
FairServerSpec ==
  /\ ServerSpec
  /\ \A h \in Writer : WF_allVars(Handle(h))
  /\ \A u \in User : WF_allVars(PostAgain(u))
-----------------------------------------------------------------------------
(* Properties.                                                             *)

Posts(u) == wants[u].method = "POST" /\ wants[u].type \in DOMAIN ParserOf

(* The sets of quads the parsers may make of what a user posts. *)
Readings(u) ==
  {{out.quads[i] : i \in DOMAIN out.quads} :
     out \in {o \in Outcomes(wants[u]) : o.kind = "quads"}}

(* A user that is told of success finds all the quads of some reading of   *)
(* its document in the store.                                              *)
OkMeansStored ==
  \A u \in DOMAIN wants :
    heard[u] = "200" /\ Posts(u) =>
      \E reading \in Readings(u) : reading \subseteq StoredQuads(db.tables)

(* Whatever breaks off and is posted again, the store holds whole readings *)
(* of documents and nothing besides.  Where a document has one reading, a  *)
(* retry of what was committed unheard therefore adds nothing.             *)
WholeUploads ==
  LET whole == {reading \in UNION {Readings(u) : u \in {x \in DOMAIN wants : Posts(x)}} :
                  reading \subseteq StoredQuads(db.tables)}
  IN  StoredQuads(db.tables) = UNION whole

(* A document in which nothing is wrong. *)
Fine(u) ==
  /\ u \in DOMAIN wants /\ Posts(u)
  /\ \A out \in Outcomes(wants[u]) :
       out.kind = "quads" /\ \A i \in DOMAIN out.quads : Encodable(out.quads[i])

(* Although a retry may lose a conflict against the insert it repeats,     *)
(* every fine document is accepted in the end.                             *)
UploadsSucceed ==
  \A u \in User : Fine(u) ~> (u \in DOMAIN heard /\ heard[u] = "200")

-----------------------------------------------------------------------------
(* The inductive invariant behind OkMeansStored and WholeUploads.          *)

QuadsOf(h) == {serving[h].quads[i] : i \in DOMAIN serving[h].quads}

(* What a handler holds while it inserts is a reading of what its user     *)
(* posted; until its call has returned the call is for these quads, and    *)
(* when it has returned "ok" they are in the store.                        *)
HandlerFits(h) ==
  /\ At(h, "read") => Posts(serving[h].user)
  /\ serving[h].stage \in {"insert", "inserting"} =>
       /\ Posts(serving[h].user)
       /\ QuadsOf(h) \in Readings(serving[h].user)
  /\ ~At(h, "inserting") => Idle(h)
  /\ At(h, "inserting") =>
       IF Idle(h) THEN ret[h].kind = "ok" => QuadsOf(h) \subseteq StoredQuads(db.tables)
       ELSE call[h].op = "insert" /\ call[h].batch = serving[h].quads

ServerTypeOK ==
  /\ wants \in Scenario
  /\ heard \in [DOMAIN wants -> {"nothing", "waiting", "broken"} \cup Status]
  /\ serving \in [Writer -> {NoRequest} \cup
       [stage : {"check", "read", "insert", "inserting"}, user : DOMAIN wants,
        listening : BOOLEAN, quads : {<<>>} \cup Batch]]

ServerInv ==
  /\ IInv
  /\ ServerTypeOK
  /\ \A h \in Writer : HandlerFits(h)
  /\ OkMeansStored
  /\ WholeUploads
=============================================================================
