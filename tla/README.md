# Verification of trigo

trigo is an RDF triple store with a SPARQL engine, written in Go on top of the
key-value store BadgerDB. This directory models it in TLA+: TLC checks the
models on small instances, TLAPS proves what matters most for every value of
the constants. File names below are relative to the repository.

## The system

| Part | Where | State | Operations |
|---|---|---|---|
| Storage wrapper | `internal/storage/badger.go`, `pkg/store/storage.go` | the database; per transaction a snapshot and a write buffer | Begin, Get, Set, Delete, Scan, Commit, Rollback |
| Term encoding | `internal/encoding` | none | EncodeTerm, DecodeTerm, EncodeQuadKey |
| Triple store | `pkg/store/store.go` | nine index tables, `id2str`, `graphs` | insert and delete (one quad or a batch), ContainsQuad, Count |
| Queries of the store | `pkg/store/query.go` | an iterator over a scan | Query, Next, Quad, Close |
| SPARQL parser | `pkg/sparql/parser` | position, prefixes, base | query text to a query: form, graph pattern, modifiers |
| Optimizer | `pkg/sparql/optimizer` | `TotalTriples`, read once at start | graph patterns to plans |
| Executor | `pkg/sparql/executor` | a tree of iterators per query | SELECT, ASK, CONSTRUCT, DESCRIBE |
| Evaluator | `pkg/sparql/evaluator` | none | expressions of FILTER and BIND |
| Turtle, N-Triples, TriG | `pkg/rdf/turtle.go`, `trig.go`, `io.go` | position, prefixes, base, label counter, waiting triples, the calls under way | an uploaded text to quads |
| N-Quads | `pkg/rdf/nquads.go` | position | as above |
| RDF/XML | `pkg/rdf/rdfxml.go` | stacks of elements, bases, languages and directions, used IDs, node identifiers, two counters, the loops under way | as above |
| JSON-LD | `pkg/rdf/jsonld.go` | a counter, the quads so far | a tree to quads |
| Isomorphism | `pkg/rdf/isomorphism.go` | a partial mapping of labels | comparing graphs and datasets |
| HTTP server | `pkg/server` | one goroutine per request, nothing kept between two | `/sparql`, `/data`, `/` |
| Command line, test runner | `cmd`, `internal/testsuite` | none | callers of the above |

Requests run in goroutines of their own. They share only the store; the store
shares only the Badger database; every call of the store is one transaction
(a batch is one transaction, and so is each scan of a query). So all
interaction between requests is the interaction of Badger transactions:
snapshot reads, buffered writes, conflict detection at commit over the keys
read, and whatever a crash does to commits that are not on disk yet.

### What is hard here

- **Interleaving.** `InsertQuadsBatch` of two callers may write the same
  strings; `storeString` (store.go:155) skips a string its snapshot holds, and so
  relies on an entry another transaction wrote.
- **Atomicity.** One quad is three, six or nine index keys, up to four strings
  and a graph; an error between any two of these writes must leave nothing.
- **Crashes.** `NewBadgerStorage` turns `SyncWrites` off and nothing calls
  `Sync`: a crash takes acknowledged commits back, but whole ones.
- **Snapshots.** A store call reads one snapshot. A SPARQL query does not: every
  scan begins a transaction of its own (executor.go:429), a join one per row of
  its left side, while other callers commit.
- **Iterator state.** `hasMatch`, the current left row and the open right side
  survive from one `Next` to the next; `Close` may come at any time.
- **Order of operators.** The parser splits a group into elements and children,
  the optimizer moves children behind elements and reorders patterns in GRAPH;
  this may only happen where the answer stays the same.
- **Three-valued logic.** An error of an expression is not false.
- **Many ways to write one query.** Prefixes and bases, `;` and `,`, keywords and
  parentheses that may be left out: every function of the parser looks ahead, and
  what one takes too much another misses.
- **Recursive descent with side channels.** The functions of the Turtle parser
  return terms, but leave triples in `extraTriples` and a flag in
  `lastTermWasPropertyList` for callers further up. TriG cuts the text by
  scanning for points and braces and gives each piece to a Turtle parser of its own,
  with a counter that has to come back. The RDF/XML parser pushes its stacks at
  every start tag of one loop and pops them at the end tags that loop happens to
  see, while other loops take whole elements away from it.
- **Retries over a broken connection.** A write timeout may cut the answer of an
  upload that was committed, and a handler whose connection broke runs on beside
  the retry of its own request.
- **Terms as bytes.** A number is stored by its value and read back in another
  spelling; a join encodes what it has read and has to arrive at the same bytes.
- **Backtracking.** The comparison of graphs takes assignments back while the
  calls above it still rely on the same maps, and prunes branches early.

What has to be true of each part is listed with the runs below; the hazards,
each with its line, are in `PROJECT.json`.

## Modules

| Module | Models | Uses |
|---|---|---|
| `Quads` | encoded terms, quads, patterns, the dictionary, decodeTerm | |
| `Indexes` | the tables, the keys of a quad, selectIndex, buildScanPrefix, Quad() | `Quads` |
| `BadgerTxn` | the transactions of the storage wrapper | `Indexes` |
| `TripleStore` | the store: concurrent writers and readers, errors, conflicts, crashes | `BadgerTxn` |
| `QuadStore` | what the store promises: an atomic set of quads | `Quads`; `TripleStore` instantiates it |
| `IndexScan` | one query on one database, every pattern against every set of quads | `Indexes` |
| `TermEncoding` | the 17 bytes of a term: EncodeTerm, DecodeTerm, termSignature | |
| `TermLookup` | a term inserted, read back and looked up again | `TermEncoding` |
| `Server` | uploads: users who post again, handlers, broken connections, timeouts | `TripleStore` |
| `Expressions` | the evaluator, beside SPARQL's three-valued logic | `Quads` |
| `Algebra` | rows, plans, and what a plan means on a set of quads | `Expressions` |
| `Executor` | one query as a tree of iterators beside commits | `Algebra` |
| `Optimizer` | parser and optimizer of groups, beside what SPARQL says of a group | `Algebra` |
| `SPARQLParser` | the SPARQL parser over tokens | `Optimizer` |
| `BuiltIns` | functions and arithmetic of the evaluator, beside what SPARQL says of them | `SPARQLParser` |
| `SPARQLText` | how the grammar writes a query; which texts the parser refuses or cuts | `BuiltIns` |
| `Planning` | a query made item by item, written, read and planned | `SPARQLText` |
| `Engine` | parser, optimizer and executor in a row | `Executor`, `Optimizer` |
| `Isomorphism` | comparing two lists of triples or quads up to blank-node labels | |
| `RDFTerms`, `RDFGraph` | terms and triples of the parsers; graphs up to the names of unlabelled nodes | |
| `Turtle` | TurtleParser, for Turtle and strict N-Triples | `RDFTerms` |
| `TriG` | TriGParser, and an upload from text to quads in each format | `Turtle` |
| `NQuads` | NQuadsParser | `TriG` |
| `Reading` | reading an upload in any format; which texts are balanced, which free of shorthands | `NQuads` |
| `RDFDocument` | documents as their authors mean them: how they are written, what they stand for | `Reading`, `RDFGraph` |
| `RDFXML` | RDFXMLParser over the tokens of encoding/xml | `RDFTerms` |
| `RDFXMLDocument` | RDF/XML documents as their authors mean them | `RDFXML`, `RDFGraph` |
| `JSONLD` | JSONLDParser over the tree of encoding/json, beside the graph of a tree | |
| `MCTripleStore`, `MCIndexScan`, `MCPlanning`, `MCEngine`, `MCIsomorphism`, `MCRDFDocument`, `MCRDFXML`, `MCServer` | the instances TLC checks; `MCServer` puts `JSONLD` under `Server` | |
| `IndexLemmas`, `IndexScanProofs` | theorems: keys, scans | `IndexScan` |
| `TripleStoreProofs` | theorems: the store's invariants and steps, and its refinement of `QuadStore` | `TripleStore` |
| `TermLookupProofs` | theorems: the way of a term to bytes and back | `TermLookup` |
| `IsomorphismProofs` | theorems: the comparison of graphs | `Isomorphism` |
| `ReadingProofs` | theorems: brackets and shorthands of accepted texts, generated blank nodes | `Reading` |
| `RDFXMLProofs` | theorem: node identifiers | `RDFXML` |
| `ServerProofs` | theorems: uploads, the store under the server | `Server`, `TripleStoreProofs` |

Terms are model values. What the code reads off a term is given by constants:
its string and hash (`StrOf`, `Hash`), whether it can be encoded
(`Unencodable`: triple terms), whether decoding without a string fails
(`Quoted`) or guesses (`Guessed`), its boolean value, number, and place in
string order. The hash is taken to be injective. `Quoted` terms are a set of model
values: the components of a quoted triple are not looked into. How a text becomes
bytes and comes back is the subject of `TermEncoding` alone.

### How the store's model corresponds to the code

| Model | Code |
|---|---|
| `db`, `durable` | the Badger database in memory, and what a crash goes back to |
| `txn[c]`: `snap`, `puts`, `dels`, `strings`, `reads`, `missed` | `BadgerTransaction` and the badger.Txn inside it |
| `call[c]`, `ret[c]` | the call a caller is in, what its last call returned |
| `CallWrite`, `InsertStep`, `DeleteStep` | the loops of `InsertQuadsBatch`, `DeleteQuadsBatch` and their single and triple forms |
| `InsertError`, `DeleteError`, `Rollback` | an error of EncodeTerm or of a storage call, and the deferred Rollback |
| `CommitOk`, `CommitConflict` | `txn.Commit()` |
| `CallQuery`, `RejectQuery`, `NextQuad`, `CloseQuery` | `Query`, and the iterator's `Next`, `Quad`, `Close` |
| `Persist`, `Crash` | Badger's own writing to disk, the end of the process |

One step does one quad. What happens between the storage calls of one quad is
private to its transaction, so other callers see no difference; an error is let
in at any of these points (`Fault`).

### How the terms' model corresponds to the code

A text is a sequence of fragments such as `<<"1", ".", "5">>`; one fragment takes
one of the places of an inline string. `Encoded` is the type byte with either
characters (an inline string padded with NUL, or a hash) or a number of `Width`
bits. `Hash128` is the string behind a mark, so that no two strings collide and
no inline string is taken for a hash. What `strconv`, `fmt` and `time` make of a
text is given by tables (`IntOf`, `FloatText`, ...); which texts an encoder
takes, what it falls back to, where a string is split and how a number is
printed are definitions. `InsertTerm` is the part of `insertQuadInTxn` that
concerns one term, `ReadTerm` the decoding in `Quad()`; a join's lookup of what
was read is `EncodeTerm` in the properties.

### How the server's model corresponds to the code

`serving[h]` is a goroutine of net/http inside `handleDataUpload`: `check` is
before the method and the content type are looked at, `read` before the parser
returns, `insert` and `inserting` before and after `InsertQuadsBatch` is
entered. Handlers are the writers of `TripleStore`, so `Insert` is its
`CallWrite` and `StorageStep` its steps. `ParserOf` is the table of content types
in io.go; which format's parser runs is `Parse`, a set of outcomes. A user, who is
not part of the repository, posts a document and posts it again until it hears
of success. `Break` is the write timeout of server.go:49 or a user who is gone:
the user hears "broken" and may post again while the handler runs on.
`BodyTimeout` is the read timeout. A panic of a parser closes the connection.

A JSON-LD upload goes through `JSONLD`: `ParseObject` is
`parseObjectWithSubject`, and since Go's maps have no order, the parse of a tree
is the set of its results over all orders of the keys of all its objects.

### How the executor's model corresponds to the code

An iterator is a record with the plan's fields and those of the Go struct
(`hasMatch`, `leftDone`, `seen`, `position`, `count`, ...). `Step` is one
step towards the next row: it advances one scan by one quad or changes which
side is open, so a commit can come between any two. `Execute`, `Pull`,
`Describe` and `Finish` are the bodies of `executeSelect`, `executeAsk`,
`executeConstruct` and `executeDescribe`; `Commit` is any other caller of the
store, which by `Implements` changes the quads as a whole. `open` counts the
transactions of scans. The order in which a scan delivers quads, and the order
of a Go map (`bindingKey`), are nondeterministic.

### How the SPARQL parser's model corresponds to the code

The parser has no steps: what it does with a text is a function of the text. A
`Read...` operator is the `parse...` function of the same purpose; it takes the
tokens that are left and returns a value with the rest, or `Failure`. The loops of
the code over operators, items and list elements are recursions. The three loops
for `||`, `&&`, sums and products, which are alike, are one (`ReadOperands`) with
the signs of its level. `env` is the parser's prefixes and base. The code looks at
characters, and takes an IRI behind an expression for a comparison because it
begins with `<`; where this shows, the model looks at the kind of token
(`ReadComparison`).

| Model | Code |
|---|---|
| `ReadQuery`, with the prologue and the four forms | `Parse`, `skipPrefix`, `skipBase`, `parseSelect`, `parseAsk`, `parseConstruct`, `parseDescribe` |
| `ReadItems`, `ReadItem`, `ReadNested`, `ReadUnion`, `ReadGraph` | `parseGraphPattern`, `parseGraphGraphPattern` |
| `ReadTriples`, `ReadPropertyList`, `ReadTerm` | `parseTriplePatterns`, `parseTriplePattern`, `parseTermOrVariable` |
| `ReadExpr`, `ReadOperands`, `ReadComparison`, `ReadUnary`, `ReadPrimary`, `ReadCall` | the functions of the levels of precedence |
| `ParseGroup` (`Optimizer`) | the elements and children that `parseGraphPattern` makes of the items |

`SPARQLText` is written from the grammar and not from the parser. `QueryWords`
writes a query in a style: how IRIs are written, which variable mark, with or
without lists, optional full stops, words and parentheses that may be left out,
LIMIT or OFFSET first. `Refused` and `Cut` are the exceptions, in terms of the
query and the style, and `ReadsItsQuery` says that there are no others.

`BuiltIns` is the evaluator's part that depends on texts and numbers.
`EvaluateCall` is `evaluateFunctionCall` and the arithmetic operators;
`DefinedCall` is section 17.4 of SPARQL 1.1; `Conforms` is where the two agree, and
`ValueOrError` checks both directions of it. A byte of a text is a fragment, so
that there is a character of two bytes; numbers are counted in tenths.

### How the comparison's model corresponds to the code

A quad is the sequence of its simple terms, in subject, object and graph and
inside triple terms, and a shape that stands for the rest; `Rename` is
`tripleKey` with a mapping. The recursion of `backtrack` is the sequence `tried`:
one entry per call under way, which counts the candidates its loop has been
through, so the length of `tried` is `index + 1`. `Assign` is a round that calls
deeper, `Skip` one that does not, `Exhausted` and a `Verify` that says no return
false to the caller's round, which takes its assignment back. The order among
labels of one degree is nondeterministic, as `sort.Slice` does not fix it.

### How the parsers' model corresponds to the code

`parser` is the TurtleParser struct, with three additions: `triples`, the
result of `Parse` so far; `stack`, the Go calls under way; and `term`, what
`parseTerm` has just returned. A frame of the stack is a function (`in`), the
place in it (`at`) and its local variables. A step runs from one call of
`parseTerm`, one return from it, or one mark of punctuation to the next.

| Model | Code |
|---|---|
| `ParseVersion`, `ParsePrefix`, `ParseBase`, `BeginTripleBlock`, `ReturnTriples` | the loop of `Parse` |
| `TakeSubject` ... `NextInBlock`, the reifier actions; frames "block", "properties" | `parseTripleBlock` |
| `BeginAnnotation` ... `NextInAnnotation`; frame "annotation" | `parseAnnotation` |
| `ParseSimpleTerm` | `parseTerm` on a term of one token |
| frames "anonymous", "list", "quoted", "tripleterm" | `parseAnonymousBlankNode`, `parseCollection`, `parseQuotedTriple` |
| `upload` | the TriGParser struct; for Turtle and N-Triples the call of io.go |
| `ParseTriplesBlock`, `ClosingBraces`, `EnsureProperTermination` | `parseTriplesBlock` and the repair of its content |
| `StatementStops` | `findTripleBlockEnd` |
| `Delegate`, `ParseInside`, `TakeOver`, `PassError` | the TurtleParser made for a block or statement |

The text is a sequence of tokens. A decimal is three tokens, since TriG looks at
its point; an IRI is a namespace and a local name, since a prefix or a base
replaces the first. `Bare` are the relative IRIs that need no base: those with only a
fragment, and the very short ones (turtle.go:1041-1057). What stands where the name of
a prefix or an IRI is read is taken to the next colon or the next `>`: among the tokens,
those of `HasColon` have a colon in them, and IRIs and the closing `>>` and `)>>` a
`>`; the token "prefixname" is a name with nothing behind its colon, the IRI of a
directive ends where a local name would begin, and a namespace has a `://`. Comments
are no tokens. Blank nodes the parser makes have numbers for labels, those
of the author model values. `NQuads` has no steps, since the parser keeps only a
position: `TermsOf` is the term that begins at each token with the place behind
it, and the statements are chained from there.

`RDFXML` works on the tokens of `encoding/xml`, white space included. `xml` is the
RDFXMLParser struct and `calls` the loops under way inside `Parse`; a call holds
the function (`in`), the element that opened it and its locals.

| Model | Code |
|---|---|
| `OpenRoot`, `OpenContainer`, `OpenDescription`, `OpenTypedNode`, `CloseElement`, `Finish` | the loop of `Parse`, with its stacks |
| `ParseTypeProperty`, `ResourceProperty`, `NodeIDProperty`, `AttributeProperty`, `TextProperty`, `RefuseProperty` | the ways a property element can go |
| calls "text", "content", "nestedText", "description", "Resource", "Collection", "Literal", "Triple", "consume" | the nested loops that read to an end tag |
| `ResolveID`, `GetOrCreateNodeID`, `NewBlankNode` | the checks and counters of rdf:ID, rdf:nodeID and unnamed nodes |

`RDFDocument` has documents as trees, their text (`TextOf`) and their quads
(`Meaning`), written from the Turtle and TriG notation and not from the parser.
`Handled` says which documents the code reads that way; each of its conjuncts is
one of the divergences listed below, and outside it the code refuses the
document or reads something else.

## The runs

| Run | Question | Instance |
|---|---|---|
| `triple_store` | Do tables, graph list and dictionary stay consistent in every database somebody can see? Is the store an atomic set of quads with snapshot reads? | two writers with three batches of one or two quads in the default and a named graph, an unencodable term, two terms with one string; or a writer and a reader, with two batches and three patterns; errors before the first write of a quad and between two tables; crashes; symmetry of the two writers |
| `index_scan` | Does every pattern get matching quads only, once each, and all of the graph asked for or else of the default graph? Does a term that was read find what was inserted with its value, and does DISTINCT tell apart what the store does? | every pattern over four terms, on every subset of five quads that agree and differ in each position; every two of some fifty terms of all kinds, at the limits of the number width and the inline length |
| `index_scan_nil` | (violated) Does a pattern without a graph mean any graph? | the patterns and quads of `index_scan` |
| `server` | Does success mean stored? Does the store hold whole uploads only, whatever is retried? Is a sound document accepted in the end? Is a JSON-LD tree read as its graph in every order of its keys? | two users, three handlers, one trouble (a broken connection, a read timeout or a failing storage call); eight requests that are refused or fail; 416 JSON-LD trees |
| `exec` | Is the answer exact without commits, between the bounds with them; transactions closed; does the query return? Does the result mean the text, from parser to result? | 33 plans over every operator and form, three databases, up to two commits at any point; six clauses with every combination of ORDER BY, projection, OFFSET and LIMIT, with DISTINCT, in four forms |
| `exec_graph` | (violated) Does GRAPH constrain all scans below it? | one query |
| `plan` | Is a query read as it was written? Does the plan of a well-placed clause mean what the text means? Does SELECT * name every variable? Does the evaluator give SPARQL's value or fail? | all clauses of up to four items out of eleven, three databases; clauses of two items out of twenty-three in five styles; every form and combination of modifiers around three clauses; filters of up to three nested connectives, two variables unbound or bound to two booleans, two numbers or an IRI; every function and arithmetic operator on two variables unbound or bound to twenty-six terms |
| `plan_union` | (violated) Are the sides of UNION alternatives? | clauses of two items |
| `iso` | Does the comparison find a bijection exactly when there is one, and end? | every pair of graphs of three edges between three blank nodes, or with an IRI, triple terms, repeated edges, other sizes |
| `rdf_read` | Is a document read as the quads its author means? Does reading end? Are unbalanced texts, unless a directive or a graph name swallows a bracket, and in strict N-Triples shorthands refused? | documents with every kind of term in each place, every order of three of fourteen directives, statements and blocks, relative IRIs under two bases; scraps: all texts of one or two tokens, and texts of documents with one token left out; each as Turtle, strict N-Triples, TriG and N-Quads |
| `rdf_xml` | Is an RDF/XML document read as its triples? Is a legal one accepted? Do node identifiers stay apart? Does reading end? | descriptions with every pair of properties, every kind of node with each property, two nodes after one another; nested descriptions, containers, the parse types, bases, languages, versions; indented and not; with names and attributes that are not allowed; one node with each property also cut after each of its tokens (`Cuts`) |
| `rdf_xml_lang` | (violated) Does a literal take its language from the elements around it? | documents of two properties, the first with xml:lang |

The properties, by part:

- **Store.** `IndexAgreement`: the nine tables of every visible database hold one
  set of quads. `GraphsListed`: a graph with a quad is listed.
  `DictionaryComplete`: every term of a stored quad has its string in the same
  database. `NothingCollected`: only a crash takes strings or listed graphs away.
  `ConflictOnlyOverNewStrings`: only an insert is refused, and a retry can
  succeed. `Implements`: refinement of `QuadStore`. `StoreInv` is the
  invariant of the proofs: `IInv` about the database and the buffers, `CallInv` about
  how what a call has read, done and delivered fits its snapshot.
- **Scans.** `Matches` is a pattern as query.go:10-14 documents it, with nil for any
  graph. `ScanAnswersPattern`: what is delivered matches, and of what matches nothing
  is missing in the graph asked for, nor in the default graph where none is.
  `NilMeansAnyGraph` (violated): with nil nothing is missing in any graph.
  `ScanHasNoDuplicates`.
- **Terms.** `JoinFindsValue`: a term that was read back and is put into the next
  pattern finds what was inserted with the same value, and nothing else.
  `DistinctAgrees`: two terms that were read have one signature exactly if they
  have one encoding. `Faithful` and `Signed` name the terms that are left out, each
  a divergence listed below.
- **Server.** `OkMeansStored`: a user that heard of success finds its document in
  the store. `WholeUploads`: the store is a union of whole readings of documents.
  `UploadsSucceed`: a document in which nothing is wrong is accepted in the end,
  though a retry may lose a conflict against the insert it repeats.
  `ReadsItsTree`: what a handler inserts is the graph of the JSON-LD tree.
- **SPARQL parser.** `ReadsItsQuery`: a text is refused exactly if `Refused` says so,
  and read as the query it was written from unless `Cut` says so. `OnlyLeavesOut`:
  what is read otherwise is the query with parts missing.
- **Evaluator.** `ValueOrError`: what was written, read and evaluated has SPARQL's
  value or is an error; a function has another value only where `Conforms` says so,
  and there it does (SUBSTR may agree by chance).
- **Executor.** `AnswerWhenQuiet`, `AnswerBetween`, `AllClosed`, `QueryReturns`.
- **Optimizer.** `WellPlacedTextKeepsMeaning`, `StarShowsEveryVariable`; with the
  executor `ResultMeansText`, `SliceOfSortedRows`.
- **Parsers.** `MeansItsGraph`: a handled document is read as its quads, up to the
  names of unlabelled nodes. `HandledAccepted`: it is not refused.
  `AcceptedIsBalanced`: an accepted text is balanced, unless a directive or the name
  of a graph swallowed a bracket (`SwallowsNoBracket`).
  `StrictRefusesShorthand`, `ReadingEnds`: any text.
- **RDF/XML.** `MeansItsTriples`: a handled document is read as its triples.
  `AcceptsTheLegal`: a legal document is not refused. `NodeIDsApart`: two
  identifiers never share a label, and no label given out later is one of theirs.
  `LanguageFromAround` (violated). `ReadingEnds`.
- **Isomorphism.** `AnswerIsRight` (no repeated triples), `YesIsRight` (any
  lists), `Terminates`; `IInv` is the invariant of the proofs.

Every property has a mutant in `PROJECT.json`: a plausible bug of the mapped
definition that makes TLC refute it.

### Why the bounds are enough

- Conflicts, lost strings and overwritten tables need two transactions; a third
  would only repeat what two can do. Batches overlap in quads, in strings and in
  graphs; one of them fails in its second quad after its first is buffered.
- `SomeFaults` stand for all 23 fault points: a call that failed only rolls back, so
  what it has buffered does not matter. The theorem covers all of them.
- `scene` is the callers there are: two writers, or a writer and a reader
  (`SceneSpec`). The refinement is checked on both, so an insert and a delete that
  race are seen through it too. The reader's database can hold four quads, in both
  graphs, readable and not; of its patterns one names a graph, one does not and one is
  rejected. Which table a pattern selects is the subject of `index_scan`.
- With three quads, joins have zero, one and two matches per left row, and the
  two commits can remove and bring back what a half-finished join has seen.
- Four items reach every pair of operators twice around a third and a fourth
  that depend on them. Whether a text is read does not depend on what stands far
  from it: an item is refused for itself or for its neighbour, so two items meet
  every case in every style, and headings need only three clauses. `plan` sets
  CHECK_DEADLOCK FALSE since a text of four items is complete.
- The twenty-six terms have an IRI and a blank node, numbers of each type, whole and
  not, negative and zero and ill-formed, strings with and without language and type,
  empty, the wildcard, and with a character of two bytes.
- Three labels are the fewest with two levels to go back over. Every graph of
  three edges occurs, so every symmetry of three nodes does. `iso` sets
  CHECK_DEADLOCK FALSE since the comparison returns.
- Terms nest two deep, which meets every caller of `parseTerm` from inside every
  other kind of bracket; annotations nest two deep, reifiers come alone, after
  another and after an annotation, but with one annotation each. Numbers have a
  point or not; no string or name has one, and namespaces end where the local
  name begins. No document uses a label of the form `_:anonN`.
  Texts with a bracket in the name of a prefix or in an IRI of TriG are among the
  scraps, and accepted. `rdf_read` sets CHECK_DEADLOCK FALSE since reading returns.
- In `exec`, the plans run beside commits and the whole queries do not:
  `ResultMeansText` and `SliceOfSortedRows` speak of undisturbed queries.
- The encoding's limits are scaled down so that texts reach them: two fragments fit
  inline (`MaxInlineStringSize`, 16 bytes in the code), numbers have four bits
  (`Width`, 64), a second has two ticks (`TicksPerSecond`, 10^9). Two insertions
  (`MaxInserted`) are all that a comparison needs. The local zone is ahead of UTC
  (`WestOfGreenwich = FALSE`): behind it no date survives, see below.
  `index_scan` sets CHECK_DEADLOCK FALSE since a query that was answered and terms
  that were read leave nothing to do.
- In `server`, the third handler is for a retry beside the attempt that broke off
  and the other user's request. One trouble (`Trouble`) is what a second attempt
  survives or loses a conflict against; more troubles repeat that. The JSON-LD
  trees have up to two properties with every kind of value, nested nodes and
  arrays, contexts and pairs of documents. `server` sets CHECK_DEADLOCK FALSE since
  users stop when all are served.
- RDF/XML nodes nest two or three deep, which reaches each nested loop from the main
  loop and from another; a property may follow any other, which is where a stack
  that was not popped shows. `rdf_xml` sets CHECK_DEADLOCK FALSE since reading
  returns.

### Fairness

Each call runs in a goroutine of its own. Badger's transactions never wait for
one another, no code of the repository takes a lock, and a conflict is returned
instead of retried. So weak fairness of each goroutine's own steps (`Work` of a
query while it `CanWork`, `Handle(h)` of an upload) is what the Go scheduler
gives. No fairness is assumed of commits of others, crashes or broken connections.
The users of `server` do not give up (`PostAgain` is weakly fair): that is an
assumption about them, under which `UploadsSucceed` says what the code
contributes, and the troubles are bounded, since nothing can be promised to a
user whose connection always breaks. The comparison of `iso` and the reading of an
upload (`rdf_read`, `rdf_xml`, from a string in memory) are one goroutine each
that calls nothing that waits.

## What is proved

All theorems hold for every set of terms, callers, batches and fault points.

| Theorem | States |
|---|---|
| `TripleStoreProofs!Invariance` | `Spec => []IInv` |
| `TripleStoreProofs!IndexesAgree`, `GraphsAlwaysListed`, `DictionaryAlwaysComplete` | `IndexAgreement`, `GraphsListed`, `DictionaryComplete` are invariants |
| `TripleStoreProofs!CallInvariance`, `StoreInvariance` | `Spec => []CallInv`, `Spec => []StoreInv` |
| `TripleStoreProofs!NothingEverCollected`, `ConflictsExplained` | no step but a crash takes a string or a listed graph away; only an insert is refused, for a string that is new to it and committed since |
| `TripleStoreProofs!StoreImplements` | `Spec => Implements`: the store is an atomic set of quads with snapshot reads |
| `IndexScanProofs!ScanAlwaysAnswers`, `ScanNeverRepeats` | `ScanAnswersPattern`, `ScanHasNoDuplicates` are invariants |
| `IsomorphismProofs!SearchInvariance` | `Spec => []IInv` |
| `IsomorphismProofs!ComparisonIsRight`, `SearchYesIsRight` | `AnswerIsRight`, `YesIsRight` are invariants |
| `ReadingProofs!Invariance` | `ReadingSpec => []IInv`: a parser's open brackets are those of its calls, if nothing swallows one |
| `ReadingProofs!AcceptedAlwaysBalanced` | `AcceptedIsBalanced` is an invariant: an unbalanced text is accepted only if a directive or the name of a graph swallows a bracket |
| `ReadingProofs!StrictAlwaysRefuses` | `StrictRefusesShorthand` is an invariant, for any text at all |
| `ReadingProofs!MadeUpNodesAreNew` | `ReadingSpec => []NewNodesAreNew`: a generated blank node is none the document has yet, unless its author writes labels of that form |
| `RDFXMLProofs!NodeIDsStayApart` | `NodeIDsApart` is an invariant, for any document, legal or not |
| `ServerProofs!ServerInvariance` | `ServerSpec => []ServerInv` |
| `ServerProofs!SuccessMeansStored`, `OnlyWholeUploads`, `ServedIndexesAgree` | `OkMeansStored`, `WholeUploads`, `IndexAgreement` are invariants of the server |
| `ServerProofs!ServedStoreImplements` | `ServerSpec => Implements` |
| `TermLookupProofs!ReadAlone` | `LookupSpec => []LookupInv`: a term is read as if it were alone in the store |
| `TermLookupProofs!JoinLosesNoRow`, `DistinctMatchesStore` | `JoinFindsValue`, `DistinctAgrees` are invariants, for any terms, any inline length, any width of numbers and any conversions of the library |

`IndexAgreement` is not inductive: to know what a commit does to the tables one
has to know what the transaction has buffered, and for the strings it did not
write, that its snapshot still agrees with the database at commit. `IInv`
therefore says of every visible database that it is `Consistent` (tables agree,
graphs listed, strings known, strings under their own hash) and of every open
write transaction that it has buffered exactly the effect of the quads it has
done (`Adds`, `Removes`), that the dictionary of its snapshot is still part of
the committed one (`Extends`), and that a call which failed in the middle of a
quad is exempt: it can only roll back. The proof takes the actions one by one;
the step that matters, `CommitOk`, is the lemma that applying an aligned
transaction to a consistent database gives a consistent one, whether or not
other commits came in between.

`IInv` does not say why a commit is refused or what an answer is made of;
`CallInv` does. A writer has read every string it is about to write and found
it missing (`LookedUp`), `missed` is the strings committed since its snapshot, a
delete has read none, and what a query has delivered is the quads of the keys it has
seen. A conflict needs a key that was both read and committed since: the writer
is an insert and the key a new string, which is `ConflictOnlyOverNewStrings`.

The refinement takes the quads of the SPOG table for the abstract state. A step
inside a batch is a stutter, since it changes only a buffer (`QuadStepHidden`).
`CommitOk` is the abstract write of the whole batch, because by `IInv` the buffer
holds exactly its effect on SPOG (`CommitIsWriteOk`); a conflict, an error and a
rejected pattern are the abstract failures. A contains, count or query step
answers from the snapshot: SPOG has one key per quad (`SPOGKeys`), and in
`Consistent` tables the keys of the selected index with the pattern's prefix are those of
the matching quads (`AnswerOfScan`). Under the server the same step lemma
(`AbstractNext`) applies, since `StoreSteps` makes each of its steps a step of the
store.

`IndexLemmas` has the facts about keys: `KeyOf` is injective for each table, a
key taken apart gives the quad it was made of, and a quad matches a pattern
(and is in the default graph, if the pattern has no graph) if and only if its key in
the selected table starts with the pattern's prefix.

For the comparison of graphs the strengthening is `NothingMissed`: every
isomorphism agrees with the mapping up to some call under way, and the image it
gives to the label of that call is among the candidates this call has not tried.
A round that skips a candidate keeps this because an isomorphism through that
candidate would use a target twice or would map the quad that the pruning looks
up to a quad of the other list; `VerifyDecides` shows that a full mapping passes
the final check if and only if it is an isomorphism (sets of one size, one inside
the other); when the outermost call fails, none is left. The lists may have any
length, but the labels of one list are finitely many.

For Turtle, N-Triples, TriG and N-Quads the state says nothing of brackets: a text
is accepted when a parser gets to its end, and TriG finds the ends of its pieces
by counting and skipping. The strengthening (`InBrackets`) is that between two
steps of a TurtleParser the brackets open in its text, as `Nesting` has them, are
those its calls have opened, frame by frame of `stack` (`Brackets`); every action
moves over tokens that keep this (`Move`), and at the end of the text the stack is
empty, so nothing is open. Two functions move over tokens they do not look at: the
name of a prefix goes on to the next colon, and in TriG an IRI to the next `>`. The
hypothesis is that no bracket stands there (`SwallowsNoBracket`; for a piece of TriG
it carries over from the whole text, `PiecePlain`). It is needed:
`PREFIX [ e: <http://x/> .` and `GRAPH << <http://g> { }` are accepted. `IInv` carries it to the upload: TriG looks at its own
text only where nothing is open (`Clear`). It cuts a block where the count of braces
comes back to zero, and a statement at a full stop outside what it takes for an IRI
or an annotation; both ends are right if the piece turns out to be balanced, and
when it does not, its parser fails and with it the upload (`PassError`). The
repaired piece (`EnsureProperTermination`) is balanced only if the piece was. A closing
bracket that closes nothing is never closed itself, so in a balanced text what is
open before a place are opening brackets only, and the brace that ends a block
closes the one that began it. A term of N-Quads, quoted triples of any
depth included, leaves the nesting as it was. For the shorthands the strict parser
is followed by the same moves (`InStrict`): what it passes outside brackets is
none, except behind a `<<` that it never gets out of.

For generated labels (`_:anon1`, ...) the hypothesis is `OwnLabels`: no label of the
text has their form, which the code does not see to (docs/testing.html:268 promises
unique nodes all the same, see below). `NewNodesAreNew` says that there is a set with
all terms of the quads read, of the triples, calls and value of the parser under way
and of the name of its graph, and with the parts of each at any depth, in which no
label comes after the last number given out (`LastLabel`). So the next one is new.
The strengthening (`Counting`, `Counted`) gives that set: each step adds the terms it
makes, numbered up to the new counter. It needs to know of the calls that in the
state "reified" a reifier is held, that an anonymous node was made, that annotations
and their property lists stand on a statement or an annotation, and that a collection
without an item has one ahead. Between the parsers of TriG what counts is that a block's parser starts from at least the
upload's counter and that the upload takes the parser's counter over; a graph name `[]`
is counted before its block is read. A term of N-Quads is of its author's labels only.

`Nesting` and `TermsOf` are recursive functions on numbers. What holds of them at
every place is shown with a least counterexample: `Least` takes it from the
library's theorem that inclusion is well-founded on finite sets.

For RDF/XML the strengthening (`IInv`, `Sound`) is that the labels handed out so
far are those up to the counter, whichever loop or helper counted, and that the
map of identifiers is one-to-one into them. The helpers are operators on the
parser's record; each has a lemma that it keeps `Sound`, and the actions are
compositions of helpers.

The server's proof stands on the store's: a step of the server is a step of
`TripleStore` or leaves it alone (`StoreSteps`), so the store's `IInv` carries over, and from `IInv` follows that
of an insert's steps only the commit changes the stored quads, and adds exactly
the batch (`StorageEffect`). `ServerInv` adds what a
handler holds in each stage (`HandlerFits`). A committed batch is a whole reading;
the store under the server has no deletes and no crash, so a reading, once stored,
stays. The theorems hold for any parsers whose outcomes are those of
`ScenarioAssumption`.

For the terms the invariant `LookupInv` says that whatever was read is the `RoundTrip`
of a term that was inserted: what it is decoded to with its own string alone. A
step keeps it since a hash in an encoding finds one string only, and an inline string
never looks like a hash (`DecodedAlone`). The rest is about one and two terms. A
text is split at its last mark, whatever it contains before that
(`SplitAtLast`), so that a literal with a language or a datatype comes back as it was
(`LangDecoded`, `TypedRoundTrip`); an inline string comes back without its padding
(`InlineRoundTrip`); a value comes back as another text of the same number
(`ValueRoundTrip`, one case per datatype). So for faithful terms the encodings are
equal exactly if the values are (`EncodingsSayValues`), and what was read has the
encoding and the value of what was inserted (`ReadsTheSame`). A signature splits
at its first `@` and, without one, at its last `^^`: it determines the
term (`SignaturesApart`), and so does the encoding of a term that was read.

The assumptions are those of the modules. For the store: `Hash` is injective on
strings, the default graph is encodable, has no string and is not the nil of a
pattern, the two errors of decodeTerm are not terms, batches are not empty; blank
nodes are terms. For the bytes: terms have the shape that the constructors of term.go
give them (`RDFTermAssumption`), and the library reads back what it prints
(`IntAssumption`, `FloatAssumption`, `BoolAssumption`, `DayAssumption`,
`TickAssumption`): `%d` and ParseInt on 64 bits, `%g` and ParseFloat, whose shortest
form identifies a float64, the two layouts of time. A double as the code prints it is
not assumed to be read back (`+Inf.0` is not), nor is a second outside the 64
bits or the fraction of one. A time is printed in the local zone by RFC 3339, which
has minutes but no seconds in the offset: it is assumed that the zone is a whole
number of minutes from UTC.

For the texts: an upload is a finite sequence of tokens, and the end of the text is
not one of them (`TextAssumption`).

Only model-checked:

- Liveness (`QueryReturns`, `Terminates`, `ReadingEnds`, `UploadsSucceed`), which is
  beyond the prover.
- The executor, its plans and whole queries (`AnswerWhenQuiet`, `AnswerBetween`,
  `AllClosed`, `ResultMeansText`, `SliceOfSortedRows`), the optimizer and the query
  texts (`ReadsItsQuery`, `OnlyLeavesOut`, `ValueOrError`,
  `WellPlacedTextKeepsMeaning`, `StarShowsEveryVariable`), the meaning of documents
  (`MeansItsGraph`, `MeansItsTriples`, `AcceptsTheLegal`, `HandledAccepted`) and of
  JSON-LD trees (`ReadsItsTree`): trees of iterators, groups, expressions and
  documents are taken apart by RECURSIVE operators, of which the prover knows
  nothing. A recursive function on numbers has a least counterexample, as above; a
  tree would need its places numbered first.

## Where code and documentation disagree

Shown by a run:

- A pattern with a nil graph reads the default graph only (`index_scan_nil`):
  query.go:14 says nil means any graph, against 112. A pattern with a variable for
  the graph does the same.
- A FILTER inside GRAPH makes the scan read the default graph (`exec_graph`):
  executor.go:823 against 859.
- The two sides of a UNION are joined (`plan_union`): docs/testing.html:580
  against optimizer.go:424.
- A literal of RDF/XML takes its language from a property that ended before it
  (`rdf_xml_lang`): rdfxml.go:450 against 1138-1273.

Found while translating, visible in the definitions, without a run:

- A stored quoted triple cannot be read back, and the scan that meets it ends
  there (`DecodeTerm`, `NextQuad`): encoder.go:330 stores its string "for
  reconstruction", query.go:305 does not look it up.
- `SELECT DISTINCT ... LIMIT` can return too few rows (`Execute`): the rows are
  made distinct once more after LIMIT has cut them, executor.go:107, while
  docs/architecture.html:340 says "Limit applied last".
- Lists with repeated triples are compared by length first (`SameSizes`), then as
  sets, and without blank nodes in one direction only (`SimpleCompare`): [p, q]
  equals [p, p], and [p, p] differs from [p]; isomorphism.go:10.
- `?x || true` is an error when `?x` is unbound (`Evaluate`); operators.go:101
  says it is true.
- `NOT IN` skips a value that fails (`Evaluate`); evaluator.go:88 defines it by
  the disjunction.
- A filter passes only for the boolean literal true (`Passes`), not for other
  terms with a true boolean value; compare the comment at executor.go:706.
- MINUS with no variable in common removes every row (`MinusRow`);
  executor.go:1252 asks for common variables.
- FILTER and BIND before the first triple of a group are dropped (`FilterOn`,
  `BindOn`), and a filter is applied at its place in the text;
  docs/architecture.html:216.
- BIND inside GRAPH is lost (`AddItem`); ast.go:64.
- An OPTIONAL that opens a group without triples is mandatory (`Attach`);
  docs/testing.html:579.
- Patterns of an ordinary group are joined in the order of the text
  (`PlanElements`); docs/architecture.html:206.
- Equality of numbers compares terms, not values (`Compare`).
- A query reads one snapshot per scan, not one per query (`OpenIter`);
  docs/architecture.html:345-349.

The SPARQL parser; `Refused` and `Cut` have what queries of the grammar meet of it:

- LIMIT or OFFSET behind ORDER BY is taken for the end of the ORDER BY and lost, so
  that `ORDER BY ?name LIMIT 10` gives every row (`ReadOrderConditions`);
  parser.go:1303, against the example at docs/http-endpoint.html:200-207.
  `ORDER BY DESC(?x)` is lost with all that follows; docs/testing.html:574.
- LIMIT behind OFFSET, modifiers behind ASK, CONSTRUCT and DESCRIBE, and any text
  behind the query are ignored.
- Columns such as `(?x + 1 AS ?y)` are read over; GROUP BY with an expression stops
  the modifiers. GROUP BY and HAVING are never executed.
- DESCRIBE takes IRIs in angle brackets only, and ends silently at a variable or a
  prefixed name, with its clause.
- Refused: a full stop behind a nested group, a comparison as a value of IN, GRAPH
  with a prefixed name or `$g`, an IRI behind a FILTER that ends in a call,
  CONSTRUCT with a template and without the word WHERE.
- Not among the texts of the runs: a chain of three UNIONs is refused; BASE is not
  resolved against an earlier BASE, and a relative IRI is appended to the base;
  `GRAPH ?g` reads the default graph and binds nothing; a blank node is a constant;
  `FILTER NOT EXISTS {...}` keeps every row and `FILTER (EXISTS {...})` drops every
  row.

The functions, each met by a case of `Conforms`:

- UCASE, LCASE, SUBSTR and CONCAT lose the language; string functions accept IRIs and
  literals of other types, and texts in two languages; LANG of an IRI is `""`;
  DATATYPE of a text with a language is xsd:string.
- STRLEN and SUBSTR count bytes. SUBSTR moves a start before the text instead of
  shortening the slice, and panics on a negative length (functions.go:291).
- Arithmetic on decimals, floats and xsd:long gives xsd:double, and integer division
  may give an integer; CEIL, FLOOR and ROUND always give integers; halves are rounded
  away from zero. Types derived from integer, but for int and long, are no numbers.

The parsers of RDF, each met by a conjunct of `Handled` or by a scrap:

- A quoted triple inside a collection, a property list, another quoted triple or
  the annotation of a reifier is not reified (`TakeItem`, `TakeValue`,
  `TakeQuotedPart`, `TakeReifierProperty`), and one after an earlier property
  of its list is refused because that property waits in `extraTriples`
  (`TakeQuotedSubject`); turtle.go:2071, docs/testing.html:312.
- A reifier or annotation inside `[...]`, or behind an object of a reifier's
  annotation, is refused (`NextInAnonymous`, `NextInAnnotation`);
  docs/testing.html:314-316.
- `<< s p o ~ id >> .` is refused as a statement (`TakeSubject`); turtle.go:372.
- rdf:type is refused as a subject or object however it is written
  (`TakeSubject`, `TakeObject`); the check at turtle.go:363 is meant for `a`.
- The name of a prefix is whatever comes before the next colon: `PREFIX [ e: <...>`
  is accepted, in TriG too, and its bracket never closed (`ParsePrefix`,
  `ParseTriGPrefix`); turtle.go:248, trig.go:845.
- `([:p :o]) .` is accepted, since the flag of the inner list is still set
  (`TakeSubject`); turtle.go:372.
- The strict N-Triples parser accepts `[...]`, `(...)` and, inside brackets, `,`
  and `;` (`StrictRefusesShorthand` says where it is strict);
  docs/testing.html:295. An N-Triples upload is read as Turtle (`ReadWhole`);
  io.go:59.
- TriG: a block of several statements without a last full stop is refused, and so
  is one without it that has a point in a number (`EnsureProperTermination`);
  trig.go:403.
- TriG: a statement outside a block is cut at the point of a number, and at the
  first `|}` of nested annotations (`StatementStops`); trig.go:486-510.
- TriG: the IRI of a directive or of a graph's name is whatever comes before the next
  `>`, a `<` included: `GRAPH << <http://g> { }` is accepted (`TriGIRI`), where Turtle
  refuses a `<` (turtle.go:1018); trig.go:588.
- TriG: VERSION is read only together with the statement behind it; a prefix
  behind VERSION is lost with the parser that read it (`TakeOver`), a block
  behind it is refused.
- TriG: a directive inside a block is refused in first place only, and a prefixed
  name whose prefix begins with `base` or `prefix` is refused there
  (`ParseTriplesBlock` models the first); trig.go:277. Any term may name a graph
  (`NamedBlockAhead`), literals too.
- Generated labels are `_:anon1`, `_:anon2`, ...: an author's `_:anon1`, or a
  second upload, means the same node; docs/testing.html:268 promises "unique blank
  node IDs".

N-Quads, met by scraps: literals and blank nodes are accepted as subject and
predicate, and a triple term as graph name; a statement that is cut off makes the
parser read behind the end and panic (nquads.go:255), which net/http turns into a
closed connection.

RDF/XML, each met by a conjunct of `Handled`:

- xml:base leaks to later siblings as xml:lang does; an xmlns: declaration below the
  root counts as a property attribute; `base` and `lang` of any namespace are
  taken for those of xml (`GetAny`).
- xml:lang is not inherited inside typed nodes, containers and
  parseType="Resource"; on text, nodeID and nested elements inside a nested
  description (`NestedProperty`) language, datatype and annotations are ignored.
- Property attributes are ignored on typed nodes and have no language elsewhere;
  rdf:resource="" counts as absent (`Given`).
- A typed node inside a property is skipped, and its properties with it
  (`PropertyContent`); a typed item of a Collection becomes the IRI of its type, and its
  content is skipped only to the first end tag.
- parseType="Triple" takes a fixed number of tokens, so that white space changes
  what is read; a comment, which is no token of the model, does so too, though
  rdfxml.go:1636 speaks of skipping it.
- rdf:li inside parseType="Resource" is not numbered; names and attributes of inner
  properties are not validated.
- rdfxml.go:23 says that Collection is not supported yet; it is.

JSON-LD, each met by a conjunct of `Handled` in `JSONLD`:

- The context of one item of an array stays for the next (jsonld.go:68).
- @type of a node is skipped (jsonld.go:107), though jsonld.go:13 lists it.
- Properties of a nested object with @id are dropped (jsonld.go:170), and so are
  numbers, booleans, null and arrays inside arrays (jsonld.go:138); outside arrays
  these become plain literals.
- A term defined by itself recurses without end (jsonld.go:231).
- Labels `b1`, `b2`, ... are given in the order of a Go map: the same document
  posted twice may add a second reading beside the first, and two documents share
  labels.

Terms, each met by `Faithful` or `Signed`:

- An inline string is cut at its first NUL when it is read (encoder.go:142,
  decoder.go:49).
- Blank-node labels 7 and 07 are one node (encoder.go:80).
- `"x"^^xsd:string` and `"x"` are two terms; T, F, t, f and 0 and 1 in other
  spellings of `strconv.ParseBool` count as booleans.
- An infinite or NaN double is read back as `+Inf.0` or `NaN.0` (term.go:357), which
  is no number any more, so a join on it finds nothing.
- A time loses its fraction when it is read, and one outside 1678-2262 wraps
  (encoder.go:285): joins on either find nothing, or another time.
- A date is read back a day early where the local zone is behind UTC
  (decoder.go:119).
- An integer beyond 64 bits keeps its spelling; a decimal is printed as `1e+06`,
  which is not a decimal's spelling but is encoded again to the same number.
- A signature leaves out the direction and glues value, language and datatype
  together (executor.go:171).

The server counts the quads once at start (server.go:26); the optimizer's
statistics are never refreshed, which affects the choice of plans only.

## What is not modelled

- Characters: escapes, the syntax of names, numbers and language tags, dot segments
  of relative IRIs, how characters make SPARQL's tokens. Texts are sequences of tokens
  or fragments.
- Collisions of the 128-bit hash, and the components of quoted triples.
- REGEX, which hands its arguments to a library, and the casts of
  functions.go:672-700, which no text reaches since the parser takes
  `xsd:integer(?x)` for a term. The inside of an EXISTS, which the evaluator does
  not look into. Infinities, NaN and rounding of float64.
- The end key of a scan and Sync, which no caller uses; Badger itself.
- Result formats, canonical N-Quads, the welcome page, the negotiation of a result
  format: formatting without state.
- The command line and the test runner: callers of what is modelled.

## Plan

1. Store: `Quads`, `Indexes`, `BadgerTxn`, `TripleStore`, `QuadStore`,
   `IndexScan`, and their theorems. *Done.*
2. Evaluator, executor, optimizer and their composition. *Done.*
3. `Isomorphism`: the backtracking search against the definition of an
   isomorphism, with its theorems. *Done.*
4. `Turtle`, `TriG`, `NQuads`, `RDFDocument`: the parsers against documents. *Done.*
5. `RDFXML`, `RDFXMLDocument`, with the theorem on node identifiers. *Done.*
6. `JSONLD`, `Server`, with the theorems on uploads. *Done.*
7. `TermEncoding`, `TermLookup`. *Done.*
8. `SPARQLParser`, `SPARQLText`, `BuiltIns`: from query text to plan. *Done.*
9. Theorems on the store's steps, its refinement of `QuadStore`, alone and under
   the server, and on the bytes of terms. *Done.*
10. Theorems on the brackets and shorthands of accepted texts. *Done.*
11. The theorem that generated labels stay apart, within a parser and across the
   blocks of TriG. *Done.*
