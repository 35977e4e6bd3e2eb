# A TLA+ verification project for Atenex Nova

This directory specifies the concurrent core of Atenex Nova in TLA+, model-checks it with TLC on
small instances and proves its main safety properties with TLAPS for every instance. Paths below
are relative to `src/backend/atenex_nova/` of the repository unless they start with `docs/`.

Contents: [1 The system](#1-the-system) - [2 Inventory](#2-inventory) -
[3 Modules](#3-modules-and-how-they-are-composed) - [4 JobQueue](#4-jobqueue-and-worklease) -
[5 DocumentPipeline, Chunking](#5-documentpipeline-and-chunking) -
[6 CollectionMemory, PublishedSearch](#6-collectionmemory-and-publishedsearch) -
[7 Answering](#7-hybridsearch-contextpacking-answerchecks-and-answering) -
[8 ImportSession](#8-importsession) - [9 ChatPage](#9-chatpage) - [10 RepoIndex](#10-repoindex) -
[11 CodeGraph](#11-codegraph) - [12 RepoSearch](#12-reporanking-and-reposearch) - [13 Runs](#13-runs) -
[14 Proofs](#14-proofs) - [15 Disagreements](#15-where-the-code-and-its-documentation-disagree) -
[16 Not modelled](#16-what-is-not-modelled)

## 1 The system

Atenex Nova is two programs in one package.

**The document RAG backend.** A FastAPI application registers documents in a relational database
(SQLite or PostgreSQL) and answers queries; worker processes poll the `jobs` table and run one
handler at a time each. An upload is turned, job by job, into nodes, chunks, vectors,
propositions, summaries, graph edges and page images. Vectors live in Qdrant, which takes part in
no database transaction. A document becomes searchable when a readiness barrier has found every
layer complete.

**The repository context index** (`repo_context/`). A command-line program indexes a Git working
tree into *generations* kept in a SQLite sidecar, projects the chunks of the active generation
into a Qdrant collection, and answers read-only queries (CLI or MCP server) about exactly one
generation per answer.

**The web frontend** (`src/frontend/`) uploads batches of files and asks questions in chats. It holds
state of its own across awaits and callbacks, and is modelled where that state meets the backend's.

## 2 Inventory

| component | state | operations | interacts with | hard behaviour | what makes it correct |
|---|---|---|---|---|---|
| job queue and runner (`sql_job_repo.py`, `job.py`, `runner.py`, `workers/main.py`, `sqlite_lock.py`) | `jobs` table; per worker: position in the loop | insert, delete PENDING, claim, stale scan and requeue, succeed, fail; take the worker lock | requests (insert and delete rows), handlers | two workers polling, crash between work and report, failing commits, handlers slower than the stale cutoff | one executor, no success without work, retry budget, final outcomes, oldest first, every job settles |
| ingestion handlers (`ingestion_job.py`, `mem_builder_job.py`) | document status, nodes, chunks, Qdrant points | PARSE, NORMALIZE, SEGMENT, EMBED | queue, Qdrant | reads long before writes; Qdrant not rolled back; repeated execution | statuses follow the table; a stage is queued once |
| enrichment handlers (`memory_enrichment_job.py`, `visual_index_job.py`) | propositions, summaries, edges, pages | EXTRACT, EMBED_PROPOSITIONS, GENERATE_SUMMARIES, EMBED_SUMMARIES, BUILD_GRAPH, INDEX_VISUAL_PAGES | queue (fan-out, `ensure_pending`), Qdrant | several layers finish in any order; leftovers of an older generation | READY means complete; nothing complete is forgotten |
| readiness, repair, resume (`document_readiness_service.py`) | none of its own | evaluate, apply_barrier, enqueue_repairs | documents, jobs, artifacts | evaluation long before the write; repair in the middle of an ingestion | the same, and a waiting document has a job |
| rebuild (`rebuild_service.py`, `mem_builder_job.py`) | none of its own | request; delete vectors, reset all documents, queue PARSE | all of the above | running work of the old generation; failure after the deletions | starts clean; nothing published without vectors |
| registration (`document_service.py`) | documents | register | queue | races with handlers of the same document | every document arrives at READY or FAILED |
| chunking (`token_budget_policy.py`, `build_document_chunks`) | none | split a text, join segments | SEGMENT | doubling, bisection, overlap, breaks | nothing lost, within the budget, always advancing |
| publication policy (`collection_publication_policy.py`) | none | evaluate | documents, jobs | evaluated once, used for several reads | published means searchable |
| collection memory (`collection_memory_service.py`, two handlers of `memory_enrichment_job.py`) | one summary, its code and its point | BUILD_/EMBED_COLLECTION_MEMORY, invalidation | queue, `merge_pending_payload`, ingestion | payload merged into a PENDING job only; sources change meanwhile | made of published documents, embedded as it is written |
| deletion (`collection_cleanup_service.py`) | - | delete a collection | everything | handlers still running | nothing of it changes once they have ended |
| import sessions (`import_session_service.py`, `corpus_import_policy.py`) | session and item rows, counters | create, upload an item, import a folder, finalize | registration, the page's queue | concurrent uploads, read-modify-write of counters, two ways to finalize | counters fit the items; every queued file is sent; the session is closed |
| retrieval (`retrieval_orchestrator.py`, `multi_query_retrieval_policy.py`, `qdrant_adapter.py`) | availability of Qdrant per request | check, search layers with variants, validate | Qdrant, SQL | several reads of a changing corpus; Qdrant fails in the middle | only published evidence; degraded, not empty |
| context packing (`context_packing_policy.py`) | none | order, deduplicate, select within limits | retrieval, answers | many limits at once | budgets are kept |
| answers and citations (`answer_orchestrator.py`, `answer_planning_policy.py`, `answer_service.py`) | the draft, its citations, its verification | plan, map, write, verify, repair, store | language model | every call may fail or flatter | text, citations and verdict belong to each other |
| chats and the chat page (`chats.py`, `queries.py`, `Pages.tsx`) | chats, messages; thread, submission | ask, poll, open, delete | answers | responses lost while the backend goes on; late callbacks | a pending turn while somebody waits; the answer to the question |
| repo context: generations (`indexing.py`, `sqlite_index.py`, `writer_lock.py`, `composition.py`) | generations, active id, lock file | scan, build, validate, activate, prune; read | working tree, readers | tree edited during the build, crash at any point, pruning under a reader | one generation per answer |
| repo context: semantic projection (`semantic.py`, `qdrant_index.py`) | Qdrant collections and manifests | upsert, finalize, ready, search | generations | not in the SQLite transaction | READY means all chunks projected |
| repo context: code graph (`indexing.py`, `parsers/common.py`, `sqlite_index.py`, `services.py`) | symbols and edges of a generation | extract, reuse, resolve; trace, analyse impact | generations | reuse after other files changed; limits on symbols and depth | edges end in symbols; an uncut answer is exact |
| repo context: queries, ranking, map (`services.py`, `repomap.py`, `fusion.py`) | per-process edge cache | search, symbol, tests, overview, verify, compact | all of the above | a generation replaced, or a file edited, while a query runs; token budgets | the answer is about the generation it names; the best is kept |
| grammars, adapters, quantization, evaluation, audit, DTOs, CLI | - | conversions, I/O, wiring | - | - | out of scope (section 16) |

The hazards of these components, each at its line and with the properties that cover it, are
listed in `PROJECT.json`.

## 3 Modules and how they are composed

| module | extends | what it is |
|---|---|---|
| `WorkLease` | | what a user of the queue relies on (abstract) |
| `JobQueue` | | the `jobs` table, the worker loop, requests that insert and delete |
| `DocumentPipeline` | `JobQueue` | documents and the twelve per-document handlers |
| `Chunking` | | how SEGMENT makes chunks |
| `CollectionMemory` | `JobQueue` | the collection's summary, its two handlers, deletion |
| `PublishedSearch` | `CollectionMemory` | the publication check and the validation of hits |
| `HybridSearch` | | variants, layers and backends of one question, failures of Qdrant |
| `ContextPacking`, `AnswerChecks` | `Lists`, the one the other | the evidence pack; plan, groups, citations, verification |
| `Answering` | `HybridSearch`, `AnswerChecks` | one question from the search to the stored answer |
| `Lists`, `Ordering` | the one by the other | filters and sums of lists; the elements of a set in an order |
| `ImportSession` | `Lists` | upload queue of the page, upload requests, folder import |
| `ChatPage` | `Lists` | the chat page and the part of the API it talks to |
| `RepoIndex` | | index runs, generations, Qdrant projection, readers |
| `CodeGraph` | `Ordering` | symbols and edges of a generation, traversals |
| `RepoRanking`, `RepoSearch` | `Ordering`, the one the other | ranking and budgets; a query beside edits and publications |

A module whose name ends with `Proofs` holds theorems (section 14). A module whose name begins with `MC` gives constants their values. Some runs hold several independent
questions: `MCDocuments`, `MCPages`, `MCRequests` and `MCRepoAnswers` choose one of them in the initial
state (`story`, `plan`, `side`, `view`) and leave the variables of the others alone. Their state spaces are the
sums of their parts, and a property of one part is checked in the run that holds it.

Order of the work: the queue, the pipeline on top of it, the repository index, each with its proofs;
then import sessions (with proofs), the collection's memory and searches of it, the answer, the chat page,
the code graph, ranking and budgets, chunking. What is left is in section 16.

## 4 JobQueue and WorkLease

`JobQueue.tla` models the `jobs` table, the transactions of `JobRunner.run`, and the requests that
insert or delete rows; handlers are abstract (they commit some deletions and insertions, or raise).

| variable | code |
|---|---|
| `jobs` | the table; a job is its position in the sequence, which is its creation order. A deleted row keeps its place with status `"deleted"`, because ids are never reused |
| `overdue` | RUNNING rows with `started_at` older than the cutoff of `requeue_stale_running` |
| `pc`, `cur` | where a worker stands in the loop of `runner.py` and the id it holds |
| `stale` | ids a worker has selected as stale and not yet updated |
| `faults` | bound on crashes, failed bookkeeping commits and overlong handlers |
| `committed`, `requeued` | history: jobs whose work was committed, jobs put back as stale |

Each database transaction is one action, and so is each read a later transaction relies on:
`ScanStale`/`RequeueStale` (SELECT, then UPDATE by id with no second look at the status),
`Pick`/`Claim`/`ClaimLost` (oldest PENDING id, then the conditional UPDATE), `CommitWork` or
`RaiseError` (the handler), `Succeed` or `Fail` (a transaction of their own), and the two
commits that may fail, `SucceedNotCommitted` and `FailNotCommitted`. `Crash` may fall between any
two. `Exclusive` is the SQLite deployment, where `workers/main.py` takes a file lock.

`WorkLease.tla` is what a user of the queue may rely on: an item is leased to one holder, comes
back when the lease is lost, and is done or buried after its attempts. `JobQueue` on a
single-worker backend implements it; a RUNNING row without an executor is a lost lease.

Properties: `SuccessNeedsWork`, `OneExecutor`, `SharedOnlyIfRequeued`, `RetryBudget`,
`OutcomeIsFinal`, `EveryJobSettles`, `ImplementsWorkLease`. Two of them are weaker
on PostgreSQL by necessity: a job requeued as stale while its first execution is alive has two
executors, and both report; `Fenced` names the jobs for which the budget is promised.

Fairness (`FairSpec`): processes are restarted by their supervisor (`Start`), the loop polls
(`Loop`), handlers return (`Handler`), and the clock moves (`Expire` only for rows nobody is
working on). Nothing is assumed of requests or faults.

## 5 DocumentPipeline and Chunking

`DocumentPipeline.tla` extends `JobQueue`: its actions are the queue's actions with the handlers'
effects added. The composition is proved (`PipelineRefinesQueue`), so the queue's theorems hold in
the pipeline.

| variable | code |
|---|---|
| `doc[d].status` | `documents.status` |
| `doc[d].rows` | nodes, chunks, propositions, sections, document summary, edges, pages; each row stands for the *batch* written by one handler, with the batches it was derived from and whether it is embedded |
| `doc[d].points` | the chunk batches that have vectors in Qdrant |
| `doc[d].missed` | history: the batches whose own upsert an optional Qdrant swallowed |
| `doc[d].made` | numbering of batches, so that generations can be told apart |
| `payload` | `target_ids` of EMBED_SUMMARIES jobs |
| `seen` | what the handler on a worker has read and whether it has called Qdrant |
| `errors`, `requests` | bounds |

A handler is up to three steps: `Begin` (reads), `UseQdrant` (effects that survive a rollback),
and one commit (`Parse`, ..., `Rebuild`, or `Skip`), or a failure (`Refuse`, `ParseRefused`,
`Abort`). Requests and crashes may fall between the steps. PARSE is the one handler that commits in
its `except` branch. `UseQdrant` is `CallQdrant`, or `MissQdrant` when Qdrant is optional (`QdrantRequired = FALSE`, the
default of the settings): then `QdrantAdapter` logs a failing call, returns, and the handler commits as if it had worked; a
required one raises (`Abort`). `Textless` are documents whose nodes are all metadata or blank: SEGMENT makes no chunk of
them (`HasText`), and EMBED then ends without a status or a follow-up (`Skip`). Requests are `Register`, `Resume` (`enqueue_repairs`, whole) and
`RequestRebuild`.

Abstractions, and why they are harmless for the properties stated: every external call of a
handler is one point of failure, placed before its commit; a batch of rows is one row, since no
property distinguishes its members (repeated executions that duplicate edges or pages are
therefore not seen); the chunk namespace stands for the Qdrant namespaces, which are deleted and
filled at the same places; candidate-index codes are written in the same transaction as the rows
they belong to; `resume` takes one document at a time, where the request loops over the documents of the
collection in one transaction: the model lets other steps come in between, which the code does not; on SQLite a request cannot commit between a
handler's Qdrant call and its commit once the handler has written, while the model lets it, as
PostgreSQL does.

Properties:

- `ReadyIsComplete`: READY means every layer present, embedded and derived from the chunks the
  document has now.
- `NothingIsForgotten`: when a document has no active job and its layers are complete, it is
  READY: the last layer to finish always leads to a CHECK. It is not checked under crashes: a
  visual job repeated after a lost report can fail for good on a document that is complete, which
  leaves it INDEXED until a resume. `PairIsNotForgotten` is the same for two documents.
- `OnePendingPerStage`: no stage is queued twice, although four of the successors are inserted
  without a look at the queue; `QueueFitsStatus` adds `RegisteredIsQueued`.
- `RegisteredIsQueued`, `EveryDocumentArrives` (`RebuildsArrive`): a registered document is never
  stranded: it ends READY or FAILED, or, when it has no text, SEGMENTED without a job (`Stranded`; section 15).
- `RebuildStartsClean`: after a rebuild each document has one live job, its PARSE.
- `PublishedIsSearchable`: what the publication policy exposes has its vectors, all of them when Qdrant is required;
  otherwise all but the batches whose own upsert was swallowed (`Swallowed`), which no later stage looks for (section 15).
- `FaultsFollowTable`: the *stored* status follows `VALID_TRANSITIONS`; the entity validates only
  the status it has read.

Fairness (`FairPipelineSpec`): workers poll and handlers return, and the clock moves. Failing
calls are bounded by `MaxErrors`, so that the retry budget is not the only way out.

`Chunking.tla` looks into SEGMENT: `split_text` and `build_document_chunks`, one segment or node per
step. `tree` are the document's nodes, `segments` the segments of the node at hand, `parts` the chunk
being made, `chunks` those made. A text is a sequence of letters, spaces, stops and line ends. The loops of the code, the
doubling of the step (`LongestStep`) and the bisection (`Bisect`, for the end of a segment and for its overlap), are recursive
functions of the number of turns; the turns of a bisection are bounded by the places it has. `ChunksAreSound` says that segments
advance, are as long as the budget or a break allows and overlap by no more than configured (`SegmentsAdvance`), that chunks are
within the budget and are closed only for a part that does not fit or for a heading (`ChunksAreBounded`), and that every place of
every node that is neither metadata nor blank is in a chunk (`NothingIsLost`). The estimator is `DefaultTokenEstimator`, which is
what SEGMENT constructs; its four characters per token are used in the runs too, since they matter in two places:

- A text shorter than a token counts as a token when it is weighed alone, as `should_split` does, and as nothing when it is
  weighed with others: a chunk can be closed for a part with which it would just have filled the budget (`ClosedFor`).
- The settings allow any overlap below the maximum (`settings.py:232`). A break may leave 60 % of a segment; when the overlap
  may be more than that, a segment can end where the one before it ended, or sooner. `SegmentsAdvance` says when it cannot,
  which includes the default of 80 in 800 tokens.

## 6 CollectionMemory and PublishedSearch

`CollectionMemory.tla` extends `JobQueue` with the two handlers of the collection's memory. The
ingestion of a document, which `DocumentPipeline` has in full, is one job `ingest` here and its
barrier one job `check`; a text is the set of document generations it was made from.

| variable | code |
|---|---|
| `coll`, `doc` | the collection's row; of each document its status, the generation of its rows and the generations that have points |
| `memory`, `point` | the one summary row with its `embedded` flag and the code made of it; the text of its point in Qdrant |
| `unsent` | history: an optional Qdrant lost the last upsert of that point |
| `payload` | of EMBED jobs: `delete_only`, and whether it names an obsolete summary |
| `seen` | what a handler has read: found, sources, payload, the text to embed |
| `leaving` | a deletion has executed its statements and not committed |
| `todo` | the rest of the plan: uploads, rebuilds, memory requests, a deletion, searches, a crash, an error, each at any time after the one before it |
| `swallowed`, `published` | history: a request met a RUNNING job; document generations that were ever READY |

`Begin` reads; `CallQdrant`, `ClearPoint` and `UpsertPoint` act on Qdrant at once, or, when Qdrant is optional, not at all (`AfterCall`); `BuildMemory`,
`EmbedMemory`, `Ingest`, `Check` and `Rebuild` are the commits. `RequestEmbedding` is `ensure_pending` with
`merge_pending_payload`. `IngestRefused` is the PARSE executed twice. `StartDeletion`/`CommitDeletion` are
`delete_collection`, whose locks hold up other commits in between.

- `MemoryIsSound`: the memory is made of generations that were published (`MemoryOfPublished`); when
  the queue is quiet its code and its point are of its present text (`MemoryIsEmbedded`). The second part excepts a
  request that met a RUNNING EMBED job and a job requeued as stale: with either it is false (section 15). The point alone may
  be missing or old after an optional Qdrant has lost its last upsert, since `mark_embedded` is committed all the same.
- `DeletedIsInert`: after the deletion of a collection, once the handlers that had begun before it have ended,
  nothing of it changes again.

`PublishedSearch.tla` adds searches: `ListDocuments`, `CheckPublication`
(`CollectionPublicationPolicy.evaluate`), `Retrieve` (Qdrant's points of any generation, or the rows in SQL),
`ValidateChunks` and `ValidateSummaries`, each a statement that reads the database as it is then, as PostgreSQL
does. `EvidenceIsSound`: chunks, and the generations behind the collection summary that is cited, have all been
published, whatever rebuilds, ingestions and deletions do in between. The summaries of *documents* are validated
against the list of READY documents read at the start, and are not part of it: they can be of a generation that was never
published (section 15).

## 7 HybridSearch, ContextPacking, AnswerChecks and Answering

`HybridSearch.tla` is the candidate search call by call. Layers (chunk, proposition, summary) are searched
one after the other, each with the variants of the question, each variant with the codes kept in SQL, Qdrant's
dense and sparse vectors, and SQL's rows when Qdrant does not answer. `available` is the request's own adapter: it
is lost at the first failing call and does not come back. `setting` is what the request finds (mode, where dense
vectors live, which layers have matching rows and points), `reads` what was scanned in SQL. Scores and the order of
the fusion are data. `QdrantFailureIsContained`: SQL is scanned with the original question only
(`ScansAreOriginal`); a layer with matching rows gives hits although Qdrant fails (`DegradedNotEmpty`); the
variants named as executed were executed in every layer, and the others are accounted for (`ExecutedEverywhere`).

`ContextPacking.tla` is the policy that chooses the evidence: order, deduplication, one citable item of
each document first, then the best chunk, then what fits the limits of a mode. `AnswerChecks.tla` holds the
functions around the language model: the plan, synthesis groups, citations of a draft's markers, local
verification and its caps, the need for and the choice of a repair. A text is a sequence of claims with the
markers each carries and how well its evidence supports it.

`Answering.tla` composes them. What the layers find is a sequence of hits, best first; `RankedHits` keeps those of the layers
the search has found, without the chunks of metadata, up to the limit of the route (`ResultLimit`). The steps are `TakeEvidence`, `Compose`, `SummarizeGroup` (one map call), `WriteDraft`,
`VerifyDraft` (with or without the model's opinion), `RepairDraft`, `Settle` (the Spanish fallback), `StoreAnswer`;
`ModelFails` and `RepairFails` may end each call. A refusal in strict mode stores nothing.

- `AnswerIsSound`: the evidence is within the limits of its mode and holds no text twice;
  the citations stored are those of the text stored, repaired or not; a repair never makes
  the answer worse; an answer stored as verified has every claim cited and supported, no marker beyond the evidence,
  and the question's language, whatever the verifying model said.
- `SynthesisReadsEverything`: before the answer is written every item of the pack was in exactly one map call,
  in no more calls than allowed.

## 8 ImportSession

`ImportSession.tla` models the upload queue of the page (`processCollectionQueue` and its callers), the upload
requests it sends `Width` at a time, the rows and counters they share, and the import of a local folder.

| variable | code |
|---|---|
| `docs`, `sessions`, `items`, `lock` | committed rows; items are counted by session and outcome; the transaction that holds SQLite's write lock |
| `request` | of each upload: where its transaction stands and which counters it has read |
| `folder` | the folder import with its uncommitted rows |
| `shown`, `queue`, `loop` | the page: the state of each file, the queue of the collection, the loop that empties it with the session it was started with |
| `backend`, `plan`, `failures` | the database, what happens in this behaviour, a bound |

`Lookup`, `Register`, `ReadCounters` and `Commit` are the steps of one upload between which others act. On
SQLite the first INSERT takes the lock to the end; on PostgreSQL an UPDATE writes values computed from an older read.
`Receive` may lose an answer although the server goes on. `StartFolder`, `ImportCandidate`, `CommitFolder` are one
transaction.

- `CountersAreSound`: no counter is ever ahead of the items; on SQLite they are equal (`CountersNeverAhead`,
  `CountersExactOnSQLite`).
- `FolderIsSound`: the report of a folder adds up and a content is registered once, however many copies there are.
- `UploadsComplete`: a session that finalizes itself is full; the loop ends and closes its session unless a
  request failed; a file queued while the loop runs is sent.
- `LaterCopiesAreRecognized`: a file still queued when its content is known never becomes a second document. Two
  copies on their way *together* do: there is no unique constraint.

Fairness: the page's loop runs on, requests that were sent are served and answered, a waiting writer gets
SQLite's lock in the end (its timeout is 30 s, transactions are short; hence the SF of the two steps that wait).
Nobody has to drop a batch or import a folder.

## 9 ChatPage

`ChatPage.tla` models the page that asks questions together with the part of the API it talks to. Every
continuation of an await is a step; a question, its answer and its pair of messages share a number.

| variable | code |
|---|---|
| `chatOf`, `messages`, `work` | API: chats with their collection, their messages, questions being answered or answered |
| `coll`, `listing`, `chats`, `activeChat`, `fetch` | the selected collection and chat, and what is awaited for them |
| `turns`, `activeTurn` | the thread and the selected turn |
| `deletions` | `handleDeleteChat`: each deletion awaited, with the chat selected and the chats listed at its click |
| `ask` | `handleSubmit`: creating a chat, sent, recovering (polling), with the number of polls |

`Store` commits an answer whether or not anybody waits. `Lose` is a failed or timed-out response, after which
`Recover` polls the chat for an answer with the same wording, `MaxPolls` times (40 in the code), and `GiveUp`
removes the turn. A deletion is `DeleteChat` (the click), `ChatIsDeleted` (the API's transaction) or `DeletionFails`, and
`DeletionReturns`, which opens a chat of the list it has closed over, whatever is open by then. Selecting and deleting chats and collections may come in between; `ReadMessages` and
`MessagesArrive` are two steps, so that a thread can arrive that was read before.

- `ThreadIsSound`: a turn is pending only while its submission is in progress, and only one is
  (`PendingMeansAsking`); the converse is false and not claimed (a change of collection or a deletion that returns late clears the
  thread while the question goes on); a submission that ends with an answer ends with a stored answer to that question in that
  chat (`AnswerFitsTheQuestion`).
- `SubmissionsEnd`: a submission ends, whatever becomes of the connection, the API and the chat.

Fairness: a request ends (the page aborts it after its timeout) and the polling loop goes on. The API need not
answer.

## 10 RepoIndex

`RepoIndex.tla` models index runs, the SQLite sidecar, the Qdrant projection and the processes that
answer queries.

| variable | code |
|---|---|
| `tree`, `edits` | the working tree: the version of each file, 0 when it is absent |
| `gens`, `kept`, `active` | contents of the generations committed, by id; ids whose rows are still in the database; `metadata.active_generation` |
| `points`, `manifests` | Qdrant: vectors by generation and chunk, generations with a completeness manifest |
| `wpc`, `run` | where an index run stands: inventory, what it has read, the snapshot its open transaction holds, what is left to upload |
| `rpc`, `query`, `cache` | a reader: the generation its answer will name, the id it has resolved for its next SELECT, what it has read, the per-process edge cache |
| `moments` | history: the states of the tree during the current run |

`Acquire` is the file lock. `List`, `ReadFile` (one file), `ListAgain` and `Revalidate` (one file)
are `_capture_once`; `Repeat` is the retry of a capture that found the tree changed. A first capture
ends in `Reuse` (nothing new) or `Build`, which opens the transaction and captures again; the second
ends in `Discard` or `Activate`, the one commit that publishes and prunes. `Project`, `Upload` (one
chunk) and `Finalize` fill Qdrant, outside any transaction. `Stop` ends a run anywhere, by a crash or by a
service that does not answer. A reader starts by `Serve` or `Ask`; each of its reads is `Resolve`
(`_active_id`) and later `Fetch` (rows under that id); `CachedEdges`/`LoadEdges` are
`_all_graph_edges`; `Reply` and `Reject` are the check at the end of `_envelope`.

Abstractions: what is extracted from a file is a function of its content, so a file has one chunk
and a generation is a set of file versions; `HEAD`, branch and Git status are part of a file's
content; a single file is read atomically, since the scanner compares its metadata before and after;
semantic search returns some of the rows a `Fetch` reads; a one-shot command is a reader that may
live on; an MCP server runs its tools one after the other; the embedding identity and schema
migrations do not change. An edit never restores a content of the past: a capture compares
contents, so that a file changed and changed back is not noticed, and `PublishedWasReal` would be
false of a tree that plays this trick between two readings.

Properties:

- `OneGenerationPerAnswer`: all that was read for an answer is what the generation it names holds,
  although generations are published and pruned while it is prepared. Readers hold no lease; the final
  check carries the whole weight, and the label of the edge cache must never be newer than its edges.
- `ReadyIsProjected`: as long as the sidecar was never removed by hand, all vectors of an active generation that has a manifest are there.
- `PublishedWasReal`: a generation is a state the tree was in, not a mixture.
- `IndexCatchesUp`: when edits cease, the active generation is the tree, and has its manifest.

Fairness (`FairRepoSpec`): somebody keeps running `index` and a run proceeds. The documentation has
the user, or a launcher, run it again after an error; without that nothing catches up.

## 11 CodeGraph

`CodeGraph.tla` looks inside a generation: symbols and edges, and the two questions that walk them. A
file's content says which symbols and which edges by name it has; `texts` is the working tree, `gen` the active
generation, `walk` the question being answered.

`BuildGraph` takes the extraction of each changed file, the stored artifacts of each unchanged one
(`reusable_extraction`), and resolves by name, the qualified name first (`UniqueTiers`, `Resolved`). `AskGraph` is
`trace_symbol` or `analyze_impact` on a symbol or a file; `NextTarget` and `Visit` are the loop over targets and one turn
of `_traverse`, with its limits on nodes, depth and edges per node; inferred edges included.

- `GraphIsSound`: edges end in symbols of the same generation; an edge is unresolved only if no reading of its
  name is unique, also when its artifacts come from an earlier generation.
- `WalkIsExact`: an answer that says nothing was omitted, and of which no list of edges was cut, is exactly what
  is within the depth, with the right distance; a truncated one is full and left out nothing nearer than it has.
- `ResolvedIsUnequivocal` (run `stale_edges`) is what the documentation says and reuse breaks.

A list of edges longer than four times the limit is cut and `left` remembers it; the code does not (section 15).

## 12 RepoRanking and RepoSearch

`RepoRanking.tla` holds the functions: the lexical score and the choice of a page (`LexicalSearch`), reciprocal
rank fusion (`Fused`) and the reranker (`Reranked`), related tests, the repository map (`RepoMap`) and the cut to a
budget (`Compacted`). Words are sets of tokens, scores are hundredths, a path is its place in the order of paths.

`RepoSearch.tla` asks a question step by step while files are edited (`Touch`) and other processes publish
(`PublishAgain`): `AskRepo`, then `Lexical`, `Nearest`, `Chunks`, `Hashes`, `Fuse` for a search, `Define` for a symbol,
`Verify` (one file read and compared with its hash), and `Envelope` or `GenerationChanged`. Each read of the index
asks for the active generation again.

- `ShownIsIndexed`: hits are of the generation the answer names, and a text shown with a hit is the one indexed.
- `RankingIsFair`: a page has no place twice, at most three excerpts of a file, a second only when every matching
  file has one, and is not short without reason; related tests are one per file, the graph's before all others.
- `BestIsKept`: an answer within its budget is whole; another says it is cut, keeps of each list a beginning, and
  takes from the preferred list last.

Similarities and marks of the cross-encoder are bounded to one hit that stands out.

## 13 Runs

State counts are distinct states. Deadlock is checked except in `pages` and `requests`, where a behaviour
ends: every planned batch, question or request is over and nothing has to follow.

| run | instance | what it shows | states |
|---|---|---|---|
| `queue_sqlite` | 2 processes, 2 targets, 3 jobs, 2 faults, 2 retries | on a single-worker backend: earned successes, one executor, budget, refinement of `WorkLease` | 371,155 |
| `queue_postgres` | 2 workers, 2 jobs, 1 fault, fair | sharing only after a stale requeue; final outcomes; every job settles | 35,432 |
| `documents` | story *faults*: 1 document with page images, 1 crash or lost commit, 2 failing calls; *pair*: 2 documents, 3 uploads, repeated uploads of one of them or rebuilds; *chunks*: 376 documents of up to 34 characters, 3 tokens of 4 characters, minimum 2, overlap 1 | READY is complete, no stage twice, nothing forgotten, statuses follow the table; chunks are sound | 406,091 |
| `rebuild` | *rebuilds*: 1 document, 2 rebuilds at any time, 1 failing or swallowed call, fair; *repairs*: 1 document, an upload and two resumes or rebuilds, 1 job that fails for good or 1 swallowed call; *textless*: 1 document without text, 2 rebuilds, 1 failing call, fair | published is searchable, nothing forgotten, clean start, every document arrives; repairs neither mix generations nor forget | 338,903 |
| `requests` | *corpus*: 2 workers, 1 document, 1 search, 9 plans; *services*: 3 variants, 4 modes, 3 corpora of up to 22 hits, 7 drafts, 4 opinions, 2 map calls | memory and evidence are of published documents; failures of Qdrant and of the model are contained | 1,010,177 |
| `pages` | *import*: 2 batches (two copies of a file, a third later) or 1 batch beside a folder of four, both databases, 1 failing request; *chat*: 2 collections, 2 chats, 2 questions and 1 click or 1 question and 2 clicks, 1 poll, fair | counters, sessions, queue; thread and submissions | 120,747 |
| `repo_index` | 2 processes, 2 files, 2 edits, 1 `--full`, 1 failing run, 1 removal of the sidecar, fair | manifests, real snapshots, catching up | 1,601,748 |
| `repo_answers` | *generations*: 1 process that indexes, 1 reader, 1 file, 2 edits, 2 reads per query, 1 removal of the sidecar; *graph*: 3 files, 2 changes, 85 questions; *search*: 4 files, 1 edit, 2 generations, 34 questions | answers of one generation; sound graph and exact walks; verified, fair and bounded results | 535,163 |
| `resume` | 1 document, a resume during an undisturbed ingestion | **violated**: `RegisteredIsQueued` | |
| `half_rebuild` | 1 document, a rebuild that fails for good | **violated**: `PublishedIsSearchable` | |
| `generations` | 1 document, 1 rebuild, 1 lost report, 1 stage that fails for good | **violated**: `ReadyIsComplete` | |
| `stale_edges` | 3 files, 2 changes, incremental runs | **violated**: `ResolvedIsUnequivocal` | |

Why the bounds are enough. `MaxRetries = 2` is the least for which a retry can be told from a last
attempt; where it is 1, a stage is to fail for good by one error. Two workers are the least that
interfere. Three jobs fill the queue, let a handler replace them and let one be deleted. One fault
separates any two transactions, two hit the recovery of the first. One document has all stages; two
exchange jobs in the queue. Three requests are an upload, a rebuild of it, and one that meets either
half way: three generations, of which leftovers of two can meet. `MaxJobs` of the pipeline and of the memory, and
`BatchBound`, are never reached: they only give TLC finite types.

For the memory two builds are the least of which one can meet the other's EMBED job; one document is enough,
because a text is of generations and a document has several. A search is one request: it reads at five moments, and
what happens between them is in the plan. Three variants are the original and two facets, so that Qdrant can
fail after one facet. Two copies in one turn and one in the next are the two ways a content can come twice. One
poll and one click separate a loss, a recovery and a change of chat; with two questions an answer can be mistaken, and with two clicks
another chat is opened while a deletion is awaited. A corpus of 22 hits, with texts repeated at a distance, a document with too many
hits, too many edges and long summaries exceeds each limit of a pack but one: the number of items, which no route reaches in the
code either, since it asks for fewer hits than its pack may hold (`ResultLimit`: 8, 10, 12 or 20, against 10, 12 or 24).

For the index, two files are the least that can be read at different moments; two edits change the tree during both
captures and between them; with the generation before and after them there are three, so that pruning has something
to delete. Three files give a name two definitions and a caller; the questions ask for up to three steps and six
symbols, below and above what there is. Four files are two sources and the test of each, which is what fairness between files and the
ranks of related tests need; the budgets run from less than an empty answer to more than the largest.

The story *rebuilds* fails fewer calls than a job has attempts, since `half_rebuild` refutes
`PublishedIsSearchable` otherwise; `RegisteredIsQueued` is checked without resumes and `ReadyIsComplete` not under
a crash together with a rebuild and a stage that fails for good, for the same reason.

## 14 Proofs

TLAPS checks the following for every value of the constants that satisfies the assumptions named in
the modules (`JobQueueAssumption`, `PipelineAssumption`, `RepoAssumption`, `ImportAssumption`,
`PageAssumption`, `MemoryAssumption`, `SearchAssumption`, `AnsweringAssumption`, `ChunkSettings`, `GraphAssumption`,
`SearchRepoAssumption`). Assumptions only type
the constants and keep targets, stages and bounds apart; `ChunkSettings` is what the settings validate, and `GraphAssumption` says what an
extractor returns (an edge starts in a symbol of its file, or in none) and which questions the services accept (depth and nodes at least one). `SearchRepoAssumption` says that a version of a file is known by its
hash, that the index holds finitely many rows of it, and none of a file that is absent.

**JobQueueProofs.** `TypeCorrect`, and from one inductive invariant `IInv` the theorems
`SuccessIsEarned`, `ClaimExcludes`, `LockExcludes`, `BudgetIsKept` and `OutcomesAreFinal`. None of the
properties is inductive: that a success is earned needs that a worker about to report has
committed (`ReportsWork`); that outcomes are final needs that a row with an executor is RUNNING or
deleted (`OwnedRowRuns`) and has one executor (`SoleOwner`), and both need, on SQLite, that one
process is up (`LockHeld`) and that the rows it has read as stale are still RUNNING when it updates them
(`StaleRowsRun`). On a shared backend they hold of jobs never put back as stale (`Fenced`).
`QueueIsWorkLease`: under `Exclusive` (one worker process at a time, as on SQLite) the queue implements the abstract
lease. The refinement mapping is the one of `JobQueue` (a job is held while a worker executes it, done when its row says
SUCCEEDED); every step maps to a step of `WorkLease` or to a stutter, which needs `ClaimExcludes` and
`SuccessIsEarned`: a claim must find the job free, and a success must find its work done.

**DocumentPipelineProofs.** `PipelineRefinesQueue`: every step of the pipeline is a step of the queue
or leaves it alone, because every handler's follow-ups are a batch the queue allows (`ProperBatches`)
for jobs of the right kind (`JobsFit`). `PipelineKeepsQueuePromises` carries the theorems of the queue
over. `PipelineTypeCorrect` includes that rows refer to batches that exist; it needs that what a
handler has read is never ahead of the document (`SeenIsOld`). `RebuildIsClean`: on a single-worker
backend a rebuild that commits leaves each document it reset with one live job. Its test for RUNNING
jobs is far from its commit; the invariant `RebuildIsAlone` says that it stays true in between,
because no other process can claim. `PipelineIsWorkLease` composes `PipelineRefinesQueue` with `QueueIsWorkLease`.

The second half of the module is what READY promises, in four layers, all with one worker (`Exclusive`) and with uploads
of new files and rebuilds as the only requests (`UploadsAndRebuilds`).

The first layer is the invariant `Lifecycle`: the job a worker holds is RUNNING and its only one (`HeldRuns`); what a handler
has read of its document is still so when it commits (`SeenIsNow`); the live jobs of a document are those its status
asks for, each stage once (`DocJobs`); and the rows a status promises exist, in the order of the stages (`Shape`). No part is
inductive alone: the status that a handler finds decides which follow-ups it inserts, the follow-ups decide
which handler comes next, and that a handler finds the status it expects needs that nobody else wrote it. It gives
`StagesAreQueuedOnce` and `StatusFollowsTable`.

The second layer dates the rows. `CommittedIsDone`: without crashes the layer of a SUCCEEDED job exists, with
the batch it read. `OneGeneration`: when nothing is rebuilt, a document has been embedded from one batch of chunks only, so that successes count
for the generation they belong to. `Built`: each layer is derived from the present chunks. `ReportIsTrue`: the barrier that a running CHECK has
evaluated is still what it was. `ReadyDocumentsAreComplete` follows, for behaviours that either have no crashes (any number of
rebuilds) or no rebuilds (any number of crashes). With both it is false: that is the finding of run `generations`.

The third layer is about Qdrant: points only move in `UseQdrant` (`OnlyCallsMovePoints`), only PARSE and a rebuild delete
them, PARSE is the first stage of its generation (`ParseFirst`), and an EMBED that is to commit has made its call
(`EmbedCalled`), so that the points of an INDEXED document are those of its chunks, but for those whose own upsert was swallowed (`PointsKept`);
with a required Qdrant there are none.
`PublishedCorpusIsSearchable` excludes rebuilds that fail after their call, which the run `half_rebuild` refutes, and crashes: a PARSE
executed again after a lost report deletes the vectors of a document that has become READY.

The fourth layer shows that the promise is kept in the other direction. Two results speak of documents that wait.
`RegisteredDocumentsAreQueued`: a REGISTERED document has a live PARSE job or one that used up its attempts (`ParseQueued`; the status
of a parser that fails is part of it, `ParseMoves`), with any crashes: PARSE commits a status before it can be retried, and a rebuild inserts
a job for every document whose jobs it drops.
`NothingCompleteIsForgotten`: without crashes, a document whose layers are complete is READY when its queue is empty. `JobFates` lists what one
step can do to a job. Every stage but CHECK has one job per generation, inserted after its predecessor has committed (`Ordered`); a committed
stage leaves the next stage or a check behind (`LeavesWork`); the report of a running CHECK is the barrier of this moment (`ReportIsNow`), so
that a check that finds a layer missing ends before that layer has (`AheadIsNotReady`); hence the last layer to complete is heard
by a later check (`Heard`). Calls of other stages may fail, a rebuild may come at any time. CHECK itself must not fail (`CheckRuns`): nobody
repeats it (section 15).

The hypotheses are those without which the code breaks the promise: an upload of a known file or a resume resets a document under a
handler that has read it (section 15).

**RepoIndexProofs.** `RepoTypeCorrect`, with the facts that the active generation is the newest and is
never pruned. `AnswersAreWhole`: the invariant `ReadersOK` says that a query whose generation is still
active has resolved all reads to that generation (active ids only grow, and `resolved` lies between
the two), and that a cache labelled with the active generation holds its edges, because the label was
read before them. `ProjectionIsWhole`: one run at a time has the lock (`OneRun`), what it projects is
still active (`ProjectingOK`), each chunk of it is either left or uploaded, and no id without a generation has a
manifest. The last fact is lost when the sidecar is removed by hand; the property speaks of the time before (`removals = 0`),
and `RemovalsAreCounted` says that no step leads back to it.
`PublishedTreesWereReal`: a run captures the tree twice, file by file, and publishes when both captures agree. The invariant
`CaptureInv` names the moment that was captured, the one at which the second capture began (`StoodBetween`): a file that both
captures found with the same content had it then, or its content went and came back. That it does not come back is the
theorem's hypothesis (`NothingReturns`), and the property's own proviso: a file that is absent, created and deleted between two captures
is back at a state both see, and with more of such edits (a larger `MaxEdits`) a run publishes a tree no moment had.

The second half of the module is about `CodeGraph`, and needs no bound on files, symbols, edges or questions. `GraphStaysSound`: `GraphInv` is
inductive; besides the property it says that the symbols are exactly those of the contents the generation was made of, and that an edge
starts in its own file (`GenerationOK`): reused artifacts then are as good as new ones, whose targets the build forgets or finds again.
`WalkStaysExact`: the symbols at most k steps from a target are a sequence of growing sets (`Spheres`), so that each symbol has one distance
(`Graded`). `WalkInv` describes a breadth-first search in the middle: the queue holds two levels at most, in their order, and there is room for
what is still to be found (`Walking`); as long as nothing was omitted, each symbol was queued with its distance, and the neighbours of what
has left the queue have been seen (`Exact`), so that with an empty queue everything within the depth has been; the targets done before have
left nothing either (`Accounted`). When a trace had to omit a symbol, it was full at that moment, and every symbol left out is
at least as far as the level being expanded (`Filled`). One turn of the loop is an induction over the neighbours (`Reaching`); that
the neighbours are all those of the lists of edges, if none was cut, rests on `SortedLists`: sorting keeps every element, once.

**RepoSearchProofs.** For any files, contents, edits, publications and questions: `ShownStaysIndexed`, `RankingStaysFair` and
`BestStaysKept`, from the invariant `SearchInv`. It says that as long as the generation of a question is still the active one, all that
the question has found is of that generation (`FoundOK`), although every read asks for the active generation again: generations
are only appended, so that two reads that both found the question's own generation have read the same files. What was found of an older
generation may be anything; the envelope refuses to show it, hence an answer is of the active generation when it is
made. (Later events cannot change an answer; the model leaves files and generations alone until its client goes on.) A source text is shown only if the file has the hash of the hit, which is the version indexed.

`RankingStaysFair` needs what the loop that fills a page keeps from turn to turn: no file has more than three hits, and a second one only when no
hit of an unseen file is left; after as many turns as there are hits, or as the page has room, nothing is missing that may be added. Related
tests are sorted by confidence, file and line, and a test remains for each file because a finite list has a surest of each file; relations of the
graph are surer than mentions, and mentions than names.

`BestStaysKept` follows an answer through the stages of compaction (`Compaction`: marked, lower lists cut, preferred list cut to three, texts
emptied, all lists cut): each loop takes items from ends of lists only (`CutOf`), stops within the budget or with nothing left to take
(`ShortEnough`), because a turn that is not the last shortens the answer by one item and there are as many turns as items.

**ListTheorems.** What the other proofs need of lists: the elements a filter keeps are those of its places, in their
order (`PlacesOf`); a sum grows with its list (`TotalAppended`); the elements of a strict total order have ranks, each rank one
(`RankExists`). Induction is done on sets: a set of numbers has a least one (`LeastNumber`), hence a set that holds 0 and
every successor up to n holds all of 0..n (`UpTo`); and so a recursive function up to n exists and is the only solution of its
equation (`RecursionExists`). `SortedLists`: sorting by an order in which every set has a first element (`Grounded`) gives a list of all
elements, each once, none behind one it is before.

**PageProofs.** Of `ImportSession`: `CountersSound`: `NeverAhead` holds on both databases because an upload holds counters it
has read that are at most those committed since (counters only grow, and an UPDATE writes what was read plus one, beside an item
of its own); `ExactOnSQLite` needs the invariant that between reading and committing the upload holds the lock, so
that nothing is committed in between. `SelfCompletionIsFull`: a session finalizes itself only on the counters of
its own commit, which are never ahead of the items. `FoldersAreSound` comes from `FolderInv`: the candidates seen so far are
partitioned by outcome, and the rows of the transaction are those of the candidates it has imported.
`LaterCopiesRecognized`: that a content is stored, and that an upload has looked it up afterwards, are stable.
Of `ChatPage`: `ThreadsAreSound`, from `PageInv` and `ClosuresInv` (a deletion has listed its chat): numbers of questions are used once, a stored pair of messages belongs to a question
that was answered in its chat (`PairsAreStored`), and what the API works on was asked by the page (`WorkIsAsked`), so that
neither an answer nor a poll can close the turn of another submission.

**CollectionMemoryProofs.** `MemoryRefinesQueue`: the memory's handlers and requests are a client of the queue, as in the
pipeline (`ProperBatches`, `JobsFit`), so that the queue's theorems hold here too. `MemoryTypeCorrect` and
`MemoryWasPublished` (the first half of `MemoryIsSound`) come from the invariant `DataOK`: everything a handler has read, has written or
has sent to Qdrant is made of published generations. That the list of sources was read at the start and the row is
written much later is harmless because `published` only grows; what has to be carried along is that a handler which has called
Qdrant has found its collection (`ReadOK`). `DeletedStaysInert`: a deletion that has executed its statements still has a collection,
and a collection without rows lets every later handler find nothing, so that only the handlers that had begun
before it can write. `MemoryStaysSound` adds the second half of `MemoryIsSound`, that the index catches up with the text. It
speaks of an undisturbed queue (`Calm`); the invariant `EmbedInv` says that then a memory with a text is embedded, or one live EMBED job
will embed it, or that job has failed for good (`Promised`), and that there is at most one such job. BUILD commits its text and
the job together, so that the promise moves from the handler to the row of the queue, to the handler that has read the text, and to code and
point (or to `unsent`, when an optional Qdrant has lost the upsert); a rebuild or a re-ingestion that has deleted points (`Wipes`) clears the memory when it ends.

Of `PublishedSearch`, which extends the memory: `EvidencePublished`: on top of `DataOK`, candidates exist when they are found, the summary of the
collection was published when it was read, and chunks are published as soon as they have been validated (`SearchOK`). That
the four reads see four different states of the database matters only for the candidates: between retrieval and validation they
may be deleted or replaced, but never become others, because numbers of generations are not used twice (`Existing`).

**AnsweringProofs.** `FailureContained`: for any number of variants. The invariant `HybridInv` ties the place of the search to
what has been searched (`Place`, `Progress`): layers behind it with every variant still executed, or with all that were planned unless
the fallback is noted; a shortened plan is noted (`Shortened`); the original question has hits where SQL has rows (`OriginalFound`).

`AnswersAreSound`: whatever the hits, the drafts and the opinions of the verifying model. The invariant `AnswerInv` follows a draft from
its writing to the strict check: the citations are those of the draft there is (`DraftIsBound`), a repair is compared with the quality of
the first draft (`FirstIsRemembered`), and a verdict of "verified" survives only of a draft whose claims are all
cited and supported (`StrictlyCited`). That the local verification caps the opinion of a model is `VerifyIsSensible`; that the pack
keeps its limits and repeats no text is `PackSelects`, by induction over the candidates: `OrderItems` returns each candidate once
because the ranks of a strict total order are 1 to n (`RankExists`).

`SynthesisReadsThePack`: for any pack and any number of map calls. Every item is poured into one lightest bucket, so the groups
read each place of the pack once (`ReadOnce`); the invariant `SynthesisInv` says that the memos are those of the first groups.

`ChunksStaySound` is about `Chunking`: for documents of any nodes and texts of any length, and all settings the code accepts. That a bisection
finds the first place beyond a bound (`BisectFinds`) is an induction over its turns: what is below the window is not beyond, what is above it is,
and the window shrinks; so the doubling and the bisection find the longest segment within the budget (`LargestEnd`). `ChunkInv` adds
to the property what is between two steps: the segments cover their text up to the end of the last one without a gap (`SegmentsCover`), a chunk
that was closed leaves parts (`PartsAreLeft`), and chunks and parts hold the places of the nodes passed and of the segments
joined, and no other (`AllIsHeld`), which becomes `NothingIsLost` when no node and no part is left.

**Only model-checked.**

- *Liveness*: `EveryJobSettles`, `RebuildsArrive`, `UploadsComplete` (its safety half is `SelfCompletionIsFull` and
  `CountersSound`), `SubmissionsEnd`, `IndexCatchesUp`. They rest on fairness and ENABLED, which the proof system does not handle.
- *Properties of the story runs*: `PairIsNotForgotten` allows repeated registrations, which reset a document under the handlers
  that have read it, so that `Lifecycle` does not hold there. `QueueFitsStatus` and `FaultsFollowTable` combine what
  `StagesAreQueuedOnce`, `RegisteredDocumentsAreQueued` and `StatusFollowsTable` prove with the requests of their run.
- *Induction over data*. No invariant is left to it: a recursive function over 0..n can be reasoned about (`RecursionExists` and `UpTo` of
  `ListTheorems`), and the filters, sums, ranks and sorts of `Lists` and `Ordering` are; `FoldLeft`, `FoldSet` and `SelectSeq` of
  the libraries are opaque to the provers, so modules with theorems do without them.

## 15 Where the code and its documentation disagree

Each of the four violated runs shows one; `PROJECT.json` quotes the sentence it contradicts.

- `resume`: `enqueue_repairs` resets the document to REGISTERED before it asks whether an upstream job
  is active, and then returns. The job that was queued finds a status it refuses; when its attempts
  are spent nothing will ever parse the document.
- `half_rebuild`: vectors are deleted before the database is written. When the rebuild fails for good the
  rollback has restored READY and nothing restores the vectors.
- `generations`: readiness is dated by the newest SUCCEEDED embedding job. When the success report of
  the second embedding is lost, graph successes of the first generation count for the second.
- `stale_edges`: edges of an unchanged file keep the target they were resolved to, although another file has come
  to define the same name; a full run leaves them unresolved.

Found while modelling, without a run of their own:

- *Pipeline.* The PARSE handler commits FAILED in its `except` branch (`ingestion_job.py:306`); the retry that the
  queue grants (`job.py:48`, "will be retried"; `identifiers.py:55`) starts from FAILED, which PARSE refuses: every
  retry of PARSE fails.
- A PARSE job whose success report is lost is executed again after ten minutes. If the document has become
  READY meanwhile, its rows and vectors are deleted and it is committed as FAILED.
- `register` of a known file during a handler resets a status the handler then writes over, so that the
  stored status makes a jump the table does not know; when the handler is the CHECK the document is published, and the PARSE
  that follows deletes vectors of a READY document before it is refused.
- A rebuild refused because of RUNNING work spends all its attempts within seconds (`mem_builder_job.py:442`).
- With an optional Qdrant, which is the default (`settings.py:136`, `settings.py:174`), a failing call is logged and skipped
  (`qdrant_adapter.py:59`): EMBED commits INDEXED without the points (`mem_builder_job.py:383`), the document becomes READY and its
  collection is published; only the metrics of the job tell. In the same way the collection's memory is marked as embedded
  (`memory_enrichment_job.py:1167`) with no point or an old one. Searches then live on SQL's codes and rows.
- A document whose nodes are all metadata or blank, as a caption that holds only its header, gets no chunk
  (`mem_builder_job.py:92`); EMBED returns without a status or a follow-up (`mem_builder_job.py:251`), so that it stays SEGMENTED
  with every job SUCCEEDED, and its collection is never published.
- A CHECK that fails for good leaves a complete document unpublished until a resume.
- *Queue.* On a backend with several workers a SUCCEEDED row can be written over by the late report of an execution
  requeued as stale (`OutcomeIsFinal` is stated for the others). A job without a handler is retried like any other;
  `docs/jobs-and-workers.md:257` has it fail at once.
- *Memory.* A request that meets a RUNNING EMBED job is dropped: the new summary has no vector until the next one;
  the same after a crash of EMBED with two workers (`Undisturbed` names the exceptions). A handler that began before
  a deletion can leave the summary row, code or point of a collection that is gone. Summaries of documents in the
  evidence can be of a generation that was never published, because they are validated against the list read at the start.
- On SQLite a search holds the writer's lock from its first INSERT to the end of the request, calls of the language
  model included; other writers wait at most 30 s.
- *Import.* A failed upload is recorded nowhere: a session can be `completed` without explaining all files it
  announced (`docs/plan-rag-sintesis-corpus.md:215` asks for a report that adds up; so do `docs/archive/rag-v0/plan-correccion-vecquant-operacional.md:824`
  and `docs/auditoria-rag-respuestas-sota-2026-08-02.md:418`). PostgreSQL loses increments. A batch dropped while the loop awaits
  `finalizeImportSession` stays queued until the next batch (`Pages.tsx:988`).
- *Answers.* After Qdrant fails, hits may name variants that are not among the executed ones. A missing Qdrant
  collection (404) makes the adapter unavailable for the whole request. `qdrant_required` is swallowed by the scoring
  calls. An answer can be stored as verified with a low
  score that the model gave it; strict mode refuses only scores below 0.35.
- *Chat page.* A recovered answer is found by its wording, so that a question asked twice recovers the older answer. An
  answer that arrives after another chat was opened is committed to that chat's thread. A thread read before the answer was
  stored and delivered after it removes the answered turn. Deleting a chat while it is answered leaves
  messages without a chat. A deletion that returns late opens a chat of the list it started with, in place of one
opened meanwhile, or clears its thread with a turn that is still pending (`Pages.tsx:2498`). After 40 polls the turn is removed although the backend still works
  (`docs/baseline.md:28`).
- *Repository index.* The sidecar "may be removed by hand" (`docs/indexing-and-storage.md:171`); Qdrant keeps its
  collections and ids start again at 1, so that the manifest of the old generation 1 counts for the new one, whose vectors are then
  never made. `ReadyIsProjected` promises nothing after a removal; `repo_index` and `repo_answers` have one, after which the index still catches up and answers still
  do not mix rows of two generations.
- A repository without chunks gets no manifest, so that no other process takes its generation for ready.
- `docs/indexing-and-storage.md:139` promises `GENERATION_CHANGED_DURING_QUERY`; the code answers
  `INDEX_UNAVAILABLE`.
- Edges per node are limited to four times the nodes of an answer; what is cut is not counted
  (`"omitted_edges": 0` is a literal), against the "omitted counts" of `docs/architecture-repo-context.md:92`.
- Related tests: a later edge at the same line replaces a `tests` relation's confidence by a lower one. A question
  without stems matches every test file. Hybrid results lose the lexical page's spread over files.

## 16 What is not modelled

Not modelled although it has state or control: a pipeline with several workers (a layer that finishes while the
CHECK of another worker is RUNNING creates none; two workers on five handlers and their retries exceed what a run
explores); duplicates of edges and pages written by a repeated handler (rows are sets of layers here); the
detail shown beside a chat's thread; facets, exact search, row limits and page rank of the repository index; names that only
contain the words of a symbol query; the minimum of one file in an impact answer; the 404 of a missing Qdrant
collection; the expansion along stored relations beyond its result; estimators other than the default one; the
embedding identity and schema migrations of the index.

Out of scope: grammars and parsing of files, embeddings, quantization and scores (conversions of
data and floating-point numbers, with no state a property here could be about); keyword routing and the rewriting of
follow-up questions; auditing, DTOs, settings, command line and MCP formatting, forms and styling of the frontend
(wiring and wording); evaluation scores.
