-------------------------- MODULE DocumentPipeline --------------------------
(***************************************************************************)
(* The life of documents in the RAG backend: upload, resume and rebuild    *)
(* requests, the eleven job handlers that turn a source file into chunks,  *)
(* vectors, propositions, summaries, graph edges and visual pages, and the *)
(* readiness barrier that publishes the result.  Every step of the queue   *)
(* is a step of JobQueue; this module says what the handlers do.           *)
(*                                                                         *)
(* A handler reads at its start (Begin), may change Qdrant (CallQdrant),   *)
(* and writes everything else in the one transaction it commits; requests  *)
(* and crashes fall in between.  On SQLite this is what happens when the   *)
(* handler does not call Qdrant: reads take no lock, and the first write   *)
(* locks the database until the commit.  A handler that calls Qdrant holds *)
(* that lock already there, so that requests between the call and the      *)
(* commit are steps that PostgreSQL has and SQLite has not.  Other Qdrant  *)
(* namespaces and the candidate indexes follow the chunk namespace,        *)
(* the only one modelled.                                                  *)
(***************************************************************************)
EXTENDS JobQueue, FiniteSets, Functions

CONSTANTS
    Docs,           \* documents of the one collection modelled
    Collection,     \* the collection itself, a job target too
    Visual,         \* should_index_visual: the documents need page images
    Textless,       \* documents whose nodes are all metadata or blank
    QdrantRequired, \* require_qdrant: a failing call to Qdrant raises
    Requests,       \* the requests in use: "upload" of a new file, "reupload"
                    \* of a known one, "resume" and "rebuild"
    Fallible,       \* job types whose external calls may fail
    MaxRequests,    \* bound on the requests made
    MaxErrors,      \* bound on the failing external calls
    BatchBound      \* bound on the jobs one transaction inserts

PipelineTypes ==
    {"parse", "normalize", "segment", "embed", "extract", "embed_propositions",
     "summarize", "embed_summaries", "graph", "visual", "check", "rebuild"}

(* Stages whose activity makes a repair wait (_UPSTREAM_JOB_TYPES).        *)
Upstream == {"parse", "normalize", "segment", "embed", "extract"}

FollowUps == UNION {[1..n -> Kind] : n \in 0..BatchBound}

ASSUME PipelineAssumption ==
    /\ IsFiniteSet(Docs) /\ Cardinality(Docs) <= BatchBound
    /\ BatchBound \in Nat /\ BatchBound >= 3
    /\ Collection \notin Docs
    /\ Targets = Docs \cup {Collection}
    /\ Types = PipelineTypes /\ HandledTypes = PipelineTypes
    /\ Batches = FollowUps
    /\ Visual \in BOOLEAN /\ QdrantRequired \in BOOLEAN
    /\ Textless \subseteq Docs
    /\ Requests \subseteq {"upload", "reupload", "resume", "rebuild"}
    /\ Fallible \subseteq PipelineTypes
    /\ MaxRequests \in Nat /\ MaxErrors \in Nat

VARIABLES
    doc,        \* per document: its row, its artifacts and its Qdrant points
    payload,    \* per EMBED_SUMMARIES job: the sections it was created for
    seen,       \* what the handler on each worker read when it began
    errors,     \* external calls that failed so far
    requests    \* requests made so far

docVars == <<doc, payload, seen, errors, requests>>
pipelineVars == <<queueVars, docVars>>

DocStatuses == {"absent", "registered", "parsed", "normalized", "segmented",
                "indexed", "ready", "failed"}
Layers == {"node", "chunk", "proposition", "section", "document", "edge", "page"}

(* A batch of rows written together: its id and the batches it was derived *)
(* from.  Sections carry the id of their chunks and edges that of their    *)
(* propositions; nodes, the document summary and the pages are one batch   *)
(* per document, number 0.                                                 *)
Artifact == [layer : Layers, id : Nat, of : SUBSET Nat, embedded : BOOLEAN]

New(layer, id, of) ==
    [layer |-> layer, id |-> id, of |-> of, embedded |-> FALSE]

(* `missed` is history: the batches whose last upsert an optional Qdrant   *)
(* swallowed.  Only the audit metrics tell of them; no handler looks.      *)
DocRow == [status : DocStatuses, rows : SUBSET Artifact,
           points : SUBSET Nat, missed : SUBSET Nat, made : Nat]

NoDoc == [status |-> "absent", rows |-> {}, points |-> {}, missed |-> {}, made |-> 0]

Layer(s, layer)       == {r \in s.rows : r.layer = layer}
IdsOf(s, layer)       == {r.id : r \in Layer(s, layer)}
AllEmbedded(s, layer) == \A r \in Layer(s, layer) : r.embedded
SameRow(r, q)         == r.layer = q.layer /\ r.id = q.id

(* UPDATE ... WHERE id IN ...: rows that are gone stay gone.               *)
MarkEmbedded(rows, which) ==
    {IF \E q \in which : SameRow(q, r) THEN [r EXCEPT !.embedded = TRUE] ELSE r
        : r \in rows}

-----------------------------------------------------------------------------
(* Questions the repository classes ask of the jobs table.                 *)
Job(type, target) == [type |-> type, target |-> target]

Active(target, types) ==
    \E j \in Ids : /\ jobs[j].kind.target = target /\ jobs[j].kind.type \in types
                   /\ jobs[j].status \in {"pending", "running"}

(* Mutants of Ensure: no question asked; a job of any status counts.       *)
EnsureAlways(type, target) == <<Job(type, target)>>

EnsureOnce(type, target) ==
    IF \E j \in Ids : jobs[j].kind = Job(type, target)
    THEN <<>> ELSE <<Job(type, target)>>

(* ensure_pending: nothing while a job of the stage is PENDING or RUNNING. *)
Ensure(type, target) ==
    IF Active(target, {type}) THEN <<>> ELSE <<Job(type, target)>>

Succeeded(target, type) ==
    {j \in Ids : jobs[j].kind = Job(type, target) /\ Has(j, "succeeded")}

(* has_succeeded(..., not_before = the newest successful EMBED_DOCUMENT).  *)
SucceededSinceEmbed(d, type) ==
    \E j \in Succeeded(d, type) : \A g \in Succeeded(d, "embed") : j >= g

(***************************************************************************)
(* DocumentReadinessService.evaluate: what is missing before document d is *)
(* published, grouped as enqueue_repairs groups it.                        *)
(***************************************************************************)
Missing(d) ==
    LET s == doc[d]
        chunks == IdsOf(s, "chunk") IN
    {m \in {"base", "propositions", "proposition_embeddings", "summaries",
            "summary_embeddings", "graph", "visual"} :
        CASE m = "base" ->
               \/ s.status \notin {"indexed", "ready"}
               \/ chunks = {} \/ ~AllEmbedded(s, "chunk")
               \/ Succeeded(d, "embed") = {}
          [] m = "propositions" ->
               Layer(s, "proposition") = {} \/ ~SucceededSinceEmbed(d, "extract")
          [] m = "proposition_embeddings" ->
               \/ ~AllEmbedded(s, "proposition")
               \/ ~SucceededSinceEmbed(d, "embed_propositions")
          [] m = "summaries" ->
               \/ ~(chunks \subseteq IdsOf(s, "section"))
               \/ Layer(s, "document") = {}
               \/ ~SucceededSinceEmbed(d, "summarize")
          [] m = "summary_embeddings" ->
               \/ \E r \in Layer(s, "section") : r.id \in chunks /\ ~r.embedded
               \/ ~AllEmbedded(s, "document")
               \/ ~SucceededSinceEmbed(d, "embed_summaries")
          [] m = "graph"  -> ~SucceededSinceEmbed(d, "graph")
          [] m = "visual" -> Visual /\ ~SucceededSinceEmbed(d, "visual")}

IsReady(d) == Missing(d) = {}

-----------------------------------------------------------------------------
PipelineInit ==
    /\ Init
    /\ doc = [d \in Docs |-> NoDoc]
    /\ payload = [j \in 1..MaxJobs |-> {}]
    /\ seen = [w \in Workers |-> [step |-> "unread"]]
    /\ errors = 0
    /\ requests = 0

Type(w)   == jobs[cur[w]].kind.type
Target(w) == jobs[cur[w]].kind.target
Mine(w)   == seen[w].doc[Target(w)]     \* the document as this handler read it

Forget(w) == seen' = [seen EXCEPT ![w] = [step |-> "unread"]]

(* The handler's session reads the document and its artifacts; CHECK also  *)
(* evaluates the barrier and REBUILD asks for other RUNNING jobs.          *)
Begin(w) ==
    /\ pc[w] = "execute"
    /\ seen[w].step = "unread"
    /\ seen' = [seen EXCEPT ![w] =
          [step  |-> "read",
           doc   |-> doc,
           ready |-> Type(w) = "check" /\ IsReady(Target(w)),
           busy  |-> Type(w) = "rebuild"
                     /\ \E j \in Ids : Has(j, "running") /\ j # cur[w]]]
    /\ UNCHANGED <<queueVars, doc, payload, errors, requests>>

(***************************************************************************)
(* Calls to Qdrant take effect at once and survive a rollback: PARSE       *)
(* deletes the points of its document, REBUILD those of the collection,    *)
(* EMBED upserts the chunks that have no embedding yet.  When Qdrant is    *)
(* optional, the adapter logs a failing call and returns: the handler goes *)
(* on to its commit as if the call had worked.                             *)
(***************************************************************************)
Unembedded(s) == {r \in Layer(s, "chunk") : ~r.embedded}
Listed(w)     == {d \in Docs : seen[w].doc[d].status # "absent"}

NeedsQdrant(w) ==
    \/ Type(w) = "parse"
    \/ Type(w) = "embed" /\ Mine(w).status # "failed" /\ Unembedded(Mine(w)) # {}
    \/ Type(w) = "rebuild" /\ ~seen[w].busy

Upserted(w, d) ==
    IF Type(w) = "embed" /\ d = Target(w) THEN {r.id : r \in Unembedded(Mine(w))} ELSE {}

PointsAfterCall(w, d) ==
    CASE Type(w) = "rebuild" -> {}
      [] Type(w) # "rebuild" /\ d # Target(w) -> doc[d].points
      [] Type(w) = "parse" /\ d = Target(w) -> {}
      [] Type(w) = "embed" /\ d = Target(w) -> doc[d].points \cup Upserted(w, d)

AtQdrant(w) ==
    /\ pc[w] = "execute"
    /\ seen[w].step = "read"
    /\ NeedsQdrant(w)
    /\ seen' = [seen EXCEPT ![w].step = "called"]
    /\ UNCHANGED <<queueVars, payload, requests>>

CallQdrant(w) ==
    /\ AtQdrant(w)
    /\ doc' = [d \in Docs |-> [doc[d] EXCEPT !.points = PointsAfterCall(w, d),
                                             !.missed = @ \ Upserted(w, d)]]
    /\ UNCHANGED errors

MissQdrant(w) ==
    /\ AtQdrant(w)
    /\ ~QdrantRequired
    /\ Type(w) \in Fallible
    /\ errors < MaxErrors
    /\ errors' = errors + 1
    /\ doc' = [d \in Docs |-> [doc[d] EXCEPT !.missed = @ \cup Upserted(w, d)]]

UseQdrant(w) == CallQdrant(w) \/ MissQdrant(w)

(* The handler of type `type` is past its reads and its external calls.    *)
Turn(w, type) ==
    /\ pc[w] = "execute"
    /\ Type(w) = type
    /\ seen[w].step # "unread"
    /\ seen[w].step = IF NeedsQdrant(w) THEN "called" ELSE "read"

(* What a handler's transaction does: write document d, insert jobs.       *)
Commit(w, d, row, batch) ==
    /\ Fits(batch)
    /\ CommitWork(w, {}, batch)
    /\ doc' = [doc EXCEPT ![d] = row]
    /\ Forget(w)
    /\ UNCHANGED <<errors, requests>>

(* Mutant of Survivors: the summaries are left behind.                     *)
SummariesSurvive(d, s) ==
    {r \in doc[d].rows :
        /\ r.layer \in {"section", "document", "edge"}
        /\ r.layer = "edge" => r.of \cap IdsOf(s, "proposition") = {}}

(***************************************************************************)
(* Rows that survive the cleanup of PARSE and REBUILD: summaries and edges *)
(* are deleted by the ids read at the start, the rest by document.         *)
(***************************************************************************)
Survivors(d, s) ==
    {r \in doc[d].rows :
        /\ r.layer \in {"section", "document", "edge"}
        /\ r.layer = "edge" => r.of \cap IdsOf(s, "proposition") = {}
        /\ r.layer = "section" => r.id \notin IdsOf(s, "chunk")
        /\ r.layer = "document" => Layer(s, "document") = {}}

Reparsed(d, s, status, nodes) ==
    [doc[d] EXCEPT !.status = status, !.rows = Survivors(d, s) \cup nodes]

Parse(w) ==
    LET d == Target(w) IN
    /\ Turn(w, "parse")
    /\ Mine(w).status = "registered"
    /\ Commit(w, d, Reparsed(d, Mine(w), "parsed", {New("node", 0, {})}),
              <<Job("normalize", d)>>)
    /\ UNCHANGED payload

(* mark_parsed refuses any other status; the except branch then commits    *)
(* the cleanup and the new nodes together with the status FAILED.          *)
ParseRefused(w) ==
    LET d == Target(w) IN
    /\ Turn(w, "parse")
    /\ Mine(w).status # "registered"
    /\ RaiseError(w)
    /\ doc' = [doc EXCEPT ![d] =
                  Reparsed(d, Mine(w), "failed", {New("node", 0, {})})]
    /\ Forget(w)
    /\ UNCHANGED <<payload, errors, requests>>

(* Mutant of Normalize: the status is written whatever it was.             *)
NormalizeAnyStatus(w) ==
    LET d == Target(w) IN
    /\ Turn(w, "normalize")
    /\ Commit(w, d, [doc[d] EXCEPT !.status = "normalized"],
              <<Job("segment", d)>>)
    /\ UNCHANGED payload

Normalize(w) ==
    LET d == Target(w) IN
    /\ Turn(w, "normalize")
    /\ Mine(w).status = "parsed"
    /\ Commit(w, d, [doc[d] EXCEPT !.status = "normalized"],
              <<Job("segment", d)>>)
    /\ UNCHANGED payload

(* SEGMENT and EMBED return without a word for a FAILED document, for one  *)
(* that has its chunks already, and for one without chunks.                *)
AlreadySegmented(s) ==
    s.status \in {"segmented", "indexed", "ready"} /\ Layer(s, "chunk") # {}

NothingToDo(w) ==
    \/ Type(w) \in {"segment", "embed"} /\ Mine(w).status = "failed"
    \/ Type(w) = "segment" /\ AlreadySegmented(Mine(w))
    \/ Type(w) = "embed" /\ Layer(Mine(w), "chunk") = {}

Skip(w) ==
    /\ Turn(w, Type(w))
    /\ NothingToDo(w)
    /\ Commit(w, Target(w), doc[Target(w)], <<>>)
    /\ UNCHANGED payload

(* build_document_chunks skips metadata and blank nodes.                   *)
HasText(d, s) == Layer(s, "node") # {} /\ d \notin Textless

(* Mutant of Segment: EMBED_CHUNKS, a type no worker handles, follows.     *)
SegmentEmbedChunks(w) ==
    LET d == Target(w)
        id == doc[d].made + 1
        chunks == IF HasText(d, Mine(w)) THEN {New("chunk", id, {})} ELSE {}
    IN
    /\ Turn(w, "segment")
    /\ Mine(w).status = "normalized"
    /\ Commit(w, d, [doc[d] EXCEPT !.status = "segmented", !.made = id,
                                   !.rows = doc[d].rows \cup chunks],
              <<Job("embed_chunks", d)>>)
    /\ UNCHANGED payload

Segment(w) ==
    LET d == Target(w)
        id == doc[d].made + 1
        chunks == IF HasText(d, Mine(w)) THEN {New("chunk", id, {})} ELSE {}
    IN
    /\ Turn(w, "segment")
    /\ Mine(w).status = "normalized"
    /\ Commit(w, d, [doc[d] EXCEPT !.status = "segmented", !.made = id,
                                   !.rows = doc[d].rows \cup chunks],
              <<Job("embed", d)>>)
    /\ UNCHANGED payload

Embed(w) ==
    LET d == Target(w) IN
    /\ Turn(w, "embed")
    /\ Mine(w).status = "segmented"
    /\ ~NothingToDo(w)
    /\ Commit(w, d, [doc[d] EXCEPT
                        !.status = "indexed",
                        !.rows = MarkEmbedded(doc[d].rows, Unembedded(Mine(w)))],
              <<Job("extract", d)>>)
    /\ UNCHANGED payload

(***************************************************************************)
(* Memory enrichment.  None of these handlers looks at the status of the   *)
(* document, and rows found at the start are reused, not replaced.         *)
(***************************************************************************)
Extract(w) ==
    LET d == Target(w)
        id == doc[d].made + 1
        fresh == [doc[d] EXCEPT !.made = id, !.rows = doc[d].rows \cup
                     {New("proposition", id, IdsOf(Mine(w), "chunk"))}]
    IN
    /\ Turn(w, "extract")
    /\ Commit(w, d, IF Layer(Mine(w), "proposition") = {} THEN fresh ELSE doc[d],
              Ensure("embed_propositions", d) \o Ensure("summarize", d)
                  \o Ensure("graph", d))
    /\ UNCHANGED payload

EmbedPropositions(w) ==
    LET d == Target(w) IN
    /\ Turn(w, "embed_propositions")
    /\ Commit(w, d, [doc[d] EXCEPT !.rows =
                        MarkEmbedded(@, Layer(Mine(w), "proposition"))],
              Ensure("check", d))
    /\ UNCHANGED payload

(* upsert_scopes: one section per chunk read and one document summary; a   *)
(* summary whose text does not change keeps its embedding.                 *)
Summarized(d, s) ==
    LET wanted == {New("section", c, {c}) : c \in IdsOf(s, "chunk")}
                  \cup {New("document", 0, IdsOf(s, "chunk"))}
        kept == {r \in doc[d].rows : \A q \in wanted : SameRow(q, r) => q.of = r.of}
    IN kept \cup {q \in wanted : \A r \in kept : ~SameRow(q, r)}

GenerateSummaries(w) ==
    LET d == Target(w)
        batch == Ensure("embed_summaries", d) IN
    /\ Turn(w, "summarize")
    /\ Commit(w, d, [doc[d] EXCEPT !.rows = Summarized(d, Mine(w))], batch)
    /\ payload' = IF batch = <<>> THEN payload
                  ELSE [payload EXCEPT ![Len(jobs) + 1] = IdsOf(Mine(w), "chunk")]

EmbedSummaries(w) ==
    LET d == Target(w)
        chosen == {r \in Layer(Mine(w), "section") : r.id \in payload[cur[w]]}
                  \cup Layer(Mine(w), "document") IN
    /\ Turn(w, "embed_summaries")
    /\ Commit(w, d, [doc[d] EXCEPT !.rows = MarkEmbedded(@, chosen)],
              Ensure("check", d))
    /\ UNCHANGED payload

BuildGraph(w) ==
    LET d == Target(w)
        edges == {New("edge", p, {p}) : p \in IdsOf(Mine(w), "proposition")} IN
    /\ Turn(w, "graph")
    /\ Commit(w, d, [doc[d] EXCEPT !.rows = @ \cup edges],
              Ensure(IF Visual THEN "visual" ELSE "check", d))
    /\ UNCHANGED payload

IndexVisualPages(w) ==
    LET d == Target(w)
        pages == IF Layer(Mine(w), "node") = {} THEN {} ELSE {New("page", 0, {})} IN
    /\ Turn(w, "visual")
    /\ Commit(w, d, [doc[d] EXCEPT !.rows = @ \cup pages], Ensure("check", d))
    /\ UNCHANGED payload

(* Mutant of Barrier: a READY document is never demoted nor is the report  *)
(* looked at.                                                              *)
BarrierUnconditional(d, s, ready) ==
    IF s.status = "indexed" THEN "ready" ELSE doc[d].status

(* apply_barrier: publish, take back, or leave alone.                      *)
Barrier(d, s, ready) ==
    CASE ready /\ s.status = "indexed" -> "ready"
      [] ~ready /\ s.status = "ready"  -> "indexed"
      [] OTHER                         -> doc[d].status

CheckReadiness(w) ==
    LET d == Target(w) IN
    /\ Turn(w, "check")
    /\ Commit(w, d, [doc[d] EXCEPT !.status = Barrier(d, Mine(w), seen[w].ready)],
              <<>>)
    /\ UNCHANGED payload

(* Mutant of Obsolete: PENDING jobs are left in the queue.                 *)
NothingObsolete(w) == {}

(* The targets whose PENDING jobs REBUILD deletes.                         *)
Obsolete(w) == Listed(w) \cup {Collection}

Restarted(w) ==
    [d \in Docs |-> IF d \in Listed(w)
                    THEN Reparsed(d, seen[w].doc[d], "registered", {})
                    ELSE doc[d]]

(* One PARSE job per listed document, in the order of the list.            *)
ParseJobs(w) ==
    {[i \in DOMAIN order |-> Job("parse", order[i])] :
        order \in Bijection(1..Cardinality(Listed(w)), Listed(w))}

(* REBUILD resets every listed document, drops their PENDING jobs and      *)
(* inserts one PARSE job each.                                             *)
Rebuild(w) ==
    /\ Turn(w, "rebuild")
    /\ ~seen[w].busy
    /\ \E batch \in ParseJobs(w) :
         Fits(batch) /\ CommitWork(w, Obsolete(w), batch)
    /\ doc' = Restarted(w)
    /\ Forget(w)
    /\ UNCHANGED <<payload, errors, requests>>

(***************************************************************************)
(* Failing handlers.  An invalid status transition, or RUNNING work in the *)
(* way of a rebuild, raises and rolls the transaction back; so does an     *)
(* external call that fails, except that PARSE commits the status FAILED   *)
(* and whatever part of its cleanup was done.                              *)
(***************************************************************************)
Refused(w) ==
    \/ Type(w) = "normalize" /\ Mine(w).status # "parsed"
    \/ Type(w) = "segment" /\ Mine(w).status # "normalized" /\ ~NothingToDo(w)
    \/ Type(w) = "embed" /\ Mine(w).status # "segmented" /\ ~NothingToDo(w)
    \/ Type(w) = "rebuild" /\ seen[w].busy

Refuse(w) ==
    /\ Turn(w, Type(w))
    /\ Refused(w)
    /\ RaiseError(w)
    /\ Forget(w)
    /\ UNCHANGED <<doc, payload, errors, requests>>

Abort(w) ==
    /\ pc[w] = "execute"
    /\ seen[w].step # "unread"
    /\ Type(w) \in Fallible
    /\ errors < MaxErrors
    /\ errors' = errors + 1
    /\ RaiseError(w)
    /\ IF Type(w) # "parse" THEN UNCHANGED doc
       ELSE LET d == Target(w) IN
            \/ doc' = [doc EXCEPT ![d].status = "failed"]
            \/ /\ seen[w].step = "called"
               /\ doc' = [doc EXCEPT ![d] = Reparsed(d, Mine(w), "failed", {})]
    /\ Forget(w)
    /\ UNCHANGED <<payload, requests>>

-----------------------------------------------------------------------------
(***************************************************************************)
(* Requests.  Registering a file that is there already and not READY       *)
(* starts over without asking whether a job of the document is RUNNING.    *)
(***************************************************************************)
Asked(request) ==
    /\ request \in Requests
    /\ requests < MaxRequests
    /\ requests' = requests + 1
    /\ UNCHANGED <<seen, errors>>

SetStatus(d, status) == doc' = [doc EXCEPT ![d].status = status]

Register(d) ==
    LET batch == <<Job("parse", d)>> IN
    /\ Asked(IF doc[d].status = "absent" THEN "upload" ELSE "reupload")
    /\ doc[d].status # "ready"
    /\ Fits(batch)
    /\ Request({d}, batch)
    /\ SetStatus(d, "registered")
    /\ UNCHANGED payload

RequestRebuild ==
    LET batch == <<Job("rebuild", Collection)>> IN
    /\ Asked("rebuild")
    /\ Fits(batch)
    /\ Request({}, batch)
    /\ UNCHANGED <<doc, payload>>

RepairNothing(d) ==
    LET batch == Ensure("check", d) IN
    /\ IsReady(d)
    /\ Fits(batch)
    /\ Request({}, batch)
    /\ UNCHANGED <<doc, payload>>

(* The base layers are incomplete: back to REGISTERED, and a new PARSE     *)
(* unless some upstream job is active.                                     *)
RepairBase(d) ==
    LET batch == <<Job("parse", d)>> IN
    /\ "base" \in Missing(d)
    /\ SetStatus(d, "registered")
    /\ IF Active(d, Upstream) THEN UNCHANGED queueVars
                              ELSE Fits(batch) /\ Request({d}, batch)
    /\ UNCHANGED payload

(* Only enrichment layers are missing: the jobs that build those, unless   *)
(* an upstream job is active and will enqueue them itself.                 *)
Repairs(d) ==
    LET missing == Missing(d)
        props  == IF "proposition_embeddings" \in missing
                  THEN Ensure("embed_propositions", d) ELSE <<>>
        sums   == CASE "summaries" \in missing -> Ensure("summarize", d)
                    [] "summaries" \notin missing /\ "summary_embeddings" \in missing
                         -> Ensure("embed_summaries", d)
                    [] OTHER -> <<>>
        graph  == CASE "graph" \in missing -> Ensure("graph", d)
                    [] "graph" \notin missing /\ "visual" \in missing
                         -> Ensure("visual", d)
                    [] OTHER -> <<>>
        repairs == props \o sums \o graph
    IN CASE Active(d, Upstream) -> <<>>
         [] ~Active(d, Upstream) /\ "propositions" \in missing -> Ensure("extract", d)
         [] OTHER -> IF repairs = <<>> THEN Ensure("check", d) ELSE repairs

(* The job of EMBED_SUMMARIES carries all summaries present.               *)
RepairLayers(d) ==
    LET batch == Repairs(d) IN
    /\ ~IsReady(d)
    /\ "base" \notin Missing(d)
    /\ SetStatus(d, "indexed")
    /\ Fits(batch)
    /\ Request({}, batch)
    /\ payload' = [j \in 1..MaxJobs |->
          IF j > Len(jobs) /\ j <= Len(jobs) + Len(batch)
             /\ batch[j - Len(jobs)].type = "embed_summaries"
          THEN IdsOf(doc[d], "section") ELSE payload[j]]

(* enqueue_repairs, one document of the collection at a time.              *)
Resume(d) ==
    /\ Asked("resume")
    /\ doc[d].status # "absent"
    /\ \/ RepairNothing(d) \/ RepairBase(d) \/ RepairLayers(d)

-----------------------------------------------------------------------------
Write(w) ==
    \/ Parse(w) \/ ParseRefused(w) \/ Normalize(w) \/ Segment(w) \/ Embed(w)
    \/ Extract(w) \/ EmbedPropositions(w) \/ GenerateSummaries(w)
    \/ EmbedSummaries(w) \/ BuildGraph(w) \/ IndexVisualPages(w)
    \/ CheckReadiness(w) \/ Rebuild(w) \/ Skip(w) \/ Refuse(w)

Work(w) == Begin(w) \/ UseQdrant(w) \/ Write(w)

Poll(w) == (Start(w) \/ Loop(w)) /\ UNCHANGED docVars

Break(w) ==
    \/ Abort(w)
    \/ Crash(w) /\ Forget(w) /\ UNCHANGED <<doc, payload, errors, requests>>
    \/ (SucceedNotCommitted(w) \/ FailNotCommitted(w)) /\ UNCHANGED docVars

Ask == RequestRebuild \/ \E d \in Docs : Register(d) \/ Resume(d)

PipelineNext ==
    \/ \E w \in Workers : Poll(w) \/ Work(w) \/ Break(w)
    \/ \E j \in Ids : (Expire(j) \/ Outlive(j)) /\ UNCHANGED docVars
    \/ Ask

PipelineSpec == PipelineInit /\ [][PipelineNext]_pipelineVars

(* The worker is restarted and polls, handlers return, time passes; no     *)
(* request is ever promised.                                               *)
PipelineFairness ==
    /\ \A w \in Workers : WF_pipelineVars(Poll(w)) /\ WF_pipelineVars(Work(w))
    /\ \A j \in 1..MaxJobs : WF_pipelineVars(j \in Ids /\ Expire(j) /\ UNCHANGED docVars)

FairPipelineSpec == PipelineSpec /\ PipelineFairness

-----------------------------------------------------------------------------
(* Types of the pipeline's variables; a section, an edge or an embedding   *)
(* never refers to a batch that was not made.                              *)
SeenRow == [step : {"read", "called"}, doc : [Docs -> DocRow],
            ready : BOOLEAN, busy : BOOLEAN]

MadeBy(n, rows) == \A r \in rows : r.id <= n /\ r.of \subseteq 0..n

PipelineTypeOK ==
    /\ TypeOK
    /\ doc \in [Docs -> DocRow]
    /\ \A d \in Docs : MadeBy(doc[d].made, doc[d].rows)
    /\ payload \in [1..MaxJobs -> SUBSET Nat]
    /\ seen \in [Workers -> {[step |-> "unread"]} \cup SeenRow]
    /\ errors \in 0..MaxErrors
    /\ requests \in 0..MaxRequests

(* Every layer of document d exists and belongs to the chunks it has now.  *)
Complete(d) ==
    LET chunks == IdsOf(doc[d], "chunk") IN
    /\ chunks # {} /\ AllEmbedded(doc[d], "chunk")
    /\ Layer(doc[d], "proposition") # {}
    /\ \A p \in Layer(doc[d], "proposition") :
          /\ p.of = chunks /\ p.embedded
          /\ p.id \in IdsOf(doc[d], "edge")
    /\ chunks = IdsOf(doc[d], "section") /\ AllEmbedded(doc[d], "section")
    /\ \E r \in Layer(doc[d], "document") : r.of = chunks /\ r.embedded
    /\ Visual => Layer(doc[d], "page") # {}

(* The barrier: a READY document has all its memory layers, all of its     *)
(* current generation, however uploads, rebuilds and failures interleave.  *)
ReadyIsComplete == \A d \in Docs : doc[d].status = "ready" => Complete(d)

(* Mutant of Published: an active rebuild does not withdraw the corpus.    *)
PublishedDuringRebuild ==
    \A d \in Docs : doc[d].status \in {"absent", "ready", "failed"}

(* CollectionPublicationPolicy: no rebuild is active and every document    *)
(* is READY or FAILED.  Then what is searched has its vectors in Qdrant,   *)
(* but for the batches whose upsert an optional Qdrant swallowed: EMBED    *)
(* commits INDEXED all the same, and nothing after it looks at Qdrant.     *)
Published ==
    /\ ~Active(Collection, {"rebuild"})
    /\ \A d \in Docs : doc[d].status \in {"absent", "ready", "failed"}

Swallowed(d) == IF QdrantRequired THEN {} ELSE doc[d].missed

PublishedIsSearchable ==
    Published => \A d \in Docs : doc[d].status = "ready"
                    => IdsOf(doc[d], "chunk") \subseteq doc[d].points \cup Swallowed(d)

(* Each later stage of a document has at most one PENDING job, whatever    *)
(* crashes, retries and repairs do: NORMALIZE, SEGMENT, EMBED and EXTRACT  *)
(* are inserted without looking, and it is the status checks of their      *)
(* predecessors that keep a repeated execution from inserting them twice.  *)
OnePendingPerStage ==
    \A i, j \in Ids :
        /\ Has(i, "pending") /\ Has(j, "pending")
        /\ jobs[i].kind = jobs[j].kind
        /\ jobs[i].kind.type \notin {"parse", "rebuild"}
        => i = j

(* The stored status of a document moves only along VALID_TRANSITIONS, or  *)
(* to FAILED; EMBED passes through "embedded" within its transaction.      *)
ValidTransitions ==
    [absent     |-> {"registered"},
     registered |-> {"parsed"},
     parsed     |-> {"normalized", "registered"},
     normalized |-> {"segmented", "registered"},
     segmented  |-> {"indexed", "registered"},
     indexed    |-> {"ready", "registered"},
     ready      |-> {"indexed", "registered"},
     failed     |-> {"registered"}]

FollowsTable ==
    \A d \in Docs : doc'[d].status \notin {doc[d].status, "failed"}
        => doc'[d].status \in ValidTransitions[doc[d].status]

(* When REBUILD has committed, each document it reset has one live job, a  *)
(* PARSE: no earlier job of the document is left to interfere.             *)
RebuildStartsClean ==
    [][\A w \in Workers :
          pc[w] = "execute" /\ pc'[w] = "succeed" /\ Type(w) = "rebuild"
          => \A d \in Listed(w) : \E j \in DOMAIN jobs' :
                /\ jobs'[j].kind = Job("parse", d) /\ jobs'[j].status = "pending"
                /\ \A i \in DOMAIN jobs' :
                      jobs'[i].kind.target = d /\ i # j
                      => jobs'[i].status \notin {"pending", "running"}]_pipelineVars

(* A document that is registered is eventually READY or FAILED, unless it  *)
(* has no text: SEGMENT then makes no chunk, EMBED finds none and returns  *)
(* without a status or a follow-up, and the document stays SEGMENTED with  *)
(* no job left, holding back the whole collection.                         *)
Idle(d) == ~Active(d, PipelineTypes)

Stranded(d) == d \in Textless /\ doc[d].status = "segmented" /\ Idle(d)

EveryDocumentArrives ==
    \A d \in Docs : doc[d].status = "registered"
                     ~> doc[d].status \in {"ready", "failed"} \/ Stranded(d)

(* When no job of a document is active, its layers being complete means it *)
(* is published: the last layer to finish always triggers the barrier.     *)
NothingIsForgotten ==
    \A d \in Docs : Idle(d) /\ IsReady(d) => doc[d].status = "ready"

(* A document waiting to be parsed has a PARSE job, or had one that used   *)
(* up its attempts.                                                        *)
RegisteredIsQueued ==
    \A d \in Docs : doc[d].status = "registered" /\ Idle(d)
        => \E j \in Ids : jobs[j].kind = Job("parse", d) /\ Has(j, "failed")

=============================================================================
