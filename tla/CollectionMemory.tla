-------------------------- MODULE CollectionMemory --------------------------
(***************************************************************************)
(* The memory of a collection: one summary made from the summaries of its  *)
(* READY documents (BUILD_COLLECTION_MEMORY), its vector in the code store *)
(* and in Qdrant (EMBED_COLLECTION_MEMORY), and what ingestion, rebuilds   *)
(* and the deletion of the collection do to it.  Every step of the queue   *)
(* is a step of JobQueue.                                                  *)
(*                                                                         *)
(* The jobs that ingest a document are those of DocumentPipeline; here one *)
(* job, "ingest", stands for PARSE up to the last layer, and "check" for   *)
(* the barrier that publishes.  A generation is the number of an ingestion *)
(* of a document; a text is the set of document generations it was made    *)
(* from, and the empty set stands for no text.                             *)
(*                                                                         *)
(* What happens to the system is a plan: a sequence of requests, searches  *)
(* and faults, each of which comes at any time after the one before it.    *)
(***************************************************************************)
EXTENDS JobQueue, FiniteSets, FiniteSetsExt

CONSTANTS
    Docs,           \* documents of the collection
    Collection,     \* the collection, a job target too
    QdrantRequired, \* require_qdrant: a failing call to Qdrant raises
    Plans           \* the plans

MemoryTypes == {"ingest", "check", "rebuild", "build_memory", "embed_memory"}

(* The jobs that a handler or a request inserts: one, or one per document.  *)
FollowUps == UNION {[1..n -> Kind] : n \in {1} \cup 0..Cardinality(Docs)}

Asks == {"upload", "rebuild", "memory", "delete", "search", "crash", "error"}

ASSUME MemoryAssumption ==
    /\ IsFiniteSet(Docs)
    /\ Collection \notin Docs
    /\ QdrantRequired \in BOOLEAN
    /\ Targets = Docs \cup {Collection}
    /\ Types = MemoryTypes /\ HandledTypes = MemoryTypes
    /\ Batches = FollowUps
    /\ Plans \subseteq Seq(Asks)

VARIABLES
    coll,       \* the collection's row exists
    doc,        \* per document: status, generation of its rows, its points
    memory,     \* the summary row of the collection and its code
    point,      \* the text of the memory's point in Qdrant
    unsent,     \* history: the last upsert of that point was lost
    payload,    \* per EMBED job: what its payload says
    swallowed,  \* history: a request met a RUNNING job and was dropped
    seen,       \* what the handler on each worker has read
    leaving,    \* a deletion has done its work and not committed
    todo,       \* the rest of the plan
    published   \* history: the document generations that were ever READY

corpusVars == <<coll, doc, memory, point, unsent, payload, swallowed, leaving, published>>
memoryVars == <<queueVars, corpusVars, seen, todo>>

Generation == Docs \X Nat
Text       == SUBSET Generation
DocStatuses == {"absent", "registered", "indexed", "ready", "failed"}
DocRow     == [status : DocStatuses,
               rows : Nat, made : Nat, points : SUBSET Nat]
MemoryRow  == [text : Text, embedded : BOOLEAN, code : Text]
Payload    == [deleteOnly : BOOLEAN, obsolete : BOOLEAN]

NoDoc    == [status |-> "absent", rows |-> 0, made |-> 0, points |-> {}]
NoMemory == [text |-> {}, embedded |-> FALSE, code |-> {}]
Unread   == [step |-> "unread"]

Job(type, target) == [type |-> type, target |-> target]
Type(w)   == jobs[cur[w]].kind.type
Target(w) == jobs[cur[w]].kind.target
Present   == {d \in Docs : doc[d].status # "absent"}

MemoryInit ==
    /\ Init
    /\ coll = TRUE
    /\ doc = [d \in Docs |-> NoDoc]
    /\ memory = NoMemory
    /\ point = {}
    /\ unsent = FALSE
    /\ payload = [j \in 1..MaxJobs |-> [deleteOnly |-> FALSE, obsolete |-> FALSE]]
    /\ swallowed = FALSE
    /\ seen = [w \in Workers |-> Unread]
    /\ leaving = FALSE
    /\ todo \in Plans
    /\ published = {}

-----------------------------------------------------------------------------
ActiveJobs(type, target) ==
    {j \in Ids : jobs[j].kind = Job(type, target)
                 /\ jobs[j].status \in {"pending", "running"}}

Ensure(type, target) ==
    IF ActiveJobs(type, target) = {} THEN <<Job(type, target)>> ELSE <<>>

(* Mutant of Merged: the first request decides.                            *)
MergedOld(old, new) == [old EXCEPT !.obsolete = old.obsolete \/ new.obsolete]

(* Merging two payloads unites their lists; the new scalar wins.           *)
Merged(old, new) == [new EXCEPT !.obsolete = old.obsolete \/ new.obsolete]

(***************************************************************************)
(* ensure_pending with merge_pending_payload, for EMBED: a new job, or the *)
(* oldest active one; the payload reaches that one only while PENDING.     *)
(***************************************************************************)
RequestEmbedding(request) ==
    LET active == ActiveJobs("embed_memory", Collection)
        oldest == Min(active) IN
    \/ /\ active = {}
       /\ payload' = [payload EXCEPT ![Len(jobs) + 1] = request]
       /\ UNCHANGED swallowed
    \/ /\ active # {} /\ Has(oldest, "pending")
       /\ payload' = [payload EXCEPT ![oldest] = Merged(payload[oldest], request)]
       /\ UNCHANGED swallowed
    \/ /\ active # {} /\ Has(oldest, "running")
       /\ swallowed' = TRUE
       /\ UNCHANGED payload

(* The document summaries a BUILD reads: those of READY documents.         *)
Sources == {<<d, doc[d].rows>> : d \in {c \in Docs : doc[c].status = "ready"}}

(* Mutant of Found: nobody asks whether the collection is there.           *)
FoundAlways(w) == TRUE

(* get_by_id of the collection, or of the document to ingest.              *)
Found(w) == coll /\ (Target(w) \in Docs => doc[Target(w)].status # "absent")

Begin(w) ==
    /\ pc[w] = "execute"
    /\ seen[w] = Unread
    /\ seen' = [seen EXCEPT ![w] =
          [step    |-> "read",
           found   |-> Found(w),
           coll    |-> coll,
           busy    |-> \E j \in Ids : Has(j, "running") /\ j # cur[w],
           sources |-> Sources,
           payload |-> payload[cur[w]],
           text    |-> {}]]
    /\ UNCHANGED <<queueVars, corpusVars, todo>>

Forget(w) == seen' = [seen EXCEPT ![w] = Unread]
At(w, type, step) == pc[w] = "execute" /\ Type(w) = type /\ seen[w].step = step

(***************************************************************************)
(* Calls to Qdrant take effect at once, or not at all when Qdrant is       *)
(* optional: then its adapter logs a failing call and returns, and skips   *)
(* the next ones while it waits to retry, and its caller goes on.          *)
(***************************************************************************)
AfterCall(old, new) == IF QdrantRequired THEN {new} ELSE {new, old}

(* Two calls: the points of the documents' chunks, and the memory's point. *)
DropPoints(docs) ==
    /\ doc' \in AfterCall(doc, [d \in Docs |->
                    IF d \in docs THEN [doc[d] EXCEPT !.points = {}] ELSE doc[d]])
    /\ point' \in AfterCall(point, {})

(* Ingestion deletes the points of its document and of the collection's    *)
(* memory, a rebuild all of them.                                          *)
CallQdrant(w) ==
    /\ \/ At(w, "ingest", "read") /\ DropPoints({Target(w)})
       \/ At(w, "rebuild", "read") /\ ~seen[w].busy /\ DropPoints(Docs)
    /\ seen[w].found
    /\ seen' = [seen EXCEPT ![w].step = "called"]
    /\ UNCHANGED <<queueVars, coll, memory, unsent, payload, swallowed, leaving,
                   published, todo>>

(* EMBED deletes the point of the memory, then reads the summary.          *)
ClearPoint(w) ==
    /\ At(w, "embed_memory", "read")
    /\ seen[w].found
    /\ point' \in AfterCall(point, {})
    /\ seen' = [seen EXCEPT ![w].step = "cleared", ![w].text = memory.text]
    /\ UNCHANGED <<queueVars, coll, doc, memory, unsent, payload, swallowed, leaving,
                   published, todo>>

NothingToEmbed(w) == seen[w].text = {} \/ seen[w].payload.deleteOnly

UpsertPoint(w) ==
    /\ At(w, "embed_memory", "cleared")
    /\ ~NothingToEmbed(w)
    /\ \/ point' = seen[w].text /\ unsent' = FALSE
       \/ ~QdrantRequired /\ UNCHANGED point /\ unsent' = TRUE
    /\ seen' = [seen EXCEPT ![w].step = "called"]
    /\ UNCHANGED <<queueVars, coll, doc, memory, payload, swallowed, leaving,
                   published, todo>>

(* A handler's transaction.  It waits while a deletion holds its locks.    *)
Commit(w, dropped, batch) ==
    /\ ~leaving
    /\ Fits(batch)
    /\ CommitWork(w, dropped, batch)
    /\ Forget(w)
    /\ UNCHANGED <<coll, leaving, todo>>

(* The upsert replaces the text of the one row and forgets its embedding;  *)
(* without sources the row is deleted and its id becomes obsolete.         *)
BuildMemory(w) ==
    LET text == seen[w].sources IN
    /\ At(w, "build_memory", "read")
    /\ seen[w].found
    /\ Commit(w, {}, Ensure("embed_memory", Collection))
    /\ memory' = [memory EXCEPT !.text = text, !.embedded = FALSE]
    /\ RequestEmbedding([deleteOnly |-> text = {},
                         obsolete |-> text = {} /\ memory.text # {}])
    /\ UNCHANGED <<doc, point, unsent, published>>

(* Obsolete codes are removed; mark_embedded is an UPDATE by id.           *)
EmbedMemory(w) ==
    /\ \/ At(w, "embed_memory", "cleared") /\ NothingToEmbed(w)
       \/ At(w, "embed_memory", "called")
    /\ Commit(w, {}, <<>>)
    /\ memory' = [memory EXCEPT
          !.code = IF ~NothingToEmbed(w) THEN seen[w].text
                   ELSE IF seen[w].payload.obsolete THEN {} ELSE @,
          !.embedded = @ \/ (~NothingToEmbed(w) /\ memory.text # {})]
    /\ UNCHANGED <<doc, point, unsent, payload, swallowed, published>>

Ingest(w) ==
    LET d == Target(w)
        gen == doc[d].made + 1 IN
    /\ At(w, "ingest", "called")
    /\ doc[d].status = "registered"
    /\ Commit(w, {}, Ensure("check", d))
    /\ \E points \in AfterCall(doc[d].points, doc[d].points \cup {gen}) :
          doc' = [doc EXCEPT ![d] = [status |-> "indexed", rows |-> gen,
                                     made |-> gen, points |-> points]]
    /\ memory' = NoMemory
    /\ UNCHANGED <<point, unsent, payload, swallowed, published>>

(* A PARSE executed a second time: the status check refuses it after the   *)
(* cleanup, and cleanup and the status FAILED are committed.               *)
IngestRefused(w) ==
    LET d == Target(w) IN
    /\ At(w, "ingest", "called")
    /\ doc[d].status \notin {"absent", "registered"}
    /\ ~leaving
    /\ RaiseError(w)
    /\ Forget(w)
    /\ doc' = [doc EXCEPT ![d].status = "failed", ![d].rows = 0]
    /\ memory' = NoMemory
    /\ UNCHANGED <<coll, leaving, point, unsent, payload, swallowed, published, todo>>

(* The barrier publishes a document whose layers are there.                *)
Check(w) ==
    LET d == Target(w)
        complete == doc[d].status \in {"indexed", "ready"} IN
    /\ At(w, "check", "read")
    /\ seen[w].found
    /\ doc[d].status # "absent"
    /\ Commit(w, {}, <<>>)
    /\ doc' = IF complete THEN [doc EXCEPT ![d].status = "ready"] ELSE doc
    /\ published' = IF complete THEN published \cup {<<d, doc[d].rows>>} ELSE published
    /\ UNCHANGED <<memory, point, unsent, payload, swallowed>>

(* One "ingest" per document; documents come in the order of a list.       *)
Rebuild(w) ==
    /\ At(w, "rebuild", "called")
    /\ coll
    /\ \E batch \in {s \in [1..Cardinality(Present) -> {Job("ingest", d) : d \in Present}] :
                        \A i, k \in DOMAIN s : s[i] = s[k] => i = k} :
          Commit(w, Targets, batch)
    /\ doc' = [d \in Docs |-> IF d \in Present
                  THEN [doc[d] EXCEPT !.status = "registered", !.rows = 0]
                  ELSE doc[d]]
    /\ memory' = NoMemory
    /\ UNCHANGED <<point, unsent, payload, swallowed, published>>

(***************************************************************************)
(* Failures: the target is not there, other work is RUNNING, or the row to *)
(* update is gone at the commit.                                           *)
(***************************************************************************)
Refused(w) ==
    \/ ~seen[w].found
    \/ Type(w) = "rebuild" /\ seen[w].busy
    \/ Type(w) = "rebuild" /\ seen[w].step = "called" /\ ~coll
    \/ Type(w) \in {"ingest", "check"} /\ doc[Target(w)].status = "absent"

Refuse(w) ==
    /\ pc[w] = "execute" /\ seen[w] # Unread
    /\ Refused(w)
    /\ RaiseError(w)
    /\ Forget(w)
    /\ UNCHANGED <<corpusVars, todo>>

Asked(ask) == todo # <<>> /\ Head(todo) = ask /\ todo' = Tail(todo)

(* The embedding service does not answer, nor does a required Qdrant, and  *)
(* the exception rolls the transaction back.                               *)
Abort(w) ==
    /\ \E step \in {"read", "cleared"} : At(w, "embed_memory", step)
    /\ seen[w].step = "read" => QdrantRequired
    /\ seen[w].found
    /\ Asked("error")
    /\ RaiseError(w)
    /\ Forget(w)
    /\ UNCHANGED corpusVars

-----------------------------------------------------------------------------
(* Requests.                                                               *)
Upload(d) ==
    /\ Asked("upload")
    /\ coll /\ ~leaving
    /\ doc[d].status = "absent"
    /\ Fits(<<Job("ingest", d)>>)
    /\ Request({d}, <<Job("ingest", d)>>)
    /\ doc' = [doc EXCEPT ![d].status = "registered"]
    /\ UNCHANGED <<coll, memory, point, unsent, payload, swallowed, leaving, published, seen>>

(* ensure_pending without a payload to merge.                              *)
EnqueueMemory ==
    /\ Asked("memory")
    /\ coll /\ ~leaving
    /\ Fits(Ensure("build_memory", Collection))
    /\ Request({}, Ensure("build_memory", Collection))
    /\ UNCHANGED <<corpusVars, seen>>

RequestRebuild ==
    /\ Asked("rebuild")
    /\ coll /\ ~leaving
    /\ Fits(<<Job("rebuild", Collection)>>)
    /\ Request({}, <<Job("rebuild", Collection)>>)
    /\ UNCHANGED <<corpusVars, seen>>

(* The deletion's statements lock what they touch, then the vectors go,    *)
(* then it commits; the rows disappear for others at the commit.           *)
StartDeletion ==
    /\ Asked("delete")
    /\ coll /\ ~leaving
    /\ leaving' = TRUE
    /\ DropPoints(Docs)
    /\ UNCHANGED <<queueVars, coll, memory, unsent, payload, swallowed, published,
                   seen>>

CommitDeletion ==
    /\ leaving
    /\ leaving' = FALSE
    /\ coll' = FALSE
    /\ doc' = [d \in Docs |-> [NoDoc EXCEPT !.points = doc[d].points,
                                            !.made = doc[d].made]]
    /\ memory' = NoMemory
    /\ DeleteTargets(Targets)
    /\ UNCHANGED <<point, unsent, payload, swallowed, published, seen, todo>>

-----------------------------------------------------------------------------
Write(w) ==
    \/ BuildMemory(w) \/ EmbedMemory(w) \/ Ingest(w) \/ IngestRefused(w)
    \/ Check(w) \/ Rebuild(w) \/ Refuse(w)

Work(w) == Begin(w) \/ CallQdrant(w) \/ ClearPoint(w) \/ UpsertPoint(w) \/ Write(w)

Poll(w) == ~leaving /\ (Start(w) \/ Loop(w)) /\ UNCHANGED <<corpusVars, seen, todo>>

Break(w) ==
    \/ Abort(w)
    \/ Asked("crash") /\ Crash(w) /\ Forget(w) /\ UNCHANGED corpusVars

Time(j) == Expire(j) /\ UNCHANGED <<corpusVars, seen, todo>>

Ask ==
    \/ EnqueueMemory \/ RequestRebuild \/ StartDeletion \/ CommitDeletion
    \/ \E d \in Docs : Upload(d)

MemoryNext ==
    \/ \E w \in Workers : Poll(w) \/ Work(w) \/ Break(w)
    \/ \E j \in Ids : Time(j)
    \/ Ask

MemorySpec == MemoryInit /\ [][MemoryNext]_memoryVars

-----------------------------------------------------------------------------
(* Types; a text was made from generations that were ingested.             *)
Existing(text) == \A h \in text : h[2] \in 1..doc[h[1]].made

MemoryTypeOK ==
    /\ TypeOK
    /\ {coll, leaving, swallowed, unsent} \subseteq BOOLEAN
    /\ doc \in [Docs -> DocRow]
    /\ memory \in MemoryRow
    /\ point \in Text /\ published \in Text
    /\ payload \in [1..MaxJobs -> Payload]
    /\ Existing(memory.text) /\ Existing(point) /\ Existing(published)

Undisturbed == ~swallowed /\ requeued = {}

(* When the queue has settled, the memory is searchable: its code and its  *)
(* point are of its present text.  Excepted are an EMBED job that failed   *)
(* for good, a request that met a RUNNING EMBED job, and a recovered job;  *)
(* and the point is missing or old when an optional Qdrant lost its last   *)
(* upsert, which the memory's row does not show.                           *)
Quiet == \A j \in Ids : jobs[j].status \notin {"pending", "running"}

EmbedFailed == \E j \in Ids : Has(j, "failed") /\ jobs[j].kind.type = "embed_memory"

MemoryIsEmbedded ==
    Undisturbed /\ Quiet /\ coll /\ ~leaving /\ ~EmbedFailed /\ memory.text # {}
        => /\ memory.embedded /\ memory.code = memory.text
           /\ point = memory.text \/ (unsent /\ ~QdrantRequired)

(* After a deletion only the handlers that had begun before it can still   *)
(* write; when they have ended, nothing of the collection changes again.   *)
Stragglers == {w \in Workers : seen[w] # Unread /\ seen[w].coll}

DeletedIsInert ==
    [][~coll /\ Stragglers = {} => UNCHANGED <<doc, memory, point>>]_memoryVars

(* What the memory says was published: each document generation it was     *)
(* made from has been READY.                                               *)
MemoryOfPublished == memory.text \subseteq published

(* The collection's memory between ingestions, rebuilds and its own two    *)
(* jobs: made from published documents, and embedded as it is written.     *)
MemoryIsSound == MemoryOfPublished /\ MemoryIsEmbedded

=============================================================================
