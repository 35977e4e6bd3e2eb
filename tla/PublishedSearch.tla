--------------------------- MODULE PublishedSearch ---------------------------
(***************************************************************************)
(* A search over the corpus of CollectionMemory: the retrieval             *)
(* orchestrator checks that the collection is published, collects          *)
(* candidates from Qdrant (or from SQL when Qdrant does not answer), and   *)
(* keeps those it can rehydrate from SQL.  Each statement reads the        *)
(* database as it is at that moment, which is what PostgreSQL does; on     *)
(* SQLite the search holds the writer's lock from the insertion of its     *)
(* query row to its end, so that the later reads agree with each other.    *)
(***************************************************************************)
EXTENDS CollectionMemory

CONSTANT Searchers      \* concurrent search requests

VARIABLE search         \* where each search stands and what it has read

searchVars == <<memoryVars, search>>

Idle == [step |-> "idle", documents |-> [d \in Docs |-> "absent"],
         chunks |-> {}, summaries |-> {}, memory |-> {}]

SearchStep == {"idle", "listed", "checked", "retrieved", "chunks", "done", "refused"}

SearchInit == MemoryInit /\ search = [s \in Searchers |-> Idle]

Advance(s, from, to) == search[s].step = from /\ search' = [search EXCEPT ![s] = to]

ListDocuments(s) ==
    /\ Asked("search")
    /\ Advance(s, "idle", [Idle EXCEPT
          !.step = IF coll THEN "listed" ELSE "refused",
          !.documents = [d \in Docs |-> doc[d].status]])
    /\ UNCHANGED <<queueVars, corpusVars, seen>>

ReadyIds(documents) == {d \in Docs : documents[d] = "ready"}

(***************************************************************************)
(* CollectionPublicationPolicy.evaluate: no rebuild is active, no document *)
(* is in transition, and at least one is READY.                            *)
(***************************************************************************)
Publishable(documents) ==
    /\ ActiveJobs("rebuild", Collection) = {}
    /\ \A d \in Docs : documents[d] \in {"absent", "ready", "failed"}
    /\ ReadyIds(documents) # {}

CheckPublication(s) ==
    /\ Advance(s, "listed", [search[s] EXCEPT
          !.step = IF Publishable(search[s].documents) THEN "checked" ELSE "refused"])
    /\ UNCHANGED memoryVars

(* Candidates.  Qdrant's may be of any generation whose points are there;  *)
(* the local fallback scores the rows of the collection.                   *)
Points == {<<d, g>> : d \in Docs, g \in UNION {doc[d].points : d \in Docs}}

QdrantHits == {h \in Points : h[2] \in doc[h[1]].points}
LocalHits  == {<<d, doc[d].rows>> : d \in {c \in Docs : doc[c].rows > 0}}

Retrieve(s) ==
    /\ \/ Advance(s, "checked", [search[s] EXCEPT !.step = "retrieved",
              !.chunks = QdrantHits, !.summaries = QdrantHits, !.memory = point])
       \/ Advance(s, "checked", [search[s] EXCEPT !.step = "retrieved",
              !.chunks = LocalHits, !.summaries = LocalHits, !.memory = memory.text])
    /\ UNCHANGED memoryVars

Rehydrated(hits) == {h \in hits : doc[h[1]].rows = h[2]}

(* Mutant of PublishedChunks: the row is enough, whatever its document.    *)
AnyChunks(hits) == Rehydrated(hits)

(* Chunks and propositions: the row is there and its document is READY now. *)
PublishedChunks(hits) == {h \in Rehydrated(hits) : doc[h[1]].status = "ready"}

ValidateChunks(s) ==
    /\ Advance(s, "retrieved", [search[s] EXCEPT
          !.step = "chunks", !.chunks = PublishedChunks(search[s].chunks)])
    /\ UNCHANGED memoryVars

(* Summaries: the row is there and the document was READY at the check;    *)
(* the collection's summary comes with the text it has now.                *)
ValidateSummaries(s) ==
    /\ Advance(s, "chunks", [search[s] EXCEPT
          !.step = "done",
          !.summaries = {h \in Rehydrated(search[s].summaries) :
                            h[1] \in ReadyIds(search[s].documents)},
          !.memory = IF search[s].memory = {} THEN {} ELSE memory.text])
    /\ UNCHANGED memoryVars

SearchNext ==
    \/ MemoryNext /\ UNCHANGED search
    \/ \E s \in Searchers :
          \/ ListDocuments(s) \/ CheckPublication(s) \/ Retrieve(s)
          \/ ValidateChunks(s) \/ ValidateSummaries(s)

SearchSpec == SearchInit /\ [][SearchNext]_searchVars

-----------------------------------------------------------------------------
(* Types; what a search holds are generations of documents that were made. *)
SearchTypeOK ==
    /\ MemoryTypeOK
    /\ search \in [Searchers -> [step : SearchStep,
                                 documents : [Docs -> DocStatuses],
                                 chunks : Text, summaries : Text, memory : Text]]
    /\ \A s \in Searchers : Existing(search[s].chunks)

(* Whatever rebuilds, repeated ingestions and deletions do while a search  *)
(* runs: its chunks, and the generations behind the collection summary it  *)
(* cites, have all been published; stale points never reach the evidence.  *)
EvidenceWasPublished ==
    \A s \in Searchers : search[s].step = "done"
        => search[s].chunks \subseteq published /\ search[s].memory \subseteq published

(* A search holds generations that exist, and hands out published ones.    *)
EvidenceIsSound == SearchTypeOK /\ EvidenceWasPublished

=============================================================================
