----------------------------- MODULE MCDocuments -----------------------------
(* Stories of the pipeline that share a run.  A story says which requests  *)
(* are made and what goes wrong; the handlers are always all there.  One   *)
(* story looks into SEGMENT instead: how it makes chunks of a text.        *)
EXTENDS DocumentPipeline, MCChunking

CONSTANTS
    First,          \* the document of the stories about one document
    Wordless,          \* the document of the story "textless"
    Stories         \* subset of {"faults", "pair", "rebuilds", "repairs",
                    \* "textless", "chunks"}

VARIABLE story

storyVars == <<pipelineVars, chunkVars, story>>

Working ==
    \/ \E w \in Workers : Poll(w) \/ Work(w) \/ Break(w)
    \/ \E j \in Ids : (Expire(j) \/ Outlive(j)) /\ UNCHANGED docVars

NothingBreaks == errors' = errors /\ faults' = faults

Failing(types) == \E w \in Workers : pc[w] = "execute" /\ Type(w) \in types /\ pc'[w] = "fail"

Swallowing == \E w \in Workers : MissQdrant(w)

(* One upload; a crash or a lost commit, and two failing calls.            *)
Faults == (Working \/ Register(First)) /\ requests' <= 1

(* Two documents, uploaded, one of them registered again, or rebuilt;      *)
(* nothing fails.                                                          *)
Registration == \E d \in Docs : (d = First \/ doc[d].status = "absent") /\ Register(d)

Pair == (Working \/ RequestRebuild \/ Registration) /\ NothingBreaks

Upload(d) == doc[d].status = "absent" /\ Register(d)

(* An upload and two rebuilds; one call fails where it makes a difference, *)
(* or one call to Qdrant is swallowed.                                     *)
Rebuilds ==
    /\ Working \/ Upload(First) \/ RequestRebuild
    /\ \/ NothingBreaks
       \/ /\ errors = 0 /\ faults' = faults
          /\ Swallowing \/ Failing({"parse", "embed", "embed_propositions", "embed_summaries",
                                   "visual", "rebuild"})

(* An upload of a document without text and a rebuild; a call fails.       *)
Emptiness ==
    /\ Working \/ Upload(Wordless) \/ RequestRebuild
    /\ faults' = faults
    /\ NothingBreaks \/ errors = 0

(* An upload and two repairs or rebuilds; one job that computes a layer   *)
(* fails for good: no request comes between its two attempts.              *)
FailedOnce ==
    errors = 1 /\ \E j \in Ids : jobs[j].retries = 1 /\ jobs[j].status \in {"pending", "running"}

Mending ==
    /\ Working \/ Upload(First) \/ RequestRebuild \/ Resume(First)
    /\ FailedOnce => requests' = requests /\ \A w \in Workers : pc'[w] # "succeed"
    /\ \/ NothingBreaks
       \/ errors = 0 /\ faults' = faults /\ Swallowing
       \/ /\ errors = 0 \/ FailedOnce
          /\ Failing({"embed", "extract", "embed_propositions", "summarize",
                      "embed_summaries", "graph", "visual"}) /\ faults' = faults

StoriesInit ==
    /\ PipelineInit /\ story \in Stories
    /\ IF story = "chunks" THEN ChunkInit
       ELSE tree = <<>> /\ segments = <<>> /\ joined = 0 /\ parts = <<>> /\ chunks = <<>> /\ next = 1

StoriesNext ==
    /\ \/ story = "faults"   /\ Faults /\ UNCHANGED chunkVars
       \/ story = "pair"     /\ Pair /\ UNCHANGED chunkVars
       \/ story = "rebuilds" /\ Rebuilds /\ UNCHANGED chunkVars
       \/ story = "repairs"  /\ Mending /\ UNCHANGED chunkVars
       \/ story = "textless" /\ Emptiness /\ UNCHANGED chunkVars
       \/ story = "chunks"   /\ ChunkNext /\ UNCHANGED pipelineVars
    /\ UNCHANGED story

StoriesSpec == StoriesInit /\ [][StoriesNext]_storyVars

Rebuilding(act) == story \in {"rebuilds", "textless"} /\ act /\ UNCHANGED <<chunkVars, story>>

FairStoriesSpec ==
    /\ StoriesSpec
    /\ \A w \in Workers : /\ WF_storyVars(Rebuilding(Poll(w)))
                          /\ WF_storyVars(Rebuilding(Work(w)))
    /\ \A j \in 1..MaxJobs :
          WF_storyVars(Rebuilding(j \in Ids /\ Expire(j) /\ UNCHANGED docVars))

-----------------------------------------------------------------------------
(* Without failures no complete document is forgotten, although documents  *)
(* and repeated registrations share the queue.                             *)
PairIsNotForgotten == story = "pair" => NothingIsForgotten

(* Under crashes and failing calls the stored status moves along the table *)
(* of valid transitions; a repeated registration makes jumps it has not.   *)
FaultsFollowTable == [][story = "faults" => FollowsTable]_storyVars

(* Rebuilds and a failing call strand no document (a resume may), and no   *)
(* stage is queued twice.                                                  *)
RebuildStrandsNone == story \in {"rebuilds", "textless"} => RegisteredIsQueued
QueueFitsStatus    == OnePendingPerStage /\ RebuildStrandsNone
RebuildsArrive     == story \in {"rebuilds", "textless"} => EveryDocumentArrives
=============================================================================
