----------------------------- MODULE RepoIndex -----------------------------
(***************************************************************************)
(* The repository context index (repo_context/): `atenex-context index`    *)
(* scans a working tree that is being edited, publishes a generation in    *)
(* the SQLite sidecar and projects its chunks into Qdrant, while servers   *)
(* and one-shot commands answer queries about the active generation.       *)
(*                                                                         *)
(* A file is a number, its place in the sorted inventory, and a version; a *)
(* snapshot or a generation is the set of such pairs.  A chunk is a pair   *)
(* too: what is extracted from a file is a function of its content.        *)
(*                                                                         *)
(* Every reading of one file is a step of its own, and so is each SELECT,  *)
(* commit and Qdrant call.  The transaction that builds a generation is    *)
(* invisible until it commits; it shows here as the state of its writer.   *)
(***************************************************************************)
EXTENDS Naturals, Sequences, FiniteSets

CONSTANTS
    Writers,        \* processes that run `atenex-context index`
    Readers,        \* processes that answer queries
    NumFiles,       \* files that ever exist
    Tracked,        \* those git lists even when they are deleted
    MaxAttempts,    \* max_capture_attempts of the scanner
    MaxEdits,       \* bound on the edits of the working tree
    MaxFull,        \* bound on the runs with --full
    MaxFaults,      \* bound on index runs that crash or fail on Qdrant/Ollama
    MaxReads,       \* bound on the reads of a query
    MaxRemovals     \* bound on the times the sidecar is deleted by hand

Files == 1..NumFiles

ASSUME RepoAssumption ==
    /\ NumFiles \in Nat
    /\ Tracked \subseteq Files
    /\ MaxAttempts \in Nat \ {0}
    /\ MaxEdits \in Nat /\ MaxFull \in Nat /\ MaxFaults \in Nat
    /\ MaxReads \in Nat /\ MaxRemovals \in Nat

VARIABLES
    tree,       \* the working tree: the version of each file, 0 if absent
    edits, fulls, faults, removals,     \* counters for the bounds
    gens,       \* content of every generation committed, by id
    kept,       \* ids whose rows have not been pruned
    active,     \* metadata.active_generation, 0 if none
    points,     \* Qdrant: pairs of a generation id and a chunk
    manifests,  \* Qdrant: ids with a completeness manifest
    wpc, run,   \* where each index run stands, and its local state
    rpc, query, \* where each reader stands, and its query
    cache,      \* the edge cache of each reader
    moments     \* history: the trees there were during the current run

fileVars   == <<tree, edits, moments>>
indexVars  == <<gens, kept, active>>
qdrantVars == <<points, manifests>>
writerVars == <<wpc, run, fulls, faults>>
readerVars == <<rpc, query, cache>>
repoVars   == <<fileVars, indexVars, qdrantVars, writerVars, readerVars, removals>>

Row == Files \X Nat

Rows(t)     == {<<f, t[f]>> : f \in {g \in Files : t[g] # 0}}
Of(rows, s) == {p \in rows : p[1] \in s}
Paths(rows) == {p[1] : p \in rows}
First(s)    == CHOOSE f \in s : \A g \in s : f <= g

Stored(id)   == IF id \in kept THEN gens[id] ELSE {}     \* SELECT ... WHERE generation_id
PointsOf(id) == {p[2] : p \in {x \in points : x[1] = id}}

NoRun   == [inventory |-> {}, unread |-> {}, got |-> {}, tries |-> 0,
            full |-> FALSE, building |-> FALSE, snapshot |-> {},
            target |-> 0, chunks |-> {}, left |-> {}]
NoQuery == [gen |-> 0, resolved |-> 0, label |-> 0, parts |-> {}]
NoCache == [label |-> 0, edges |-> {}]

-----------------------------------------------------------------------------
RepoInit ==
    /\ tree \in [Files -> {0, 1}]
    /\ edits = 0 /\ fulls = 0 /\ faults = 0 /\ removals = 0
    /\ gens = <<>> /\ kept = {} /\ active = 0
    /\ points = {} /\ manifests = {}
    /\ wpc = [w \in Writers |-> "idle"]
    /\ run = [w \in Writers |-> NoRun]
    /\ rpc = [r \in Readers |-> "down"]
    /\ query = [r \in Readers |-> NoQuery]
    /\ cache = [r \in Readers |-> NoCache]
    /\ moments = {}

NoWriter == \A w \in Writers : wpc[w] = "idle"

(* Somebody edits a file: a content never seen before, or none.            *)
Edit(f) ==
    /\ edits < MaxEdits
    /\ edits' = edits + 1
    /\ \E version \in {0, edits + 2} :
         version # tree[f] /\ tree' = [tree EXCEPT ![f] = version]
    /\ moments' = IF NoWriter THEN {} ELSE moments \cup {Rows(tree')}
    /\ UNCHANGED <<indexVars, qdrantVars, writerVars, readerVars, removals>>

-----------------------------------------------------------------------------
(* The index run.  A run ends, whatever the reason, with its lock released *)
(* and its transaction rolled back or committed.                           *)
End(w) == wpc' = [wpc EXCEPT ![w] = "idle"] /\ run' = [run EXCEPT ![w] = NoRun]

Go(w, step, state) ==
    wpc' = [wpc EXCEPT ![w] = step] /\ run' = [run EXCEPT ![w] = state]

(* repository_writer_lock: flock on the sidecar's lock file.               *)
Acquire(w) ==
    /\ NoWriter
    /\ \E full \in BOOLEAN :
         /\ full => fulls < MaxFull
         /\ fulls' = IF full THEN fulls + 1 ELSE fulls
         /\ Go(w, "list", [NoRun EXCEPT !.full = full])
    /\ moments' = {Rows(tree)}
    /\ UNCHANGED <<tree, edits, faults, indexVars, qdrantVars, readerVars, removals>>

Quiet == UNCHANGED <<fileVars, indexVars, qdrantVars, fulls, faults, readerVars, removals>>

(* GitRepositoryScanner._capture_once: list, read each file, list again,   *)
(* read each file that was found once more.                                *)
Inventory == Tracked \cup Paths(Rows(tree))

List(w) ==
    /\ wpc[w] = "list"
    /\ Go(w, "read", [run[w] EXCEPT !.inventory = Inventory, !.unread = Inventory,
                                    !.got = {}])
    /\ Quiet

ReadFile(w) ==
    /\ wpc[w] = "read"
    /\ run[w].unread # {}
    /\ LET f == First(run[w].unread) IN
         Go(w, "read", [run[w] EXCEPT !.unread = @ \ {f},
                                      !.got = @ \cup Of(Rows(tree), {f})])
    /\ Quiet

(* The capture is repeated; the run fails when that has been done too often.*)
Repeat(w) ==
    IF run[w].tries + 1 < MaxAttempts
    THEN Go(w, "list", [run[w] EXCEPT !.tries = @ + 1])
    ELSE End(w)

ListAgain(w) ==
    /\ wpc[w] = "read"
    /\ run[w].unread = {}
    /\ IF Inventory = run[w].inventory
       THEN Go(w, "revalidate", [run[w] EXCEPT !.unread = Paths(run[w].got)])
       ELSE Repeat(w)
    /\ Quiet

Revalidate(w) ==
    /\ wpc[w] = "revalidate"
    /\ run[w].unread # {}
    /\ LET f == First(run[w].unread) IN
         IF Of(Rows(tree), {f}) = Of(run[w].got, {f})
         THEN Go(w, "revalidate", [run[w] EXCEPT !.unread = @ \ {f}])
         ELSE Repeat(w)
    /\ Quiet

Captured(w) == wpc[w] = "revalidate" /\ run[w].unread = {}

(* IndexRepositoryService.execute after the first capture: an unchanged    *)
(* snapshot publishes nothing, but its projection is looked after.         *)
Current(w) == active # 0 /\ gens[active] = run[w].got

Reuse(w) ==
    /\ Captured(w) /\ ~run[w].building
    /\ ~run[w].full /\ Current(w)
    /\ Go(w, "project", [run[w] EXCEPT !.target = active])
    /\ Quiet

(* BEGIN IMMEDIATE, all rows of the new generation, and a second capture.  *)
Build(w) ==
    /\ Captured(w) /\ ~run[w].building
    /\ run[w].full \/ ~Current(w)
    /\ \A v \in Writers : ~run[v].building
    /\ Go(w, "list", [NoRun EXCEPT !.full = run[w].full, !.building = TRUE,
                                   !.snapshot = run[w].got])
    /\ Quiet

Discard(w) ==
    /\ Captured(w) /\ run[w].building
    /\ run[w].got # run[w].snapshot
    /\ End(w)
    /\ Quiet

(* _prune_generations(keep_inactive=1), the new generation being active.   *)
Remaining(id) ==
    LET older == kept \ {id} IN
    {id} \cup {k \in older : \A j \in older : j <= k}

(* Mutant of Activate: the second capture is not compared with the first.  *)
ActivateUnvalidated(w) ==
    LET id == Len(gens) + 1 IN
    /\ Captured(w) /\ run[w].building
    /\ gens' = Append(gens, run[w].snapshot)
    /\ kept' = Remaining(id)
    /\ active' = id
    /\ Go(w, "project", [NoRun EXCEPT !.target = id])
    /\ UNCHANGED <<fileVars, qdrantVars, fulls, faults, readerVars, removals>>

(* One commit: the old generation becomes complete, the new one active,    *)
(* and all but one of the others are deleted.                              *)
Activate(w) ==
    LET id == Len(gens) + 1 IN
    /\ Captured(w) /\ run[w].building
    /\ run[w].got = run[w].snapshot
    /\ gens' = Append(gens, run[w].snapshot)
    /\ kept' = Remaining(id)
    /\ active' = id
    /\ Go(w, "project", [NoRun EXCEPT !.target = id])
    /\ UNCHANGED <<fileVars, qdrantVars, fulls, faults, readerVars, removals>>

(* ready_for: the manifest is looked up by repository and generation id.   *)
Ready(id) == id \in manifests

(* Mutant of Project: only the run that publishes a generation projects it.*)
ProjectNewOnly(w) ==
    /\ wpc[w] = "project"
    /\ IF Ready(run[w].target) \/ run[w].inventory # {}
       THEN End(w)
       ELSE Go(w, "upload", [run[w] EXCEPT !.chunks = Stored(active),
                                           !.left = Stored(active)])
    /\ Quiet

(* SemanticCoordinator.build, unless the generation is ready: all_chunks   *)
(* reads those of the active generation.                                   *)
Project(w) ==
    /\ wpc[w] = "project"
    /\ IF Ready(run[w].target)
       THEN End(w)
       ELSE Go(w, "upload", [run[w] EXCEPT !.chunks = Stored(active),
                                           !.left = Stored(active)])
    /\ Quiet

Upload(w) ==
    /\ wpc[w] = "upload"
    /\ \E c \in run[w].left :
         /\ points' = points \cup {<<run[w].target, c>>}
         /\ Go(w, "upload", [run[w] EXCEPT !.left = @ \ {c}])
    /\ UNCHANGED <<fileVars, indexVars, manifests, fulls, faults, readerVars, removals>>

(* Mutant of Finalize: the manifest does not wait for the last upload.     *)
FinalizeEarly(w) ==
    /\ wpc[w] = "upload"
    /\ manifests' = IF run[w].chunks = {} THEN manifests
                    ELSE manifests \cup {run[w].target}
    /\ End(w)
    /\ UNCHANGED <<fileVars, indexVars, points, fulls, faults, readerVars, removals>>

(* finalize: no manifest for a generation without chunks (vector_size 0).  *)
Finalize(w) ==
    /\ wpc[w] = "upload"
    /\ run[w].left = {}
    /\ manifests' = IF run[w].chunks = {} THEN manifests
                    ELSE manifests \cup {run[w].target}
    /\ End(w)
    /\ UNCHANGED <<fileVars, indexVars, points, fulls, faults, readerVars, removals>>

(* The process dies, or Qdrant or Ollama does not answer.                  *)
Stop(w) ==
    /\ wpc[w] # "idle"
    /\ faults < MaxFaults
    /\ faults' = faults + 1
    /\ End(w)
    /\ UNCHANGED <<fileVars, indexVars, qdrantVars, fulls, readerVars, removals>>

(* docs/indexing-and-storage.md: the sidecar may be deleted by hand while  *)
(* no server is running; Qdrant keeps its collections.                     *)
RemoveSidecar ==
    /\ active # 0 /\ removals < MaxRemovals
    /\ removals' = removals + 1
    /\ NoWriter /\ \A r \in Readers : rpc[r] = "down"
    /\ gens' = <<>> /\ kept' = {} /\ active' = 0
    /\ UNCHANGED <<fileVars, qdrantVars, writerVars, readerVars>>

-----------------------------------------------------------------------------
(* Readers.  A server starts when the active generation is ready; a        *)
(* one-shot command asks right away, in a process of its own (which the    *)
(* model lets live on as a server would).                                  *)
Reads(r, state) == query' = [query EXCEPT ![r] = state]

Calm == UNCHANGED <<fileVars, indexVars, qdrantVars, writerVars, removals>>

Serve(r) ==
    /\ rpc[r] = "down"
    /\ active # 0 /\ Ready(active)
    /\ rpc' = [rpc EXCEPT ![r] = "idle"]
    /\ UNCHANGED <<query, cache>> /\ Calm

Exit(r) ==
    /\ rpc[r] # "down"
    /\ rpc' = [rpc EXCEPT ![r] = "down"]
    /\ Reads(r, NoQuery)
    /\ cache' = [cache EXCEPT ![r] = NoCache]
    /\ Calm

(* _require_generation.                                                    *)
Ask(r) ==
    /\ rpc[r] \in {"down", "idle"}
    /\ active # 0
    /\ rpc' = [rpc EXCEPT ![r] = "asking"]
    /\ Reads(r, [NoQuery EXCEPT !.gen = active])
    /\ UNCHANGED cache /\ Calm

(* Each read of the index asks for the active id first (_active_id) ...    *)
Resolve(r) ==
    /\ rpc[r] = "asking"
    /\ Cardinality(query[r].parts) < MaxReads
    /\ Reads(r, [query[r] EXCEPT !.resolved = active])
    /\ UNCHANGED <<rpc, cache>> /\ Calm

(* ... and then for rows under that id, in one or several SELECTs.         *)
Part(files, rows) == [files |-> files, rows |-> rows]

Fetch(r) ==
    /\ rpc[r] = "asking"
    /\ query[r].resolved # 0 /\ query[r].label = 0
    /\ \E f \in Files :
         Reads(r, [query[r] EXCEPT
             !.parts = @ \cup {Part({f}, Of(Stored(query[r].resolved), {f}))}])
    /\ UNCHANGED <<rpc, cache>> /\ Calm

(* _all_graph_edges: the whole graph, cached per process and labelled with *)
(* the generation that was active before it was read.                      *)
CachedEdges(r) ==
    /\ rpc[r] = "asking" /\ query[r].label = 0
    /\ IF cache[r].label = active
       THEN Reads(r, [query[r] EXCEPT !.parts = @ \cup {Part(Files, cache[r].edges)}])
       ELSE Reads(r, [query[r] EXCEPT !.label = active, !.resolved = 0])
    /\ UNCHANGED <<rpc, cache>> /\ Calm

LoadEdges(r) ==
    /\ rpc[r] = "asking"
    /\ query[r].label # 0 /\ query[r].resolved # 0
    /\ LET edges == Stored(query[r].resolved) IN
         /\ cache' = [cache EXCEPT ![r] = [label |-> query[r].label, edges |-> edges]]
         /\ Reads(r, [query[r] EXCEPT !.label = 0,
                                      !.parts = @ \cup {Part(Files, edges)}])
    /\ UNCHANGED rpc /\ Calm

(* Mutant of Reply: the active id is not looked at again.                  *)
ReplyUnchecked(r) ==
    /\ rpc[r] = "asking" /\ query[r].label = 0
    /\ rpc' = [rpc EXCEPT ![r] = "answered"]
    /\ UNCHANGED <<query, cache>> /\ Calm

(* _envelope: the answer is given only if the generation is still active.  *)
Reply(r) ==
    /\ rpc[r] = "asking" /\ query[r].label = 0
    /\ active = query[r].gen
    /\ rpc' = [rpc EXCEPT ![r] = "answered"]
    /\ UNCHANGED <<query, cache>> /\ Calm

Reject(r) ==
    /\ rpc[r] = "asking" /\ query[r].label = 0
    /\ active # query[r].gen
    /\ rpc' = [rpc EXCEPT ![r] = "idle"]
    /\ Reads(r, NoQuery)
    /\ UNCHANGED cache /\ Calm

Done(r) ==
    /\ rpc[r] = "answered"
    /\ rpc' = [rpc EXCEPT ![r] = "idle"]
    /\ Reads(r, NoQuery)
    /\ UNCHANGED cache /\ Calm

-----------------------------------------------------------------------------
Capture(w) == List(w) \/ ReadFile(w) \/ ListAgain(w) \/ Revalidate(w)

Publish(w) == Reuse(w) \/ Build(w) \/ Discard(w) \/ Activate(w)

Projection(w) == Project(w) \/ Upload(w) \/ Finalize(w)

Index(w) == Capture(w) \/ Publish(w) \/ Projection(w)

Session(r) == Serve(r) \/ Exit(r) \/ Ask(r) \/ Reply(r) \/ Reject(r) \/ Done(r)

Lookup(r) == Resolve(r) \/ Fetch(r) \/ CachedEdges(r) \/ LoadEdges(r)

RepoNext ==
    \/ \E f \in Files : Edit(f)
    \/ \E w \in Writers : Acquire(w) \/ Index(w) \/ Stop(w)
    \/ \E r \in Readers : Session(r) \/ Lookup(r)
    \/ RemoveSidecar

RepoSpec == RepoInit /\ [][RepoNext]_repoVars

(* `index` is run again and again and its runs come to an end; nothing is  *)
(* asked of readers, editors or faults.                                    *)
RepoFairness ==
    /\ WF_repoVars(\E w \in Writers : Acquire(w))
    /\ \A w \in Writers : WF_repoVars(Index(w))

FairRepoSpec == RepoSpec /\ RepoFairness

-----------------------------------------------------------------------------
(* Types; ids that are referred to belong to generations committed.        *)
Rowset == SUBSET Row

RunRow == [inventory : SUBSET Files, unread : SUBSET Files, got : Rowset, tries : Nat,
           full : BOOLEAN, building : BOOLEAN, snapshot : Rowset,
           target : Nat, chunks : Rowset, left : Rowset]

PartRow == [files : SUBSET Files, rows : Rowset]

QueryRow == [gen : Nat, resolved : Nat, label : Nat, parts : SUBSET PartRow]

RepoTypeOK ==
    /\ tree \in [Files -> Nat]
    /\ edits \in Nat /\ fulls \in Nat /\ faults \in Nat /\ removals \in Nat
    /\ gens \in Seq(Rowset)
    /\ kept \subseteq DOMAIN gens
    /\ active = Len(gens)
    /\ active # 0 => active \in kept
    /\ points \subseteq Nat \X Row
    /\ manifests \subseteq Nat
    /\ wpc \in [Writers -> {"idle", "list", "read", "revalidate", "project", "upload"}]
    /\ run \in [Writers -> RunRow]
    /\ rpc \in [Readers -> {"down", "idle", "asking", "answered"}]
    /\ query \in [Readers -> QueryRow]
    /\ cache \in [Readers -> [label : Nat, edges : Rowset]]
    /\ moments \subseteq Rowset

(* An answer is about the one generation it names: whatever was read for   *)
(* it, from the database or from the edge cache, is what that generation   *)
(* holds, although it was replaced or pruned by index runs meanwhile.      *)
OneGenerationPerAnswer ==
    \A r \in Readers : rpc[r] = "answered" =>
        \A p \in query[r].parts : p.rows = Of(gens[query[r].gen], p.files)

(* The manifest is believed: where there is one, every chunk of the active *)
(* generation has its vector, whenever runs crash or overlap with readers, *)
(* as long as nobody has removed the sidecar by hand.                      *)
ReadyIsProjected ==
    removals = 0 /\ active # 0 /\ Ready(active) => gens[active] \subseteq PointsOf(active)

(* What becomes active is a state the working tree was in during the run,  *)
(* never a mixture of states, provided no file takes back an old content.  *)
PublishedWasReal ==
    [][active' # active /\ active' # 0 => gens'[active'] \in moments']_repoVars

(* When edits cease, repeated runs bring the index up to the tree and have *)
(* it projected, whatever crashed before.                                  *)
UpToDate ==
    /\ active # 0 /\ gens[active] = Rows(tree)
    /\ gens[active] # {} => Ready(active)

IndexCatchesUp == <>[]UpToDate
=============================================================================
