-------------------------- MODULE RepoIndexProofs --------------------------
(***************************************************************************)
(* Proofs about RepoIndex and about CodeGraph, the code graph inside a     *)
(* generation.  For any number of index processes, readers, files, edits   *)
(* and generations: types, that an answer never mixes generations, and     *)
(* that a manifest is only written when all chunks are there.  For any set *)
(* of sources, contents and questions: that the stored graph is sound and  *)
(* that a walk reports exactly what lies in its depth.                     *)
(***************************************************************************)
EXTENDS RepoIndex, CodeGraph, ListTheorems

-----------------------------------------------------------------------------
(* Types.                                                                  *)

(* The helpers on sets of rows, and the initial values.                    *)
LEMMA RowsAreTyped ==
    /\ \A t \in [Files -> Nat] : Rows(t) \in Rowset
    /\ \A s : \A rows \in Rowset : Of(rows, s) \in Rowset
    /\ \A rows \in Rowset : Paths(rows) \in SUBSET Files /\ Of(rows, Files) = rows
    /\ NoRun \in RunRow /\ NoQuery \in QueryRow
    /\ NoCache \in [label : Nat, edges : Rowset]
<1>1. \A t \in [Files -> Nat] : Rows(t) \in Rowset
  BY DEF Rows, Rowset, Row
<1>2. \A s : \A rows \in Rowset : Of(rows, s) \in Rowset
  BY DEF Of, Rowset
<1>3. \A rows \in Rowset : Paths(rows) \in SUBSET Files /\ Of(rows, Files) = rows
  BY DEF Paths, Of, Rowset, Row
<1>4. NoRun \in RunRow /\ NoQuery \in QueryRow /\ NoCache \in [label : Nat, edges : Rowset]
  BY DEF NoRun, NoQuery, NoCache, RunRow, QueryRow, Rowset
<1> QED
  BY <1>1, <1>2, <1>3, <1>4

(* What Stored reads is typed; the active generation is read whole.        *)
LEMMA StoredIsTyped ==
    ASSUME RepoTypeOK
    PROVE  /\ \A id : Stored(id) \in Rowset
           /\ active # 0 => Stored(active) = gens[active] /\ gens[active] \in Rowset
<1>1. \A id \in kept : gens[id] \in Rowset
  BY DEF RepoTypeOK
<1> QED
  BY <1>1 DEF Stored, Rowset, RepoTypeOK

Working == {"list", "read", "revalidate", "project", "upload"}

(* The two ways in which an action of a writer changes its local state.    *)
LEMMA GoIsTyped ==
    ASSUME RepoTypeOK, NEW w \in Writers, NEW step \in Working, NEW state \in RunRow,
           Go(w, step, state)
    PROVE  /\ wpc' \in [Writers -> {"idle"} \cup Working]
           /\ run' \in [Writers -> RunRow]
BY DEF Go, RepoTypeOK, Working

(* A run that ends has the initial local state.                            *)
LEMMA EndIsTyped ==
    ASSUME RepoTypeOK, NEW w \in Writers, End(w)
    PROVE  /\ wpc' \in [Writers -> {"idle"} \cup Working]
           /\ run' \in [Writers -> RunRow]
BY RowsAreTyped DEF End, RepoTypeOK, Working

WriterTyped ==
    /\ wpc \in [Writers -> {"idle"} \cup Working]
    /\ run \in [Writers -> RunRow]

(* The steps of a run that change nothing but its own state.               *)
LEMMA QuietKeepsTypes ==
    ASSUME RepoTypeOK, Quiet, qdrantVars' = qdrantVars, WriterTyped'
    PROVE  RepoTypeOK'
BY DEF RepoTypeOK, Quiet, WriterTyped, Working, fileVars, indexVars, qdrantVars, readerVars

(* The steps of a capture of the working tree.                             *)
LEMMA CaptureKeepsTypes ==
    ASSUME RepoTypeOK, NEW w \in Writers, Capture(w)
    PROVE  RepoTypeOK'
<1>1. /\ run[w] \in RunRow
      /\ Rows(tree) \in Rowset
      /\ Inventory \in SUBSET Files
  BY RowsAreTyped, RepoAssumption DEF RepoTypeOK, Inventory
<1>2. ASSUME Repeat(w) PROVE WriterTyped'
  <2>1. [run[w] EXCEPT !.tries = @ + 1] \in RunRow
    BY <1>1 DEF RunRow
  <2> QED
    BY <1>2, <2>1, GoIsTyped, EndIsTyped DEF Repeat, WriterTyped, Working
<1>3. CASE List(w)
  <2>1. [run[w] EXCEPT !.inventory = Inventory, !.unread = Inventory, !.got = {}] \in RunRow
    BY <1>1 DEF RunRow, Rowset
  <2> QED
    BY <1>3, <2>1, GoIsTyped, QuietKeepsTypes DEF List, WriterTyped, Working, Quiet
<1>4. CASE ReadFile(w)
  <2> DEFINE f == First(run[w].unread)
  <2>1. Of(Rows(tree), {f}) \in Rowset
    BY <1>1, RowsAreTyped
  <2>2. [run[w] EXCEPT !.unread = @ \ {f}, !.got = @ \cup Of(Rows(tree), {f})] \in RunRow
    BY <1>1, <2>1 DEF RunRow, Rowset
  <2> QED
    BY <1>4, <2>2, GoIsTyped, QuietKeepsTypes DEF ReadFile, WriterTyped, Working, Quiet
<1>5. CASE ListAgain(w)
  <2>1. Paths(run[w].got) \in SUBSET Files
    BY <1>1, RowsAreTyped DEF RunRow
  <2>2. [run[w] EXCEPT !.unread = Paths(run[w].got)] \in RunRow
    BY <1>1, <2>1 DEF RunRow
  <2> QED
    BY <1>5, <1>2, <2>2, GoIsTyped, QuietKeepsTypes DEF ListAgain, WriterTyped, Working, Quiet
<1>6. CASE Revalidate(w)
  <2> DEFINE f == First(run[w].unread)
  <2>1. [run[w] EXCEPT !.unread = @ \ {f}] \in RunRow
    BY <1>1 DEF RunRow
  <2> QED
    BY <1>6, <1>2, <2>1, GoIsTyped, QuietKeepsTypes DEF Revalidate, WriterTyped, Working, Quiet
<1> QED
  BY <1>3, <1>4, <1>5, <1>6 DEF Capture

(* The end of a capture: reuse, build, discard or activate.                *)
LEMMA PublishKeepsTypes ==
    ASSUME RepoTypeOK, NEW w \in Writers, Publish(w)
    PROVE  RepoTypeOK'
<1>1. run[w] \in RunRow /\ active \in Nat
  <2>1. Len(gens) \in Nat
    BY DEF RepoTypeOK
  <2> QED
    BY <2>1 DEF RepoTypeOK
<1>2. CASE Reuse(w)
  <2>1. [run[w] EXCEPT !.target = active] \in RunRow
    BY <1>1 DEF RunRow
  <2> QED
    BY <1>2, <2>1, GoIsTyped, QuietKeepsTypes DEF Reuse, WriterTyped, Working, Quiet
<1>3. CASE Build(w)
  <2>1. [NoRun EXCEPT !.full = run[w].full, !.building = TRUE,
                      !.snapshot = run[w].got] \in RunRow
    BY <1>1 DEF RunRow, NoRun, Rowset
  <2> QED
    BY <1>3, <2>1, GoIsTyped, QuietKeepsTypes DEF Build, WriterTyped, Working, Quiet
<1>4. CASE Discard(w)
  BY <1>4, EndIsTyped, QuietKeepsTypes DEF Discard, WriterTyped, Quiet
<1>5. CASE Activate(w)
  <2> DEFINE id == Len(gens) + 1
  <2>1. run[w].snapshot \in Rowset /\ gens \in Seq(Rowset)
    BY <1>1 DEF RunRow, RepoTypeOK
  <2>2. /\ gens' = Append(gens, run[w].snapshot)
        /\ kept' = Remaining(id) /\ active' = id
        /\ Go(w, "project", [NoRun EXCEPT !.target = id])
        /\ UNCHANGED <<fileVars, qdrantVars, fulls, faults, readerVars, removals>>
    BY <1>5 DEF Activate
  <2>3. /\ gens' \in Seq(Rowset) /\ Len(gens') = id
        /\ DOMAIN gens' = DOMAIN gens \cup {id}
    BY <2>1, <2>2
  <2>4. kept' \subseteq DOMAIN gens' /\ id \in kept'
    BY <2>2, <2>3 DEF Remaining, RepoTypeOK
  <2>5. [NoRun EXCEPT !.target = id] \in RunRow
    BY <2>1, RowsAreTyped DEF RunRow
  <2>6. WriterTyped'
    BY <2>2, <2>5, GoIsTyped DEF WriterTyped, Working
  <2> QED
    BY <2>2, <2>3, <2>4, <2>6 DEF RepoTypeOK, WriterTyped, Working, fileVars, qdrantVars, readerVars
<1> QED
  BY <1>2, <1>3, <1>4, <1>5 DEF Publish

(* The steps that fill Qdrant for the active generation.                   *)
LEMMA ProjectionKeepsTypes ==
    ASSUME RepoTypeOK, NEW w \in Writers, Projection(w)
    PROVE  RepoTypeOK'
<1>1. run[w] \in RunRow
  BY DEF RepoTypeOK
<1>2. CASE Project(w)
  <2>1. Stored(active) \in Rowset
    BY StoredIsTyped
  <2>2. [run[w] EXCEPT !.chunks = Stored(active), !.left = Stored(active)] \in RunRow
    BY <1>1, <2>1 DEF RunRow
  <2> QED
    BY <1>2, <2>2, GoIsTyped, EndIsTyped, QuietKeepsTypes
    DEF Project, WriterTyped, Working, Quiet
<1>3. CASE Upload(w)
  <2>1. PICK c \in run[w].left :
           /\ points' = points \cup {<<run[w].target, c>>}
           /\ Go(w, "upload", [run[w] EXCEPT !.left = @ \ {c}])
    BY <1>3 DEF Upload
  <2>2. c \in Row /\ run[w].target \in Nat
    BY <1>1 DEF RunRow, Rowset
  <2>3. [run[w] EXCEPT !.left = @ \ {c}] \in RunRow
    BY <1>1 DEF RunRow, Rowset
  <2>4. WriterTyped'
    BY <2>1, <2>3, GoIsTyped DEF WriterTyped, Working
  <2>5. UNCHANGED <<fileVars, indexVars, manifests, fulls, faults, readerVars, removals>>
    BY <1>3 DEF Upload
  <2>6. points' \subseteq Nat \X Row
    BY <2>1, <2>2 DEF RepoTypeOK
  <2> QED
    BY <2>4, <2>5, <2>6 DEF RepoTypeOK, WriterTyped, Working, fileVars, indexVars, readerVars
<1>4. CASE Finalize(w)
  <2>1. WriterTyped'
    BY <1>4, EndIsTyped DEF Finalize, WriterTyped
  <2>2. manifests' \subseteq Nat
    BY <1>1, <1>4 DEF Finalize, RunRow, RepoTypeOK
  <2>3. UNCHANGED <<fileVars, indexVars, points, fulls, faults, readerVars, removals>>
    BY <1>4 DEF Finalize
  <2> QED
    BY <2>1, <2>2, <2>3 DEF RepoTypeOK, WriterTyped, Working, fileVars, indexVars, readerVars
<1> QED
  BY <1>2, <1>3, <1>4 DEF Projection

(* A reader changes only its own query, cache and place.                   *)
LEMMA LookupKeepsTypes ==
    ASSUME RepoTypeOK, NEW r \in Readers, Session(r) \/ Lookup(r)
    PROVE  RepoTypeOK'
<1> DEFINE CacheRow == [label : Nat, edges : Rowset]
<1>1. query[r] \in QueryRow /\ cache[r] \in CacheRow /\ active \in Nat
  BY DEF RepoTypeOK
<1>2. ASSUME query' \in [Readers -> QueryRow], cache' \in [Readers -> CacheRow],
             rpc' \in [Readers -> {"down", "idle", "asking", "answered"}], Calm
      PROVE  RepoTypeOK'
  BY <1>2 DEF RepoTypeOK, Calm, fileVars, indexVars, qdrantVars, writerVars
<1>3. ASSUME NEW files \in SUBSET Files, NEW rows \in Rowset
      PROVE  Part(files, rows) \in PartRow
  BY DEF Part, PartRow
<1>4. CASE Session(r)
  <2>1. [NoQuery EXCEPT !.gen = active] \in QueryRow
    BY <1>1, RowsAreTyped DEF QueryRow
  <2>2. CASE Serve(r)
    BY <1>2, <2>2 DEF Serve, RepoTypeOK
  <2>3. CASE Exit(r)
    BY <1>2, <2>3, RowsAreTyped DEF Exit, Reads, RepoTypeOK
  <2>4. CASE Ask(r)
    BY <1>2, <2>1, <2>4 DEF Ask, Reads, RepoTypeOK
  <2>5. CASE Reply(r)
    BY <1>2, <2>5 DEF Reply, RepoTypeOK
  <2>6. NoQuery \in QueryRow
    BY RowsAreTyped
  <2>7. CASE Reject(r)
    BY <1>2, <2>6, <2>7 DEF Reject, Reads, RepoTypeOK
  <2>8. CASE Done(r)
    BY <1>2, <2>6, <2>8 DEF Done, Reads, RepoTypeOK
  <2> QED
    BY <1>4, <2>2, <2>3, <2>4, <2>5, <2>7, <2>8 DEF Session
<1>5. CASE Resolve(r)
  <2>1. [query[r] EXCEPT !.resolved = active] \in QueryRow
    BY <1>1 DEF QueryRow
  <2> QED
    BY <1>2, <1>5, <2>1 DEF Resolve, Reads, RepoTypeOK
<1>6. CASE Fetch(r)
  <2>1. PICK f \in Files : Reads(r, [query[r] EXCEPT
             !.parts = @ \cup {Part({f}, Of(Stored(query[r].resolved), {f}))}])
    BY <1>6 DEF Fetch
  <2>2. Of(Stored(query[r].resolved), {f}) \in Rowset
    BY StoredIsTyped, RowsAreTyped
  <2>3. Part({f}, Of(Stored(query[r].resolved), {f})) \in PartRow
    BY <1>3, <2>2
  <2>4. [query[r] EXCEPT
             !.parts = @ \cup {Part({f}, Of(Stored(query[r].resolved), {f}))}] \in QueryRow
    BY <1>1, <2>3 DEF QueryRow
  <2> QED
    BY <1>2, <1>6, <2>1, <2>4 DEF Fetch, Reads, RepoTypeOK
<1>7. CASE CachedEdges(r)
  <2>1. Part(Files, cache[r].edges) \in PartRow
    BY <1>1, <1>3
  <2>2. /\ [query[r] EXCEPT !.parts = @ \cup {Part(Files, cache[r].edges)}] \in QueryRow
        /\ [query[r] EXCEPT !.label = active, !.resolved = 0] \in QueryRow
    BY <1>1, <2>1 DEF QueryRow
  <2> QED
    BY <1>2, <1>7, <2>2 DEF CachedEdges, Reads, RepoTypeOK
<1>8. CASE LoadEdges(r)
  <2> DEFINE edges == Stored(query[r].resolved)
  <2>1. edges \in Rowset /\ Part(Files, edges) \in PartRow
    BY <1>3, StoredIsTyped
  <2>2. /\ [query[r] EXCEPT !.label = 0, !.parts = @ \cup {Part(Files, edges)}] \in QueryRow
        /\ [label |-> query[r].label, edges |-> edges] \in CacheRow
    BY <1>1, <2>1 DEF QueryRow
  <2> QED
    BY <1>2, <1>8, <2>2 DEF LoadEdges, Reads, RepoTypeOK
<1> QED
  BY <1>4, <1>5, <1>6, <1>7, <1>8 DEF Lookup

(* Every step preserves the types.                                         *)
LEMMA RepoTypeInvariant == RepoTypeOK /\ [RepoNext]_repoVars => RepoTypeOK'
<1> SUFFICES ASSUME RepoTypeOK, [RepoNext]_repoVars PROVE RepoTypeOK'
  OBVIOUS
<1>1. ASSUME NEW f \in Files, Edit(f) PROVE RepoTypeOK'
  <2>1. tree' \in [Files -> Nat]
    BY <1>1 DEF Edit, RepoTypeOK
  <2>2. Rows(tree') \in Rowset
    BY <2>1, RowsAreTyped
  <2>3. moments' \subseteq Rowset /\ edits' \in Nat
    BY <1>1, <2>2 DEF Edit, RepoTypeOK
  <2>4. UNCHANGED <<indexVars, qdrantVars, writerVars, readerVars, removals>>
    BY <1>1 DEF Edit
  <2> QED
    BY <2>1, <2>3, <2>4
    DEF RepoTypeOK, indexVars, qdrantVars, writerVars, readerVars
<1>2. ASSUME NEW w \in Writers, Acquire(w) PROVE RepoTypeOK'
  <2>1. PICK full \in BOOLEAN :
           /\ fulls' = IF full THEN fulls + 1 ELSE fulls
           /\ Go(w, "list", [NoRun EXCEPT !.full = full])
    BY <1>2 DEF Acquire
  <2>2. [NoRun EXCEPT !.full = full] \in RunRow
    BY RowsAreTyped DEF RunRow
  <2>3. WriterTyped'
    BY <2>1, <2>2, GoIsTyped DEF WriterTyped, Working
  <2>4. fulls' \in Nat
    BY <2>1 DEF RepoTypeOK
  <2>5. Rows(tree) \in Rowset
    BY RowsAreTyped DEF RepoTypeOK
  <2>6. /\ moments' = {Rows(tree)}
        /\ UNCHANGED <<tree, edits, faults, indexVars, qdrantVars, readerVars, removals>>
    BY <1>2 DEF Acquire
  <2> QED
    BY <2>3, <2>4, <2>5, <2>6
    DEF RepoTypeOK, WriterTyped, Working, indexVars, qdrantVars, readerVars
<1>3. ASSUME NEW w \in Writers, Index(w) PROVE RepoTypeOK'
  BY <1>3, CaptureKeepsTypes, PublishKeepsTypes, ProjectionKeepsTypes DEF Index
<1>4. ASSUME NEW w \in Writers, Stop(w) PROVE RepoTypeOK'
  <2>1. WriterTyped'
    BY <1>4, EndIsTyped DEF Stop, WriterTyped
  <2> QED
    BY <1>4, <2>1
    DEF Stop, RepoTypeOK, WriterTyped, Working, fileVars, indexVars, qdrantVars, readerVars
<1>5. ASSUME NEW r \in Readers, Session(r) \/ Lookup(r) PROVE RepoTypeOK'
  BY <1>5, LookupKeepsTypes
<1>6. CASE RemoveSidecar
  <2>1. gens' = <<>> /\ kept' = {} /\ active' = 0 /\ removals' = removals + 1
        /\ UNCHANGED <<fileVars, qdrantVars, writerVars, readerVars>>
    BY <1>6 DEF RemoveSidecar
  <2>2. gens' \in Seq(Rowset) /\ Len(gens') = 0
    BY <2>1
  <2> QED
    BY <2>1, <2>2 DEF RepoTypeOK, fileVars, qdrantVars, writerVars, readerVars
<1>7. CASE UNCHANGED repoVars
  BY <1>7 DEF RepoTypeOK, repoVars, fileVars, indexVars, qdrantVars, writerVars, readerVars
<1> QED
  BY <1>1, <1>2, <1>3, <1>4, <1>5, <1>6, <1>7 DEF RepoNext

(* The initial state is typed.                                             *)
LEMMA RepoInitIsTyped == RepoInit => RepoTypeOK
<1> SUFFICES ASSUME RepoInit PROVE RepoTypeOK
  OBVIOUS
<1>1. gens \in Seq(Rowset) /\ Len(gens) = 0
  BY DEF RepoInit
<1> QED
  BY <1>1, RowsAreTyped DEF RepoInit, RepoTypeOK

(* Types of all variables, for any number of processes, files and runs.    *)
THEOREM RepoTypeCorrect == RepoSpec => []RepoTypeOK
<1>1. RepoInit => RepoTypeOK
  BY RepoInitIsTyped
<1>2. RepoTypeOK /\ [RepoNext]_repoVars => RepoTypeOK'
  BY RepoTypeInvariant
<1> QED
  BY <1>1, <1>2, PTL DEF RepoSpec

-----------------------------------------------------------------------------
(* One generation per answer.  The argument: the active id only grows, so  *)
(* a query whose generation is still active at the end has resolved every  *)
(* read to it, and an active generation is never pruned.  The cache needs  *)
(* its label to be no newer than its content.                              *)
Whole(p, id) == p.rows = Of(gens[id], p.files)

Asking(r) ==
    LET q == query[r] IN
    /\ q.gen \in 1..active
    /\ q.resolved # 0 => q.resolved \in q.gen..active
    /\ q.label # 0 => q.label <= active /\ (q.resolved # 0 => q.label <= q.resolved)
    /\ active = q.gen => \A p \in q.parts : Whole(p, q.gen)

Answered(r) ==
    LET q == query[r] IN
    q.gen \in 1..active /\ \A p \in q.parts : Whole(p, q.gen)

CacheOK(r) ==
    /\ cache[r].label <= active
    /\ active # 0 /\ cache[r].label = active => cache[r].edges = gens[active]

ReaderOK(r) ==
    /\ rpc[r] = "down" => cache[r] = NoCache
    /\ rpc[r] = "asking" => Asking(r)
    /\ rpc[r] = "answered" => Answered(r)
    /\ CacheOK(r)

ReadersOK == \A r \in Readers : ReaderOK(r)

(* Steps of editors and of index runs that do not publish.                 *)
LEMMA ReadersIgnore ==
    ASSUME ReadersOK, UNCHANGED <<indexVars, readerVars>>
    PROVE  ReadersOK'
BY DEF ReadersOK, ReaderOK, Asking, Answered, CacheOK, Whole, indexVars, readerVars

(* Publishing leaves every older generation behind: only the new one is    *)
(* active, and no query or cache refers to it yet.                         *)
LEMMA ReadersSurviveActivate ==
    ASSUME RepoTypeOK, ReadersOK, NEW w \in Writers, Activate(w)
    PROVE  ReadersOK'
<1>1. /\ gens' = Append(gens, run[w].snapshot) /\ active' = Len(gens) + 1
      /\ UNCHANGED readerVars
  BY DEF Activate
<1>2. /\ active = Len(gens) /\ active \in Nat /\ active' = active + 1
      /\ \A id \in 1..active : gens'[id] = gens[id]
  BY <1>1 DEF RepoTypeOK
<1>3. ASSUME NEW r \in Readers PROVE ReaderOK(r)'
  <2>1. /\ rpc'[r] = rpc[r] /\ query'[r] = query[r] /\ cache'[r] = cache[r]
        /\ query[r] \in QueryRow /\ cache[r] \in [label : Nat, edges : Rowset]
    BY <1>1 DEF readerVars, RepoTypeOK
  <2>2. ReaderOK(r)
    BY DEF ReadersOK
  <2>3. rpc[r] = "asking" => Asking(r)'
    BY <1>2, <2>1, <2>2 DEF ReaderOK, Asking, QueryRow
  <2>4. rpc[r] = "answered" => Answered(r)'
    BY <1>2, <2>1, <2>2 DEF ReaderOK, Answered, Whole, QueryRow
  <2>5. CacheOK(r)'
    BY <1>2, <2>1, <2>2 DEF ReaderOK, CacheOK
  <2> QED
    BY <2>1, <2>2, <2>3, <2>4, <2>5 DEF ReaderOK
<1> QED
  BY <1>3 DEF ReadersOK

(* The sidecar is removed only when no reader has anything in memory.      *)
LEMMA ReadersSurviveRemoval ==
    ASSUME ReadersOK, RemoveSidecar
    PROVE  ReadersOK'
BY DEF RemoveSidecar, ReadersOK, ReaderOK, CacheOK, NoCache, readerVars

(* A step of reader r preserves the invariant if it does so for r.         *)
LEMMA OneReaderMoves ==
    ASSUME RepoTypeOK, ReadersOK, NEW r \in Readers, Calm,
           rpc' = [rpc EXCEPT ![r] = rpc'[r]],
           query' = [query EXCEPT ![r] = query'[r]],
           cache' = [cache EXCEPT ![r] = cache'[r]],
           ReaderOK(r)'
    PROVE  ReadersOK'
<1>1. gens' = gens /\ active' = active
  BY DEF Calm, indexVars
<1>2. ASSUME NEW s \in Readers, s # r PROVE ReaderOK(s)'
  <2>1. rpc'[s] = rpc[s] /\ query'[s] = query[s] /\ cache'[s] = cache[s]
    BY <1>2 DEF RepoTypeOK
  <2>2. ReaderOK(s)
    BY DEF ReadersOK
  <2> QED
    BY <1>1, <2>1, <2>2 DEF ReaderOK, Asking, Answered, CacheOK, Whole
<1> QED
  BY <1>2 DEF ReadersOK

(* A query that starts or ends, and a process that starts or exits.        *)
LEMMA ReadersOKInSession ==
    ASSUME RepoTypeOK, ReadersOK, NEW r \in Readers, Session(r)
    PROVE  ReadersOK'
<1>1. /\ ReaderOK(r) /\ active \in Nat
      /\ rpc \in [Readers -> {"down", "idle", "asking", "answered"}]
      /\ query \in [Readers -> QueryRow]
      /\ cache \in [Readers -> [label : Nat, edges : Rowset]]
  <2>1. Len(gens) \in Nat
    BY DEF RepoTypeOK
  <2> QED
    BY <2>1 DEF ReadersOK, RepoTypeOK
<1>2. CASE Serve(r)
  <2>1. gens' = gens /\ active' = active /\ Calm
    BY <1>2 DEF Serve, Calm, indexVars
  <2>2. ReaderOK(r)'
    BY <1>1, <1>2, <2>1 DEF Serve, ReaderOK, CacheOK
  <2> QED
    BY <1>1, <1>2, <2>1, <2>2, OneReaderMoves DEF Serve
<1>3. CASE Exit(r)
  <2>1. gens' = gens /\ active' = active /\ Calm
    BY <1>3 DEF Exit, Calm, indexVars
  <2>2. ReaderOK(r)'
    BY <1>1, <1>3, <2>1 DEF Exit, ReaderOK, CacheOK, NoCache
  <2> QED
    BY <1>1, <1>3, <2>1, <2>2, OneReaderMoves DEF Exit, Reads
<1>4. CASE Ask(r)
  <2>1. gens' = gens /\ active' = active /\ Calm
    BY <1>4 DEF Ask, Calm, indexVars
  <2>2. /\ rpc'[r] = "asking" /\ cache'[r] = cache[r] /\ active # 0
        /\ query'[r] = [NoQuery EXCEPT !.gen = active]
    BY <1>1, <1>4 DEF Ask, Reads
  <2>3. Asking(r)' /\ CacheOK(r)'
    BY <1>1, <2>1, <2>2 DEF ReaderOK, Asking, CacheOK, NoQuery
  <2>4. ReaderOK(r)'
    BY <2>2, <2>3 DEF ReaderOK
  <2> QED
    BY <1>1, <1>4, <2>1, <2>4, OneReaderMoves DEF Ask, Reads
<1>5. CASE Reply(r)
  <2>1. gens' = gens /\ active' = active /\ Calm
    BY <1>5 DEF Reply, Calm, indexVars
  <2>2. /\ rpc'[r] = "answered" /\ cache'[r] = cache[r] /\ query'[r] = query[r]
        /\ Answered(r) /\ CacheOK(r)
    BY <1>1, <1>5 DEF Reply, ReaderOK, Asking, Answered
  <2>3. ReaderOK(r)'
    BY <2>1, <2>2 DEF ReaderOK, Answered, CacheOK, Whole
  <2> QED
    BY <1>1, <1>5, <2>1, <2>3, OneReaderMoves DEF Reply
<1>6. CASE Reject(r) \/ Done(r)
  <2>1. gens' = gens /\ active' = active /\ Calm
    BY <1>6 DEF Reject, Done, Calm, indexVars
  <2>2. /\ rpc' = [rpc EXCEPT ![r] = "idle"] /\ query' = [query EXCEPT ![r] = NoQuery]
        /\ cache' = cache
    BY <1>6 DEF Reject, Done, Reads
  <2>3. ReaderOK(r)'
    BY <1>1, <2>1, <2>2 DEF ReaderOK, CacheOK
  <2> QED
    BY <1>1, <2>1, <2>2, <2>3, OneReaderMoves
<1> QED
  BY <1>2, <1>3, <1>4, <1>5, <1>6 DEF Session

(* What a lookup reads of the active generation is all there is of it.     *)
LEMMA ReadersOKInLookup ==
    ASSUME RepoTypeOK, ReadersOK, NEW r \in Readers, Lookup(r)
    PROVE  ReadersOK'
<1>1. /\ active \in Nat
      /\ rpc \in [Readers -> {"down", "idle", "asking", "answered"}]
      /\ query \in [Readers -> QueryRow]
      /\ cache \in [Readers -> [label : Nat, edges : Rowset]]
  <2>1. Len(gens) \in Nat
    BY DEF RepoTypeOK
  <2> QED
    BY <2>1 DEF RepoTypeOK
<1> DEFINE q == query[r]
<1>2. rpc[r] = "asking" /\ Asking(r) /\ CacheOK(r)
  BY DEF ReadersOK, ReaderOK, Lookup, Resolve, Fetch, CachedEdges, LoadEdges
<1>3. gens' = gens /\ active' = active /\ Calm
  BY DEF Lookup, Resolve, Fetch, CachedEdges, LoadEdges, Calm, indexVars
<1>4. q \in QueryRow /\ q.gen \in 1..active
      /\ q.gen \in Nat /\ q.resolved \in Nat /\ q.label \in Nat
  BY <1>1, <1>2 DEF Asking, QueryRow
<1>5. Stored(active) = gens[active] /\ Of(gens[active], Files) = gens[active]
  BY <1>1, <1>4, StoredIsTyped, RowsAreTyped
<1>6. ASSUME q.resolved # 0, active = q.gen PROVE q.resolved = q.gen
  BY <1>1, <1>2, <1>4, <1>6 DEF Asking
<1>7. CASE Resolve(r)
  <2>1. /\ rpc' = rpc /\ cache' = cache
        /\ query' = [query EXCEPT ![r] = [q EXCEPT !.resolved = active]]
    BY <1>7 DEF Resolve, Reads
  <2>2. /\ query'[r].gen = q.gen /\ query'[r].resolved = active
        /\ query'[r].label = q.label /\ query'[r].parts = q.parts
    BY <1>1, <1>4, <2>1 DEF QueryRow
  <2>3. ReaderOK(r)'
    BY <1>1, <1>2, <1>3, <1>4, <2>1, <2>2 DEF ReaderOK, Asking, CacheOK, Whole
  <2> QED
    BY <1>1, <1>3, <2>1, <2>3, OneReaderMoves
<1>8. CASE Fetch(r)
  <2>1. PICK f \in Files : query' = [query EXCEPT ![r] = [q EXCEPT
            !.parts = @ \cup {Part({f}, Of(Stored(q.resolved), {f}))}]]
    BY <1>8 DEF Fetch, Reads
  <2> DEFINE part == Part({f}, Of(Stored(q.resolved), {f}))
  <2>2. rpc' = rpc /\ cache' = cache /\ q.resolved # 0
    BY <1>8 DEF Fetch
  <2>3. /\ query'[r].gen = q.gen /\ query'[r].resolved = q.resolved
        /\ query'[r].label = q.label /\ query'[r].parts = q.parts \cup {part}
    BY <1>1, <1>4, <2>1 DEF QueryRow
  <2>4. active = q.gen => Whole(part, q.gen)
    BY <1>5, <1>6, <2>2 DEF Whole, Part
  <2>5. Asking(r)'
    BY <1>2, <1>3, <2>3, <2>4 DEF Asking, Whole
  <2>6. ReaderOK(r)'
    BY <1>2, <1>3, <2>2, <2>5 DEF ReaderOK, CacheOK
  <2> QED
    BY <1>1, <1>3, <2>1, <2>2, <2>6, OneReaderMoves
<1>9. CASE CachedEdges(r)
  <2>1. rpc' = rpc /\ cache' = cache
    BY <1>9 DEF CachedEdges
  <2>2. CASE cache[r].label = active
    <3> DEFINE part == Part(Files, cache[r].edges)
    <3>1. query' = [query EXCEPT ![r] = [q EXCEPT !.parts = @ \cup {part}]]
      BY <1>9, <2>2 DEF CachedEdges, Reads
    <3>2. /\ query'[r].gen = q.gen /\ query'[r].resolved = q.resolved
          /\ query'[r].label = q.label /\ query'[r].parts = q.parts \cup {part}
      BY <1>1, <1>4, <3>1 DEF QueryRow
    <3>3. active = q.gen => Whole(part, q.gen)
      BY <1>2, <1>4, <1>5, <2>2 DEF Whole, Part, CacheOK
    <3>4. Asking(r)'
      BY <1>2, <1>3, <3>2, <3>3 DEF Asking, Whole
    <3>5. ReaderOK(r)'
      BY <1>2, <1>3, <2>1, <3>4 DEF ReaderOK, CacheOK
    <3> QED
      BY <1>1, <1>3, <2>1, <3>1, <3>5, OneReaderMoves
  <2>3. CASE cache[r].label # active
    <3>1. query' = [query EXCEPT ![r] = [q EXCEPT !.label = active, !.resolved = 0]]
      BY <1>9, <2>3 DEF CachedEdges, Reads
    <3>2. /\ query'[r].gen = q.gen /\ query'[r].resolved = 0
          /\ query'[r].label = active /\ query'[r].parts = q.parts
      BY <1>1, <1>4, <3>1 DEF QueryRow
    <3>3. Asking(r)'
      BY <1>1, <1>2, <1>3, <3>2 DEF Asking, Whole
    <3>4. ReaderOK(r)'
      BY <1>2, <1>3, <2>1, <3>3 DEF ReaderOK, CacheOK
    <3> QED
      BY <1>1, <1>3, <2>1, <3>1, <3>4, OneReaderMoves
  <2> QED
    BY <2>2, <2>3
<1>10. CASE LoadEdges(r)
  <2> DEFINE edges == Stored(q.resolved)
             part  == Part(Files, edges)
  <2>1. /\ rpc' = rpc /\ q.label # 0 /\ q.resolved # 0
        /\ cache' = [cache EXCEPT ![r] = [label |-> q.label, edges |-> edges]]
        /\ query' = [query EXCEPT ![r] = [q EXCEPT !.label = 0, !.parts = @ \cup {part}]]
    BY <1>10 DEF LoadEdges, Reads
  <2>2. /\ query'[r].gen = q.gen /\ query'[r].resolved = q.resolved
        /\ query'[r].label = 0 /\ query'[r].parts = q.parts \cup {part}
        /\ cache'[r].label = q.label /\ cache'[r].edges = edges
    BY <1>1, <1>4, <2>1 DEF QueryRow
  <2>3. active = q.gen => Whole(part, q.gen)
    BY <1>5, <1>6, <2>1 DEF Whole, Part
  <2>4. Asking(r)'
    BY <1>2, <1>3, <2>2, <2>3 DEF Asking, Whole
  <2>5. q.label <= q.resolved /\ q.resolved <= active
    BY <1>2, <1>4, <2>1 DEF Asking
  <2>6. q.label = active => q.resolved = active
    BY <1>1, <1>4, <2>5
  <2>7. CacheOK(r)'
    BY <1>1, <1>3, <1>4, <1>5, <2>2, <2>5, <2>6 DEF CacheOK
  <2>8. ReaderOK(r)'
    BY <1>2, <1>3, <2>1, <2>4, <2>7 DEF ReaderOK
  <2> QED
    BY <1>1, <1>3, <2>1, <2>8, OneReaderMoves
<1> QED
  BY <1>7, <1>8, <1>9, <1>10 DEF Lookup

(* Every step preserves what is known of the readers.                      *)
LEMMA ReadersOKInvariant == RepoTypeOK /\ ReadersOK /\ [RepoNext]_repoVars => ReadersOK'
<1> SUFFICES ASSUME RepoTypeOK, ReadersOK, [RepoNext]_repoVars PROVE ReadersOK'
  OBVIOUS
<1>1. ASSUME NEW f \in Files, Edit(f) PROVE ReadersOK'
  BY <1>1, ReadersIgnore DEF Edit
<1>2. ASSUME NEW w \in Writers, Acquire(w) \/ Stop(w) PROVE ReadersOK'
  BY <1>2, ReadersIgnore DEF Acquire, Stop
<1>3. ASSUME NEW w \in Writers, Capture(w) PROVE ReadersOK'
  BY <1>3, ReadersIgnore DEF Capture, List, ReadFile, ListAgain, Revalidate, Quiet
<1>4. ASSUME NEW w \in Writers, Publish(w) PROVE ReadersOK'
  <2>1. CASE Reuse(w) \/ Build(w) \/ Discard(w)
    BY <2>1, ReadersIgnore DEF Reuse, Build, Discard, Quiet
  <2> QED
    BY <1>4, <2>1, ReadersSurviveActivate DEF Publish
<1>5. ASSUME NEW w \in Writers, Projection(w) PROVE ReadersOK'
  BY <1>5, ReadersIgnore DEF Projection, Project, Upload, Finalize, Quiet
<1>6. ASSUME NEW r \in Readers, Session(r) \/ Lookup(r) PROVE ReadersOK'
  BY <1>6, ReadersOKInSession, ReadersOKInLookup
<1>7. CASE UNCHANGED repoVars
  BY <1>7, ReadersIgnore DEF repoVars
<1> QED
  BY <1>1, <1>2, <1>3, <1>4, <1>5, <1>6, <1>7, ReadersSurviveRemoval DEF RepoNext, Index

(* Whatever was read for an answer, from the database or from the edge     *)
(* cache, is what the generation it names holds, for any number of         *)
(* readers, index processes, files and generations.                        *)
THEOREM AnswersAreWhole == RepoSpec => []OneGenerationPerAnswer
<1>1. RepoInit => RepoTypeOK /\ ReadersOK
  <2>1. RepoInit => ReadersOK
    BY DEF RepoInit, ReadersOK, ReaderOK, CacheOK, NoCache
  <2> QED
    BY <2>1, RepoInitIsTyped
<1>2. RepoTypeOK /\ ReadersOK /\ [RepoNext]_repoVars => (RepoTypeOK /\ ReadersOK)'
  BY RepoTypeInvariant, ReadersOKInvariant
<1>3. ReadersOK => OneGenerationPerAnswer
  BY DEF ReadersOK, ReaderOK, Answered, Whole, OneGenerationPerAnswer
<1> QED
  BY <1>1, <1>2, <1>3, PTL DEF RepoSpec

-----------------------------------------------------------------------------
(* The manifest tells the truth.  The argument: the lock leaves one run at *)
(* work, so what it projects is still the active generation, and it writes *)
(* the manifest when no chunk is left.  Removing the sidecar reuses ids of *)
(* generations that have manifests, so the theorem excludes it.            *)
OneRun == \A v, w \in Writers : wpc[v] # "idle" /\ wpc[w] # "idle" => v = w

ManifestsAreOfGenerations == manifests \subseteq 1..active

ProjectingOK(w) ==
    /\ wpc[w] \in {"project", "upload"} => active # 0 /\ run[w].target = active
    /\ wpc[w] = "upload" =>
         /\ run[w].chunks = gens[active]
         /\ run[w].chunks \subseteq run[w].left \cup PointsOf(active)

VectorsOfReady == active # 0 /\ Ready(active) => gens[active] \subseteq PointsOf(active)

ProjectionInv ==
    /\ OneRun /\ ManifestsAreOfGenerations
    /\ \A w \in Writers : ProjectingOK(w)
    /\ VectorsOfReady

(* Steps that touch neither the index, Qdrant nor the index runs.          *)
LEMMA ProjectionIgnores ==
    ASSUME ProjectionInv, UNCHANGED <<indexVars, qdrantVars, wpc, run>>
    PROVE  ProjectionInv'
BY DEF ProjectionInv, OneRun, ManifestsAreOfGenerations, ProjectingOK, VectorsOfReady,
       Ready, PointsOf, indexVars, qdrantVars

(* The step of a run that has the lock, or takes it while nobody has.      *)
LEMMA OneRunMoves ==
    ASSUME RepoTypeOK, ProjectionInv, NEW w \in Writers, NEW step, NEW state,
           wpc[w] # "idle" \/ NoWriter,
           wpc' = [wpc EXCEPT ![w] = step], run' = [run EXCEPT ![w] = state]
    PROVE  /\ OneRun'
           /\ wpc'[w] = step /\ run'[w] = state
           /\ \A v \in Writers \ {w} : wpc'[v] = "idle"
<1>1. \A v \in Writers \ {w} : wpc[v] = "idle"
  BY DEF ProjectionInv, OneRun, NoWriter
<1> QED
  BY <1>1 DEF RepoTypeOK, OneRun

(* A run that starts, goes on scanning, or ends, and publishes nothing.    *)
LEMMA ScanningKeepsProjection ==
    ASSUME RepoTypeOK, ProjectionInv, NEW w \in Writers, NEW step, NEW state,
           wpc[w] # "idle" \/ NoWriter,
           wpc' = [wpc EXCEPT ![w] = step], run' = [run EXCEPT ![w] = state],
           step \notin {"project", "upload"},
           UNCHANGED <<indexVars, qdrantVars>>
    PROVE  ProjectionInv'
<1>1. /\ OneRun' /\ wpc'[w] = step
      /\ \A v \in Writers \ {w} : wpc'[v] = "idle"
  BY OneRunMoves
<1>2. \A v \in Writers : ProjectingOK(v)'
  BY <1>1 DEF ProjectingOK
<1>3. ManifestsAreOfGenerations' /\ VectorsOfReady'
  BY DEF ProjectionInv, ManifestsAreOfGenerations, VectorsOfReady, Ready, PointsOf,
         indexVars, qdrantVars
<1> QED
  BY <1>1, <1>2, <1>3 DEF ProjectionInv

(* A run that ends.                                                        *)
LEMMA EndKeepsProjection ==
    ASSUME RepoTypeOK, ProjectionInv, NEW w \in Writers, wpc[w] # "idle", End(w),
           UNCHANGED <<indexVars, qdrantVars>>
    PROVE  ProjectionInv'
<1> DEFINE step  == "idle"
           state == NoRun
<1>1. /\ wpc' = [wpc EXCEPT ![w] = step] /\ run' = [run EXCEPT ![w] = state]
      /\ step \notin {"project", "upload"}
  BY DEF End
<1> HIDE DEF step, state
<1> QED
  BY <1>1, ScanningKeepsProjection

(* A run that has captured the tree: what it will project is active.       *)
LEMMA PublishKeepsProjection ==
    ASSUME RepoTypeOK, ProjectionInv, NEW w \in Writers, Publish(w)
    PROVE  ProjectionInv'
<1>1. wpc[w] # "idle"
  BY DEF Publish, Reuse, Build, Discard, Activate, Captured
<1>2. CASE Reuse(w)
  <2>1. /\ active # 0 /\ UNCHANGED <<indexVars, qdrantVars>>
        /\ Go(w, "project", [run[w] EXCEPT !.target = active])
    BY <1>2 DEF Reuse, Current, Quiet
  <2>2. /\ OneRun' /\ wpc'[w] = "project"
        /\ run'[w] = [run[w] EXCEPT !.target = active]
        /\ \A v \in Writers \ {w} : wpc'[v] = "idle"
    BY <1>1, <2>1, OneRunMoves DEF Go
  <2>3. run'[w].target = active /\ active' = active
    BY <2>1, <2>2 DEF RepoTypeOK, RunRow, indexVars
  <2>4. \A v \in Writers : ProjectingOK(v)'
    BY <2>1, <2>2, <2>3 DEF ProjectingOK
  <2>5. ManifestsAreOfGenerations' /\ VectorsOfReady'
    BY <2>1 DEF ProjectionInv, ManifestsAreOfGenerations, VectorsOfReady, Ready, PointsOf,
                indexVars, qdrantVars
  <2> QED
    BY <2>2, <2>4, <2>5 DEF ProjectionInv
<1>3. CASE Build(w)
  BY <1>1, <1>3, ScanningKeepsProjection DEF Build, Go, Quiet
<1>4. CASE Discard(w)
  BY <1>1, <1>4, EndKeepsProjection DEF Discard, Quiet
<1>5. CASE Activate(w)
  <2> DEFINE id == Len(gens) + 1
  <2>1. /\ active' = id /\ UNCHANGED qdrantVars
        /\ Go(w, "project", [NoRun EXCEPT !.target = id])
    BY <1>5 DEF Activate
  <2>2. active = Len(gens) /\ active \in Nat /\ id # 0
    BY DEF RepoTypeOK
  <2>3. /\ OneRun' /\ wpc'[w] = "project"
        /\ run'[w] = [NoRun EXCEPT !.target = id]
        /\ \A v \in Writers \ {w} : wpc'[v] = "idle"
    BY <1>1, <2>1, OneRunMoves DEF Go
  <2>4. run'[w].target = id
    BY <2>3 DEF NoRun
  <2>5. \A v \in Writers : ProjectingOK(v)'
    BY <2>1, <2>2, <2>3, <2>4 DEF ProjectingOK
  <2>6. ManifestsAreOfGenerations' /\ id \notin manifests'
    BY <2>1, <2>2 DEF ProjectionInv, ManifestsAreOfGenerations, qdrantVars
  <2>7. VectorsOfReady'
    BY <2>1, <2>6 DEF VectorsOfReady, Ready
  <2> QED
    BY <2>3, <2>5, <2>6, <2>7 DEF ProjectionInv
<1> QED
  BY <1>2, <1>3, <1>4, <1>5 DEF Publish

(* The projection itself: no chunk is forgotten before the manifest.       *)
LEMMA ProjectionKeepsProjection ==
    ASSUME RepoTypeOK, ProjectionInv, NEW w \in Writers, Projection(w)
    PROVE  ProjectionInv'
<1>1. /\ wpc[w] \in {"project", "upload"} /\ wpc[w] # "idle"
      /\ UNCHANGED indexVars
  BY DEF Projection, Project, Upload, Finalize, Quiet
<1>2. /\ run[w] \in RunRow /\ ProjectingOK(w)
      /\ active # 0 /\ run[w].target = active
      /\ gens' = gens /\ active' = active
  BY <1>1 DEF RepoTypeOK, ProjectionInv, ProjectingOK, indexVars
<1>3. CASE Project(w)
  <2>1. UNCHANGED qdrantVars
    BY <1>3 DEF Project, Quiet
  <2>2. CASE Ready(run[w].target)
    BY <1>1, <1>3, <2>1, <2>2, EndKeepsProjection DEF Project
  <2>3. CASE ~Ready(run[w].target)
    <3> DEFINE next == [run[w] EXCEPT !.chunks = Stored(active), !.left = Stored(active)]
    <3>1. Go(w, "upload", next)
      BY <1>3, <2>3 DEF Project
    <3>2. /\ OneRun' /\ wpc'[w] = "upload" /\ run'[w] = next
          /\ \A v \in Writers \ {w} : wpc'[v] = "idle"
      BY <1>1, <3>1, OneRunMoves DEF Go
    <3>3. /\ run'[w].target = active
          /\ run'[w].chunks = Stored(active) /\ run'[w].left = Stored(active)
      BY <1>2, <3>2 DEF RunRow
    <3>4. Stored(active) = gens[active]
      BY <1>2, StoredIsTyped
    <3>5. \A v \in Writers : ProjectingOK(v)'
      BY <1>2, <3>2, <3>3, <3>4 DEF ProjectingOK
    <3>6. ManifestsAreOfGenerations' /\ VectorsOfReady'
      BY <1>2, <2>1 DEF ProjectionInv, ManifestsAreOfGenerations, VectorsOfReady, Ready,
                        PointsOf, qdrantVars
    <3> QED
      BY <3>2, <3>5, <3>6 DEF ProjectionInv
  <2> QED
    BY <2>2, <2>3
<1>4. CASE Upload(w)
  <2>1. PICK c \in run[w].left :
           /\ points' = points \cup {<<run[w].target, c>>}
           /\ Go(w, "upload", [run[w] EXCEPT !.left = @ \ {c}])
    BY <1>4 DEF Upload
  <2>2. manifests' = manifests /\ wpc[w] = "upload"
    BY <1>4 DEF Upload
  <2>3. /\ OneRun' /\ wpc'[w] = "upload"
        /\ run'[w] = [run[w] EXCEPT !.left = @ \ {c}]
        /\ \A v \in Writers \ {w} : wpc'[v] = "idle"
    BY <1>1, <2>1, OneRunMoves DEF Go
  <2>4. /\ run'[w].target = active /\ run'[w].chunks = run[w].chunks
        /\ run'[w].left = run[w].left \ {c}
    BY <1>2, <2>3 DEF RunRow
  <2>5. c \in PointsOf(active)'
    <3>1. <<active, c>> \in points'
      BY <1>2, <2>1
    <3> QED
      BY <1>2, <3>1 DEF PointsOf
  <2>6. PointsOf(active) \subseteq PointsOf(active)'
    BY <1>2, <2>1 DEF PointsOf
  <2>7. run'[w].chunks \subseteq run'[w].left \cup PointsOf(active)'
    BY <1>2, <2>2, <2>4, <2>5, <2>6 DEF ProjectingOK
  <2>8. \A v \in Writers : ProjectingOK(v)'
    BY <1>2, <2>2, <2>3, <2>4, <2>7 DEF ProjectingOK
  <2>9. ManifestsAreOfGenerations' /\ VectorsOfReady'
    BY <1>2, <2>2, <2>6 DEF ProjectionInv, ManifestsAreOfGenerations, VectorsOfReady, Ready
  <2> QED
    BY <2>3, <2>8, <2>9 DEF ProjectionInv
<1>5. CASE Finalize(w)
  <2>1. /\ End(w) /\ points' = points /\ run[w].left = {} /\ wpc[w] = "upload"
        /\ manifests' \subseteq manifests \cup {active}
    BY <1>2, <1>5 DEF Finalize
  <2>2. /\ OneRun' /\ wpc'[w] = "idle"
        /\ \A v \in Writers \ {w} : wpc'[v] = "idle"
    BY <1>1, <2>1, OneRunMoves DEF End
  <2>3. \A v \in Writers : ProjectingOK(v)'
    BY <2>2 DEF ProjectingOK
  <2>4. gens[active] \subseteq PointsOf(active)
    BY <1>2, <2>1 DEF ProjectingOK
  <2>5. VectorsOfReady'
    BY <1>2, <2>1, <2>4 DEF VectorsOfReady, PointsOf
  <2>6. ManifestsAreOfGenerations'
    <3>1. active \in Nat
      <4>1. Len(gens) \in Nat
        BY DEF RepoTypeOK
      <4> QED
        BY <4>1 DEF RepoTypeOK
    <3> QED
      BY <1>2, <2>1, <3>1 DEF ProjectionInv, ManifestsAreOfGenerations
  <2> QED
    BY <2>2, <2>3, <2>5, <2>6 DEF ProjectionInv
<1> QED
  BY <1>3, <1>4, <1>5 DEF Projection

(* Every step preserves what is known of the projection.                   *)
LEMMA ProjectionInvariant ==
    ASSUME RepoTypeOK, ProjectionInv, [RepoNext]_repoVars, ~RemoveSidecar
    PROVE  ProjectionInv'
<1>1. ASSUME NEW f \in Files, Edit(f) PROVE ProjectionInv'
  BY <1>1, ProjectionIgnores DEF Edit, writerVars
<1>2. ASSUME NEW w \in Writers, Acquire(w) PROVE ProjectionInv'
  <2>1. PICK full \in BOOLEAN :
           /\ wpc' = [wpc EXCEPT ![w] = "list"]
           /\ run' = [run EXCEPT ![w] = [NoRun EXCEPT !.full = full]]
    BY <1>2 DEF Acquire, Go
  <2>2. NoWriter /\ UNCHANGED <<indexVars, qdrantVars>>
    BY <1>2 DEF Acquire
  <2> QED
    BY <2>1, <2>2, ScanningKeepsProjection
<1>3. ASSUME NEW w \in Writers, Capture(w) PROVE ProjectionInv'
  <2>1. PICK step \in {"idle", "list", "read", "revalidate"}, state \in {run'[w]} :
           /\ wpc[w] # "idle"
           /\ wpc' = [wpc EXCEPT ![w] = step] /\ run' = [run EXCEPT ![w] = state]
    BY <1>3 DEF Capture, List, ReadFile, ListAgain, Revalidate, Repeat, Go, End, RepoTypeOK
  <2> QED
    BY <1>3, <2>1, ScanningKeepsProjection
    DEF Capture, List, ReadFile, ListAgain, Revalidate, Quiet
<1>4. ASSUME NEW w \in Writers, Stop(w) PROVE ProjectionInv'
  BY <1>4, EndKeepsProjection DEF Stop
<1>5. ASSUME NEW r \in Readers, Session(r) \/ Lookup(r) PROVE ProjectionInv'
  BY <1>5, ProjectionIgnores
  DEF Session, Serve, Exit, Ask, Reply, Reject, Done, Lookup, Resolve, Fetch, CachedEdges,
      LoadEdges, Calm, writerVars
<1>7. CASE UNCHANGED repoVars
  BY <1>7, ProjectionIgnores DEF repoVars, writerVars
<1> QED
  BY <1>1, <1>2, <1>3, <1>4, <1>5, <1>7,
     PublishKeepsProjection, ProjectionKeepsProjection DEF RepoNext, Index

(* The counter of removals, which grows by one with each.                  *)
Untouched == removals = 0 => ProjectionInv

(* Without removals no sidecar was ever removed.                           *)
LEMMA RemovalsAreCounted ==
    ASSUME removals \in Nat, [RepoNext]_repoVars, removals' = 0
    PROVE  removals = 0 /\ ~RemoveSidecar
<1>1. ~RemoveSidecar
  BY DEF RemoveSidecar
<1>2. ASSUME NEW f \in Files, Edit(f) PROVE UNCHANGED removals
  BY <1>2 DEF Edit
<1>3. ASSUME NEW w \in Writers, Acquire(w) \/ Stop(w) \/ Capture(w)
      PROVE  UNCHANGED removals
  BY <1>3 DEF Acquire, Stop, Capture, List, ReadFile, ListAgain, Revalidate, Quiet
<1>4. ASSUME NEW w \in Writers, Publish(w) \/ Projection(w) PROVE UNCHANGED removals
  BY <1>4 DEF Publish, Reuse, Build, Discard, Activate, Projection, Project, Upload,
              Finalize, Quiet
<1>5. ASSUME NEW r \in Readers, Session(r) \/ Lookup(r) PROVE UNCHANGED removals
  BY <1>5 DEF Session, Serve, Exit, Ask, Reply, Reject, Done, Lookup, Resolve, Fetch,
              CachedEdges, LoadEdges, Calm
<1>6. CASE UNCHANGED repoVars
  BY <1>1, <1>6 DEF repoVars
<1>7. QED
  BY <1>1, <1>2, <1>3, <1>4, <1>5, <1>6 DEF RepoNext, Index

(* As long as nobody removes the sidecar by hand, a generation that has a  *)
(* manifest has all its vectors, whenever index runs crash or overlap.     *)
THEOREM ProjectionIsWhole == RepoSpec => []ReadyIsProjected
<1>1. RepoInit => RepoTypeOK /\ Untouched
  <2>1. RepoInit => ProjectionInv
    BY DEF RepoInit, ProjectionInv, OneRun, ManifestsAreOfGenerations, ProjectingOK,
           VectorsOfReady
  <2> QED
    BY <2>1, RepoInitIsTyped DEF Untouched
<1>2. RepoTypeOK /\ Untouched /\ [RepoNext]_repoVars => (RepoTypeOK /\ Untouched)'
  <2> SUFFICES ASSUME RepoTypeOK, Untouched, [RepoNext]_repoVars, removals' = 0
               PROVE  ProjectionInv'
    BY RepoTypeInvariant DEF Untouched
  <2>1. removals \in Nat
    BY DEF RepoTypeOK
  <2> QED
    BY <2>1, RemovalsAreCounted, ProjectionInvariant DEF Untouched
<1>3. Untouched => ReadyIsProjected
  BY DEF Untouched, ProjectionInv, VectorsOfReady, ReadyIsProjected
<1> QED
  BY <1>1, <1>2, <1>3, PTL DEF RepoSpec


-----------------------------------------------------------------------------
(* What becomes active was real.  The argument: a run captures the tree    *)
(* twice, and compares.  A file that both captures found with a content    *)
(* had it in between, at the moment the second capture began; else the     *)
(* content went and came back.  So the tree of that moment is what both    *)
(* have captured, although each read the files one by one.                 *)

(* No file takes back a content it has had during the current run.         *)
NothingReturns == \A f \in Files : tree'[f] # tree[f] =>
    \A m \in moments : Of(m, {f}) # Of(Rows(tree'), {f})

Scanning == {"list", "read", "revalidate"}

(* The files the current capture of a run has dealt with.                  *)
Dealt(w) == {f \in Files : \/ wpc[w] = "revalidate"
                           \/ wpc[w] = "read" /\ f \notin run[w].unread}

(* Each file was once as the capture has it.                               *)
SawMoments(w) ==
    /\ Rows(tree) \in moments
    /\ \A f \in Dealt(w) : \E m \in moments : Of(m, {f}) = Of(run[w].got, {f})
    /\ wpc[w] = "read" => Paths(run[w].got) \cap run[w].unread = {}

(* The moment between the captures, for one file: it had been as captured  *)
(* first; if it was different then, it still is, and the second capture    *)
(* shows the difference.                                                   *)
StoodBetween(w, between, f) ==
    LET S == Of(run[w].snapshot, {f}) IN
    /\ \E m \in moments : Of(m, {f}) = S
    /\ Of(Rows(tree), {f}) = S => Of(between, {f}) = S
    /\ f \in Dealt(w) /\ Of(run[w].got, {f}) = S => Of(between, {f}) = S

Rescanning(w) == run[w].building /\ wpc[w] \in Scanning

Compared(w) ==
    Rescanning(w) => \E between \in moments : \A f \in Files : StoodBetween(w, between, f)

RunOK(w) == wpc[w] # "idle" => SawMoments(w) /\ Compared(w)

CaptureInv == OneRun /\ \A w \in Writers : RunOK(w)

(* The rows of one file in the tree, and which files have rows.            *)
LEMMA RowsOfFile ==
    ASSUME RepoTypeOK
    PROVE  /\ \A f \in Files : Of(Rows(tree), {f}) = IF tree[f] = 0 THEN {} ELSE {<<f, tree[f]>>}
           /\ \A f \in Files \ Inventory : Of(Rows(tree), {f}) = {}
<1>1. \A f \in Files : Of(Rows(tree), {f}) = IF tree[f] = 0 THEN {} ELSE {<<f, tree[f]>>}
  BY DEF Of, Rows
<1>2. \A f \in Files : f \notin Paths(Rows(tree)) => tree[f] = 0
  <2> SUFFICES ASSUME NEW f \in Files, tree[f] # 0 PROVE f \in Paths(Rows(tree))
    OBVIOUS
  <2>1. <<f, tree[f]>> \in Rows(tree)
    BY DEF Rows
  <2> QED
    BY <2>1 DEF Paths
<1> QED
  BY <1>1, <1>2 DEF Inventory

(* Sets of rows that agree on each file are equal.                         *)
LEMMA SameRows ==
    ASSUME NEW a \in Rowset, NEW b \in Rowset, \A f \in Files : Of(a, {f}) = Of(b, {f})
    PROVE  a = b
<1>1. ASSUME NEW x \in Rowset, NEW y \in Rowset, NEW p \in x,
             \A f \in Files : Of(x, {f}) = Of(y, {f})
      PROVE  p \in y
  <2>1. p[1] \in Files
    BY <1>1 DEF Rowset, Row
  <2>2. p \in Of(x, {p[1]})
    BY DEF Of
  <2>3. p \in Of(y, {p[1]})
    BY <1>1, <2>1, <2>2
  <2> QED
    BY <2>3 DEF Of
<1>2. a \subseteq b /\ b \subseteq a
  BY <1>1
<1> QED
  BY <1>2

(* The first of some files is one of them.                                 *)
LEMMA FirstIsThere ==
    ASSUME NEW s \in SUBSET Files, s # {}
    PROVE  First(s) \in s
<1>1. s \in SUBSET Nat
  BY RepoAssumption DEF Files
<1>2. PICK x \in s : \A y \in s : x <= y
  BY <1>1, LeastNumber
<1> QED
  BY <1>2 DEF First

(* One run moves while the others have ended.                              *)
LEMMA RunMoves ==
    ASSUME RepoTypeOK, CaptureInv, NEW w \in Writers, NEW step, NEW state,
           wpc[w] # "idle" \/ NoWriter,
           wpc' = [wpc EXCEPT ![w] = step], run' = [run EXCEPT ![w] = state],
           RunOK(w)'
    PROVE  CaptureInv'
<1>1. \A v \in Writers \ {w} : wpc[v] = "idle"
  BY DEF CaptureInv, OneRun, NoWriter
<1>2. \A v \in Writers \ {w} : wpc'[v] = "idle"
  BY <1>1 DEF RepoTypeOK
<1>3. \A v \in Writers : RunOK(v)'
  BY <1>2 DEF RunOK
<1> QED
  BY <1>2, <1>3 DEF CaptureInv, OneRun

(* A run that ends, or projects, has nothing to compare.                   *)
LEMMA LeavingScan ==
    ASSUME RepoTypeOK, CaptureInv, NEW w \in Writers, NEW step, NEW state,
           wpc[w] # "idle",
           wpc' = [wpc EXCEPT ![w] = step], run' = [run EXCEPT ![w] = state],
           step \in {"idle", "project", "upload"}, UNCHANGED fileVars
    PROVE  CaptureInv'
<1>1. wpc'[w] = step
  BY DEF RepoTypeOK
<1>2. Rows(tree)' \in moments'
  BY DEF CaptureInv, RunOK, SawMoments, fileVars
<1>3. SawMoments(w)' /\ Compared(w)'
  BY <1>1, <1>2 DEF SawMoments, Dealt, Compared, Rescanning, Scanning
<1> QED
  BY <1>3, RunMoves DEF RunOK

(* An edit adds a moment; what differed from a capture cannot come back.   *)
LEMMA EditKeepsCaptures ==
    ASSUME RepoTypeOK, RepoTypeOK', CaptureInv, NEW g \in Files, Edit(g), NothingReturns
    PROVE  CaptureInv'
<1>1. wpc' = wpc /\ run' = run
  BY DEF Edit, writerVars
<1>2. CASE NoWriter
  BY <1>1, <1>2 DEF CaptureInv, OneRun, RunOK, NoWriter
<1>3. CASE ~NoWriter
  <2>1. moments' = moments \cup {Rows(tree)'}
    BY <1>3 DEF Edit, Rows
  <2>2. ASSUME NEW f \in Files, tree'[f] = tree[f]
        PROVE  Of(Rows(tree)', {f}) = Of(Rows(tree), {f})
    <3>1. Of(Rows(tree), {f}) = IF tree[f] = 0 THEN {} ELSE {<<f, tree[f]>>}
      BY RowsOfFile
    <3>2. Of(Rows(tree), {f})' = IF tree'[f] = 0 THEN {} ELSE {<<f, tree'[f]>>}
      BY DEF Of, Rows
    <3> QED
      BY <2>2, <3>1, <3>2 DEF Of
  <2>3. ASSUME NEW f \in Files, NEW m \in moments,
               Of(Rows(tree)', {f}) = Of(m, {f})
        PROVE  Of(Rows(tree), {f}) = Of(m, {f})
    <3>1. tree'[f] = tree[f]
      BY <2>3 DEF NothingReturns, Rows
    <3> QED
      BY <2>2, <2>3, <3>1
  <2>4. ASSUME NEW w \in Writers, RunOK(w) PROVE RunOK(w)'
    <3> SUFFICES ASSUME wpc[w] # "idle" PROVE SawMoments(w)' /\ Compared(w)'
      BY <1>1 DEF RunOK
    <3>1. SawMoments(w) /\ Compared(w)
      BY <2>4 DEF RunOK
    <3>2. Dealt(w)' = Dealt(w)
      BY <1>1 DEF Dealt
    <3>3. SawMoments(w)'
      BY <1>1, <2>1, <3>1, <3>2 DEF SawMoments, Of, Paths
    <3>4. ASSUME Rescanning(w)
          PROVE  \E between \in moments' : \A f \in Files : StoodBetween(w, between, f)'
      <4>1. PICK between \in moments : \A f \in Files : StoodBetween(w, between, f)
        BY <3>1, <3>4 DEF Compared
      <4>2. ASSUME NEW f \in Files PROVE StoodBetween(w, between, f)'
        <5> DEFINE S == Of(run[w].snapshot, {f})
        <5>1. /\ \E m \in moments : Of(m, {f}) = S
              /\ Of(Rows(tree), {f}) = S => Of(between, {f}) = S
              /\ f \in Dealt(w) /\ Of(run[w].got, {f}) = S => Of(between, {f}) = S
          BY <4>1 DEF StoodBetween
        <5>2. Of(Rows(tree)', {f}) = S => Of(Rows(tree), {f}) = S
          BY <2>3, <5>1
        <5>3. S' = S /\ Of(run[w].got, {f})' = Of(run[w].got, {f})
          BY <1>1 DEF Of
        <5>4. \E m \in moments' : Of(m, {f}) = S
          BY <2>1, <5>1
        <5>5. Of(Rows(tree), {f})' = Of(Rows(tree)', {f})
          BY DEF Of
        <5> HIDE DEF S
        <5>6. /\ \E m \in moments' : Of(m, {f}) = S
              /\ Of(Rows(tree)', {f}) = S => Of(between, {f}) = S
              /\ f \in Dealt(w)' /\ Of(run[w].got, {f})' = S => Of(between, {f}) = S
          BY <3>2, <5>1, <5>2, <5>3, <5>4
        <5> QED
          BY <5>3, <5>5, <5>6 DEF StoodBetween, S, Of
      <4> QED
        BY <2>1, <4>1, <4>2
    <3>5. Rescanning(w)' => Rescanning(w)
      BY <1>1 DEF Rescanning
    <3> QED
      BY <3>3, <3>4, <3>5 DEF Compared
  <2> QED
    BY <1>1, <2>4 DEF CaptureInv, OneRun
<1> QED
  BY <1>2, <1>3

(* A run begins, and sees the tree of this moment.                         *)
LEMMA AcquireKeepsCaptures ==
    ASSUME RepoTypeOK, CaptureInv, NEW w \in Writers, Acquire(w)
    PROVE  CaptureInv'
<1>1. PICK full \in BOOLEAN : Go(w, "list", [NoRun EXCEPT !.full = full])
  BY DEF Acquire
<1>2. NoWriter /\ moments' = {Rows(tree)} /\ tree' = tree
  BY DEF Acquire
<1>3. wpc'[w] = "list" /\ run'[w] = [NoRun EXCEPT !.full = full]
  BY <1>1 DEF Go, RepoTypeOK
<1>4. ~run'[w].building
  BY <1>3 DEF NoRun
<1>5. RunOK(w)'
  BY <1>2, <1>3, <1>4 DEF RunOK, SawMoments, Compared, Rescanning, Dealt, Rows
<1> QED
  BY <1>1, <1>2, <1>5, RunMoves DEF Go

(* What a step inside a capture leaves alone: the snapshot of the first    *)
(* capture, and the moments.                                               *)
LEMMA StepOfCapture ==
    ASSUME RepoTypeOK, CaptureInv, NEW w \in Writers, wpc[w] \in Scanning,
           NEW step \in Scanning, NEW state \in RunRow,
           Go(w, step, state), UNCHANGED fileVars,
           state.building = run[w].building, state.snapshot = run[w].snapshot,
           SawMoments(w)',
           \A f \in Files : f \in Dealt(w)' =>
               \/ f \in Dealt(w) /\ Of(state.got, {f}) = Of(run[w].got, {f})
               \/ Of(state.got, {f}) = Of(Rows(tree), {f})
    PROVE  CaptureInv'
<1>1. wpc'[w] = step /\ run'[w] = state /\ tree' = tree /\ moments' = moments
  BY DEF Go, RepoTypeOK, fileVars
<1>2. Compared(w)
  BY DEF CaptureInv, RunOK, Scanning
<1>3. ASSUME Rescanning(w)'
      PROVE  \E between \in moments' : \A f \in Files : StoodBetween(w, between, f)'
  <2>1. Rescanning(w)
    BY <1>1, <1>3 DEF Rescanning
  <2>2. PICK between \in moments : \A f \in Files : StoodBetween(w, between, f)
    BY <1>2, <2>1 DEF Compared
  <2>3. ASSUME NEW f \in Files PROVE StoodBetween(w, between, f)'
    <3>1. StoodBetween(w, between, f)
      BY <2>2
    <3>2. f \in Dealt(w)' => \/ f \in Dealt(w) /\ Of(state.got, {f}) = Of(run[w].got, {f})
                             \/ Of(state.got, {f}) = Of(Rows(tree), {f})
      OBVIOUS
    <3>3. (f \in Dealt(w))' <=> f \in Dealt(w)'
      OBVIOUS
    <3> QED
      BY <1>1, <3>1, <3>2 DEF StoodBetween, Of, Rows
  <2> QED
    BY <1>1, <2>2, <2>3
<1>4. RunOK(w)'
  BY <1>3 DEF RunOK, Compared
<1> QED
  BY <1>4, RunMoves DEF Go, Scanning

(* The steps of a capture keep what is known of both.                      *)
LEMMA CaptureKeepsCaptures ==
    ASSUME RepoTypeOK, CaptureInv, NEW w \in Writers, Capture(w)
    PROVE  CaptureInv'
<1>1. /\ run[w] \in RunRow /\ Inventory \in SUBSET Files /\ Rows(tree) \in Rowset
      /\ wpc[w] \in Scanning /\ UNCHANGED fileVars
  BY RowsAreTyped, RepoAssumption
  DEF RepoTypeOK, Inventory, Capture, List, ReadFile, ListAgain, Revalidate, Quiet, Scanning
<1>2. SawMoments(w)
  BY <1>1 DEF CaptureInv, RunOK, Scanning
<1>3. Rows(tree)' \in moments' /\ moments' = moments
  BY <1>1, <1>2 DEF SawMoments, fileVars
<1>4. CASE List(w)
  <2> DEFINE state == [run[w] EXCEPT !.inventory = Inventory, !.unread = Inventory, !.got = {}]
  <2>1. /\ state \in RunRow /\ state.building = run[w].building
        /\ state.snapshot = run[w].snapshot /\ state.unread = Inventory /\ state.got = {}
    BY <1>1 DEF RunRow, Rowset
  <2> HIDE DEF state
  <2>2. Go(w, "read", state)
    BY <1>4 DEF List, state
  <2>3. wpc'[w] = "read" /\ run'[w] = state
    BY <2>2 DEF Go, RepoTypeOK
  <2>4. \A f \in Files : f \in Dealt(w)' => Of(state.got, {f}) = Of(Rows(tree), {f})
    <3>1. \A f \in Files : Of(state.got, {f}) = {}
      BY <2>1 DEF Of
    <3>2. \A f \in Files : f \in Dealt(w)' => f \notin Inventory
      BY <2>1, <2>3 DEF Dealt
    <3> QED
      BY <3>1, <3>2, RowsOfFile
  <2>5. SawMoments(w)'
    <3>1. Paths({}) = {} /\ Rows(tree) \in moments
      BY <1>2 DEF Paths, SawMoments
    <3>2. \A f \in Files : f \in Dealt(w)' => \E m \in moments : Of(m, {f}) = Of(state.got, {f})
      BY <2>4, <3>1
    <3>3. Dealt(w)' \subseteq Files
      BY DEF Dealt
    <3> QED
      BY <1>3, <2>1, <2>3, <3>1, <3>2, <3>3 DEF SawMoments
  <2> QED
    BY <1>1, <2>1, <2>2, <2>4, <2>5, StepOfCapture DEF Scanning
<1>5. CASE ReadFile(w)
  <2> DEFINE f == First(run[w].unread)
             state == [run[w] EXCEPT !.unread = run[w].unread \ {f},
                                     !.got = run[w].got \cup Of(Rows(tree), {f})]
  <2>1. run[w].unread \in SUBSET Files /\ run[w].unread # {} /\ wpc[w] = "read"
    BY <1>1, <1>5 DEF ReadFile, RunRow
  <2>2. f \in run[w].unread
    BY <2>1, FirstIsThere
  <2>3. Of(Rows(tree), {f}) \in Rowset
    BY <1>1, RowsAreTyped
  <2>4. Go(w, "read", state)
    BY <1>5 DEF ReadFile
  <2> HIDE DEF f
  <2>5. /\ state \in RunRow /\ state.building = run[w].building
        /\ state.snapshot = run[w].snapshot /\ state.unread = run[w].unread \ {f}
        /\ state.got = run[w].got \cup Of(Rows(tree), {f})
    BY <1>1, <2>3 DEF RunRow, Rowset
  <2> HIDE DEF state
  <2>6. wpc'[w] = "read" /\ run'[w] = state
    BY <2>4 DEF Go, RepoTypeOK
  <2>7. Paths(run[w].got) \cap run[w].unread = {}
    BY <1>2, <2>1 DEF SawMoments
  <2>8. Of(run[w].got, {f}) = {}
    BY <2>2, <2>7 DEF Of, Paths
  <2>9. Of(state.got, {f}) = Of(Rows(tree), {f})
    BY <2>5, <2>8 DEF Of
  <2>10. \A h \in Files \ {f} : Of(state.got, {h}) = Of(run[w].got, {h})
    BY <2>5 DEF Of
  <2>11. Dealt(w)' \subseteq Dealt(w) \cup {f} /\ Dealt(w)' \subseteq Files
    BY <2>1, <2>5, <2>6 DEF Dealt
  <2>12. \A h \in Files : h \in Dealt(w)' =>
           \/ h \in Dealt(w) /\ Of(state.got, {h}) = Of(run[w].got, {h})
           \/ Of(state.got, {h}) = Of(Rows(tree), {h})
    BY <2>9, <2>10, <2>11
  <2>13. Paths(state.got) \cap state.unread = {}
    BY <2>5, <2>7 DEF Paths, Of
  <2>14. SawMoments(w)'
    <3>1. \A h \in Files : h \in Dealt(w)' => \E m \in moments : Of(m, {h}) = Of(state.got, {h})
      BY <1>2, <2>12 DEF SawMoments
    <3> QED
      BY <1>3, <2>6, <2>11, <2>13, <3>1 DEF SawMoments
  <2> QED
    BY <1>1, <2>4, <2>5, <2>12, <2>14, StepOfCapture DEF Scanning
<1>6. ASSUME Repeat(w), Dealt(w) \subseteq Files PROVE CaptureInv'
  <2>1. CASE End(w)
    BY <1>1, <2>1, LeavingScan DEF End, Scanning
  <2>2. CASE ~End(w)
    <3> DEFINE state == [run[w] EXCEPT !.tries = run[w].tries + 1]
    <3>1. Go(w, "list", state)
      BY <1>6, <2>2 DEF Repeat
    <3>2. /\ state \in RunRow /\ state.building = run[w].building
          /\ state.snapshot = run[w].snapshot
      BY <1>1 DEF RunRow
    <3> HIDE DEF state
    <3>3. wpc'[w] = "list" /\ run'[w] = state
      BY <3>1 DEF Go, RepoTypeOK
    <3>4. Dealt(w)' = {}
      BY <3>3 DEF Dealt
    <3>5. SawMoments(w)'
      BY <1>3, <3>3, <3>4 DEF SawMoments
    <3> QED
      BY <1>1, <3>1, <3>2, <3>4, <3>5, StepOfCapture DEF Scanning
  <2> QED
    BY <2>1, <2>2
<1>7. Dealt(w) \subseteq Files
  BY DEF Dealt
<1>8. ASSUME wpc[w] = "revalidate" \/ (wpc[w] = "read" /\ run[w].unread = {}),
             NEW state \in RunRow, Go(w, "revalidate", state),
             state.building = run[w].building, state.snapshot = run[w].snapshot,
             state.got = run[w].got
      PROVE  CaptureInv'
  <2>1. wpc'[w] = "revalidate" /\ run'[w] = state
    BY <1>8 DEF Go, RepoTypeOK
  <2>2. Dealt(w) = Files /\ Dealt(w)' = Files
    BY <1>8, <2>1 DEF Dealt
  <2>3. SawMoments(w)'
    BY <1>2, <1>3, <1>8, <2>1, <2>2 DEF SawMoments
  <2> QED
    BY <1>1, <1>8, <2>2, <2>3, StepOfCapture DEF Scanning
<1>9. CASE ListAgain(w)
  <2>1. CASE Inventory = run[w].inventory
    <3> DEFINE state == [run[w] EXCEPT !.unread = Paths(run[w].got)]
    <3>1. Go(w, "revalidate", state)
      BY <1>9, <2>1 DEF ListAgain
    <3>2. Paths(run[w].got) \in SUBSET Files
      BY <1>1, RowsAreTyped DEF RunRow
    <3>3. /\ state \in RunRow /\ state.building = run[w].building
          /\ state.snapshot = run[w].snapshot /\ state.got = run[w].got
      BY <1>1, <3>2 DEF RunRow
    <3> HIDE DEF state
    <3>4. wpc[w] = "read" /\ run[w].unread = {}
      BY <1>9 DEF ListAgain
    <3> QED
      BY <1>8, <3>1, <3>3, <3>4
  <2>2. CASE Inventory # run[w].inventory
    BY <1>6, <1>7, <1>9, <2>2 DEF ListAgain
  <2> QED
    BY <2>1, <2>2
<1>10. CASE Revalidate(w)
  <2> DEFINE f == First(run[w].unread)
  <2>1. CASE Of(Rows(tree), {f}) = Of(run[w].got, {f})
    <3> DEFINE state == [run[w] EXCEPT !.unread = run[w].unread \ {f}]
    <3>1. Go(w, "revalidate", state)
      BY <1>10, <2>1 DEF Revalidate
    <3> HIDE DEF f
    <3>2. /\ state \in RunRow /\ state.building = run[w].building
          /\ state.snapshot = run[w].snapshot /\ state.got = run[w].got
      BY <1>1 DEF RunRow
    <3> HIDE DEF state
    <3>3. wpc[w] = "revalidate"
      BY <1>10 DEF Revalidate
    <3> QED
      BY <1>8, <3>1, <3>2, <3>3
  <2>2. CASE Of(Rows(tree), {f}) # Of(run[w].got, {f})
    BY <1>6, <1>7, <1>10, <2>2 DEF Revalidate
  <2> QED
    BY <2>1, <2>2
<1> QED
  BY <1>4, <1>5, <1>9, <1>10 DEF Capture

(* A capture is complete: every file has been dealt with.                  *)
LEMMA CapturedAll ==
    ASSUME NEW w \in Writers, Captured(w)
    PROVE  Dealt(w) = Files /\ wpc[w] = "revalidate" /\ wpc[w] \in Scanning
BY DEF Captured, Dealt, Scanning

(* The second capture begins: the tree of this moment is the one between.  *)
LEMMA BuildKeepsCaptures ==
    ASSUME RepoTypeOK, CaptureInv, NEW w \in Writers, Build(w)
    PROVE  CaptureInv'
<1> DEFINE state == [NoRun EXCEPT !.full = run[w].full, !.building = TRUE,
                                  !.snapshot = run[w].got]
<1>1. Captured(w) /\ Go(w, "list", state) /\ UNCHANGED fileVars
  BY DEF Build, Quiet
<1>2. state.snapshot = run[w].got
  BY DEF NoRun
<1> HIDE DEF state
<1>3. wpc'[w] = "list" /\ run'[w] = state /\ tree' = tree /\ moments' = moments
  BY <1>1 DEF Go, RepoTypeOK, fileVars
<1>4. SawMoments(w) /\ Dealt(w) = Files
  BY <1>1, CapturedAll DEF CaptureInv, RunOK, Scanning
<1>5. Dealt(w)' = {} /\ Rows(tree)' = Rows(tree) /\ Rows(tree) \in moments
  BY <1>3, <1>4 DEF Dealt, Rows, SawMoments
<1>6. SawMoments(w)'
  BY <1>3, <1>5 DEF SawMoments
<1>7. ASSUME NEW f \in Files PROVE StoodBetween(w, Rows(tree), f)'
  <2>1. \E m \in moments : Of(m, {f}) = Of(run[w].got, {f})
    BY <1>4 DEF SawMoments
  <2> QED
    BY <1>2, <1>3, <1>5, <2>1 DEF StoodBetween, Of
<1>8. Compared(w)'
  BY <1>3, <1>5, <1>7 DEF Compared
<1> QED
  BY <1>1, <1>6, <1>8, RunMoves DEF RunOK, Go, CapturedAll, Captured

(* A generation is published: it is the tree of the moment between.        *)
LEMMA ActivatedWasReal ==
    ASSUME RepoTypeOK, CaptureInv, NEW w \in Writers, Activate(w)
    PROVE  gens'[active'] \in moments'
<1>1. /\ Captured(w) /\ run[w].building /\ run[w].got = run[w].snapshot
      /\ gens' = Append(gens, run[w].snapshot) /\ active' = Len(gens) + 1
      /\ moments' = moments
  BY DEF Activate, fileVars
<1>2. run[w] \in RunRow /\ gens \in Seq(Rowset) /\ moments \subseteq Rowset
  BY DEF RepoTypeOK
<1>3. run[w].snapshot \in Rowset
  BY <1>2 DEF RunRow
<1>4. gens'[active'] = run[w].snapshot
  BY <1>1, <1>2, <1>3
<1>5. Dealt(w) = Files /\ Rescanning(w) /\ Compared(w)
  BY <1>1, CapturedAll DEF Rescanning, CaptureInv, RunOK, Scanning
<1>6. PICK between \in moments : \A f \in Files : StoodBetween(w, between, f)
  BY <1>5 DEF Compared
<1>7. \A f \in Files : Of(between, {f}) = Of(run[w].snapshot, {f})
  BY <1>1, <1>5, <1>6 DEF StoodBetween
<1>8. between = run[w].snapshot
  BY <1>2, <1>3, <1>6, <1>7, SameRows
<1> QED
  BY <1>1, <1>4, <1>6, <1>8

(* Every step keeps what is known of the captures, as long as no content   *)
(* comes back.                                                             *)
LEMMA CaptureInvariant ==
    ASSUME RepoTypeOK, RepoTypeOK', CaptureInv, [RepoNext]_repoVars,
           NothingReturns \/ UNCHANGED repoVars
    PROVE  CaptureInv'
<1>1. ASSUME UNCHANGED <<fileVars, wpc, run>> PROVE CaptureInv'
  <2>1. ASSUME NEW w \in Writers PROVE RunOK(w) => RunOK(w)'
    <3>1. /\ wpc' = wpc /\ run' = run /\ moments' = moments
          /\ Rows(tree)' = Rows(tree) /\ Dealt(w)' = Dealt(w)
      BY <1>1 DEF Rows, Dealt, fileVars
    <3>2. SawMoments(w)' <=> SawMoments(w)
      BY <3>1 DEF SawMoments
    <3>3. \A between \in moments : \A f \in Files :
            StoodBetween(w, between, f)' <=> StoodBetween(w, between, f)
      BY <3>1 DEF StoodBetween
    <3>4. Compared(w)' <=> Compared(w)
      BY <3>1, <3>3 DEF Compared, Rescanning
    <3> QED
      BY <3>1, <3>2, <3>4 DEF RunOK
  <2> QED
    BY <1>1, <2>1 DEF CaptureInv, OneRun
<1>2. ASSUME NEW f \in Files, Edit(f) PROVE CaptureInv'
  <2>1. CASE NothingReturns
    BY <1>2, <2>1, EditKeepsCaptures
  <2>2. CASE UNCHANGED repoVars
    BY <1>1, <2>2 DEF repoVars, writerVars
  <2> QED
    BY <2>1, <2>2
<1>3. ASSUME NEW w \in Writers, Publish(w) PROVE CaptureInv'
  <2>1. CASE Reuse(w)
    BY <1>3, <2>1, LeavingScan DEF Reuse, Captured, Go, Quiet
  <2>2. CASE Build(w)
    BY <2>2, BuildKeepsCaptures
  <2>3. CASE Discard(w)
    BY <2>3, LeavingScan DEF Discard, Captured, End, Quiet
  <2>4. CASE Activate(w)
    BY <2>4, LeavingScan DEF Activate, Captured, Go
  <2> QED
    BY <1>3, <2>1, <2>2, <2>3, <2>4 DEF Publish
<1>4. ASSUME NEW w \in Writers, Projection(w) PROVE CaptureInv'
  <2>1. CASE Project(w)
    BY <2>1, LeavingScan DEF Project, Go, End, Quiet
  <2>2. CASE Upload(w)
    BY <2>2, LeavingScan DEF Upload, Go
  <2>3. CASE Finalize(w)
    BY <2>3, LeavingScan DEF Finalize, End
  <2> QED
    BY <1>4, <2>1, <2>2, <2>3 DEF Projection
<1>5. ASSUME NEW w \in Writers, Stop(w) PROVE CaptureInv'
  BY <1>5, LeavingScan DEF Stop, End
<1>6. ASSUME NEW r \in Readers, Session(r) \/ Lookup(r) PROVE CaptureInv'
  BY <1>1, <1>6
  DEF Session, Serve, Exit, Ask, Reply, Reject, Done, Lookup, Resolve, Fetch, CachedEdges,
      LoadEdges, Calm, writerVars
<1>7. ASSUME RemoveSidecar \/ UNCHANGED repoVars PROVE CaptureInv'
  BY <1>1, <1>7 DEF RemoveSidecar, writerVars, repoVars
<1> QED
  BY <1>2, <1>3, <1>4, <1>5, <1>6, <1>7, AcquireKeepsCaptures, CaptureKeepsCaptures
  DEF RepoNext, Index

(* Only the commit of a new generation makes another one active.           *)
LEMMA OnlyActivatePublishes ==
    ASSUME [RepoNext]_repoVars, active' # active, active' # 0
    PROVE  \E w \in Writers : Activate(w)
<1>1. ASSUME NEW f \in Files, Edit(f) PROVE active' = active
  BY <1>1 DEF Edit, indexVars
<1>2. ASSUME NEW w \in Writers, Acquire(w) \/ Stop(w) \/ Capture(w) PROVE active' = active
  BY <1>2 DEF Acquire, Stop, Capture, List, ReadFile, ListAgain, Revalidate, Quiet, indexVars
<1>3. ASSUME NEW w \in Writers, Publish(w) \/ Projection(w), ~Activate(w) PROVE active' = active
  BY <1>3 DEF Publish, Reuse, Build, Discard, Projection, Project, Upload, Finalize, Quiet, indexVars
<1>4. ASSUME NEW r \in Readers, Session(r) \/ Lookup(r) PROVE active' = active
  BY <1>4 DEF Session, Serve, Exit, Ask, Reply, Reject, Done, Lookup, Resolve, Fetch,
              CachedEdges, LoadEdges, Calm, indexVars
<1>5. ASSUME RemoveSidecar PROVE active' = 0
  BY <1>5 DEF RemoveSidecar
<1>6. CASE UNCHANGED repoVars
  BY <1>6 DEF repoVars, indexVars
<1> QED
  BY <1>1, <1>2, <1>3, <1>4, <1>5, <1>6 DEF RepoNext, Index

(* What becomes active is a state the working tree was in during the run,  *)
(* whatever is edited while the files are read one by one, as long as no   *)
(* file takes back a content it had since the run began.  The double       *)
(* capture of IndexRepositoryService.execute rests on that.                *)
THEOREM PublishedTreesWereReal ==
    RepoSpec /\ [][NothingReturns]_repoVars => PublishedWasReal
<1>1. RepoInit => RepoTypeOK /\ CaptureInv
  <2>1. RepoInit => CaptureInv
    BY DEF RepoInit, CaptureInv, OneRun, RunOK
  <2> QED
    BY <2>1, RepoInitIsTyped
<1>2. RepoTypeOK /\ CaptureInv /\ [RepoNext]_repoVars /\ [NothingReturns]_repoVars
      => (RepoTypeOK /\ CaptureInv)'
  BY RepoTypeInvariant, CaptureInvariant
<1>3. RepoTypeOK /\ CaptureInv /\ [RepoNext]_repoVars
      => [active' # active /\ active' # 0 => gens'[active'] \in moments']_repoVars
  BY OnlyActivatePublishes, ActivatedWasReal
<1> QED
  BY <1>1, <1>2, <1>3, PTL DEF RepoSpec, PublishedWasReal

-----------------------------------------------------------------------------
(* Lists in the orders that CodeGraph uses.                                *)
Sym  == [file : Sources, qual : Name \ {<<>>}]
Ends == Sym \cup {NoSymbol}
Edge == [file : Sources, source : Ends, rel : Nat, name : Name \ {<<>>}, at : Nat,
         target : Ends, conf : Confidence]

(* SqlOrder lists the edges of a finite set, each once.                    *)
LEMMA SqlOrderIs ==
    ASSUME NEW E \in SUBSET Edge, IsFiniteSet(E)
    PROVE  Listing(SqlOrder(E), E)
<1> DEFINE Sooner(x, y) == x.conf > y.conf \/ (x.conf = y.conf /\ x.at < y.at)
           R == {p \in E \X E : Sooner(p[1], p[2])}
           a == [e \in E |-> 10000 - e.conf]
           b == [e \in E |-> e.at]
<1>1. SqlOrder(E) = Sorted(E, R)
  BY DEF SqlOrder, InOrder
<1>2. \A e \in E : e.conf \in Nat /\ 10000 - e.conf \in Nat /\ e.at \in Nat
  <2>1. \A e \in E : e.conf \in Confidence /\ e.at \in Nat
    BY DEF Edge
  <2>2. \A c \in Confidence : c \in Nat /\ 10000 - c \in Nat
    BY DEF Confidence
  <2> QED
    BY <2>1, <2>2
<1>3. a \in [E -> Nat] /\ b \in [E -> Nat]
  BY <1>2
<1>4. \A x, y \in E : <<x, y>> \in R => Sooner(x, y)
  <2> HIDE DEF Sooner
  <2> QED
    OBVIOUS
<1>5. \A x, y \in E : <<x, y>> \in R => a[x] < a[y] \/ (a[x] = a[y] /\ b[x] < b[y])
  <2> HIDE DEF R
  <2> QED
    BY <1>2, <1>4
<1> HIDE DEF R, a, b
<1>6. Listing(Sorted(E, R), E)
  BY <1>3, <1>5, SortedByTwo
<1> QED
  BY <1>1, <1>6

(* The neighbours of a node: those of the edges shown, each at least once. *)
LEMMA NeighborsIs ==
    ASSUME NEW s, NEW q, EdgesShown(s, q) \in SUBSET Edge, IsFiniteSet(EdgesShown(s, q))
    PROVE  /\ Len(NeighborsInOrder(s, q)) \in Nat
           /\ DOMAIN NeighborsInOrder(s, q) = 1..Len(NeighborsInOrder(s, q))
           /\ \A i \in DOMAIN NeighborsInOrder(s, q) :
                 \E e \in EdgesShown(s, q) : NeighborsInOrder(s, q)[i] = Neighbor(e, s)
           /\ \A e \in EdgesShown(s, q) : \E i \in DOMAIN NeighborsInOrder(s, q) :
                 NeighborsInOrder(s, q)[i] = Neighbor(e, s)
<1> DEFINE E == EdgesShown(s, q)
           Sooner(x, y) == x.rel < y.rel \/ (x.rel = y.rel /\ x.at < y.at)
           R == {p \in E \X E : Sooner(p[1], p[2])}
           a == [e \in E |-> e.rel]
           b == [e \in E |-> e.at]
           order == Sorted(E, R)
<1>1. NeighborsInOrder(s, q) = [i \in DOMAIN order |-> Neighbor(order[i], s)]
  BY DEF NeighborsInOrder, InOrder
<1> HIDE DEF E
<1>2. \A e \in E : e.rel \in Nat /\ e.at \in Nat
  BY DEF Edge, E
<1>3. a \in [E -> Nat] /\ b \in [E -> Nat]
  BY <1>2
<1>4. \A x, y \in E : <<x, y>> \in R => Sooner(x, y)
  <2> HIDE DEF Sooner
  <2> QED
    OBVIOUS
<1>5. \A x, y \in E : <<x, y>> \in R => a[x] < a[y] \/ (a[x] = a[y] /\ b[x] < b[y])
  <2> HIDE DEF R
  <2> QED
    BY <1>2, <1>4
<1> HIDE DEF R, a, b
<1>6. Listing(order, E)
  <2>1. IsFiniteSet(E)
    BY DEF E
  <2> QED
    BY <1>3, <1>5, <2>1, SortedByTwo
<1> HIDE DEF order
<1>7. /\ order \in Seq(E) /\ DOMAIN order = 1..Len(order) /\ Len(order) \in Nat
      /\ \A e \in E : \E i \in DOMAIN order : order[i] = e
  BY <1>6 DEF Listing
<1> DEFINE ns == [i \in DOMAIN order |-> Neighbor(order[i], s)]
<1>8. DOMAIN ns = 1..Len(order) /\ Len(ns) = Len(order)
      /\ \A i \in DOMAIN order : ns[i] = Neighbor(order[i], s)
  BY <1>7
<1> HIDE DEF ns
<1>9. /\ Len(ns) \in Nat /\ DOMAIN ns = 1..Len(ns)
      /\ \A i \in DOMAIN ns : \E e \in E : ns[i] = Neighbor(e, s)
      /\ \A e \in E : \E i \in DOMAIN ns : ns[i] = Neighbor(e, s)
  BY <1>7, <1>8
<1>10. NeighborsInOrder(s, q) = ns
  BY <1>1, Zenon DEF ns
<1> QED
  BY <1>9, <1>10 DEF E

-----------------------------------------------------------------------------
(* The graph of a generation.                                              *)
SymbolsOf(of, f) == {Symbol(f, q) : q \in Range(of[f].symbols)}

AllSymbols(of) == UNION {SymbolsOf(of, f) : f \in Sources}

(* Symbols are those of the files the generation was made of, and an edge  *)
(* starts in a symbol of the file that holds it.                           *)
GenerationOK ==
    /\ texts \in [Sources -> Extract] /\ \A f \in Sources : texts[f] \in Contents[f] \cup {Absent}
    /\ gen \in [built : BOOLEAN, of : [Sources -> Extract], symbols : SUBSET Sym,
                edges : SUBSET Edge]
    /\ \A f \in Sources : gen.of[f] \in Contents[f] \cup {Absent}
    /\ gen.symbols = AllSymbols(gen.of)
    /\ IsFiniteSet(gen.edges)
    /\ \A e \in gen.edges : e.source \in SymbolsOf(gen.of, e.file) \cup {NoSymbol}

GraphInv == GenerationOK /\ TargetsExist /\ NothingClearIsUnresolved /\ changes \in 0..MaxChanges

(* What a file may hold.                                                   *)
LEMMA ContentIsExtract ==
    ASSUME GraphAssumption, NEW f \in Sources, NEW c \in Contents[f] \cup {Absent}
    PROVE  /\ c \in Extract /\ IsFiniteSet(c.edges)
           /\ \A e \in c.edges : e.source \in Range(c.symbols) \cup {<<>>}
<1>1. CASE c \in Contents[f]
  BY <1>1 DEF GraphAssumption
<1>2. CASE c = Absent
  <2>1. Absent \in Extract /\ Absent.edges = {}
    BY DEF Absent, Extract
  <2>2. IsFiniteSet({})
    BY FS_EmptySet
  <2> QED
    BY <1>2, <2>1, <2>2
<1> QED
  BY <1>1, <1>2

(* Symbols of a file are those of its extract, and finitely many.          *)
LEMMA SymbolsAre ==
    ASSUME GraphAssumption, NEW of, NEW f \in Sources, of[f] \in Extract
    PROVE  /\ SymbolsOf(of, f) \in SUBSET Sym /\ IsFiniteSet(SymbolsOf(of, f))
           /\ \A s \in SymbolsOf(of, f) : s.file = f
           /\ NoSymbol \notin Sym
<1> DEFINE names == of[f].symbols
<1>1. names \in Seq(Name \ {<<>>}) /\ f # 0
  BY DEF Extract, GraphAssumption, Sources
<1>2. Range(names) \in SUBSET (Name \ {<<>>}) /\ Range(names) = {names[i] : i \in 1..Len(names)}
  BY <1>1 DEF Range
<1>3. IsFiniteSet(Range(names))
  <2>1. IsFiniteSet(1..Len(names)) /\ DOMAIN names = 1..Len(names)
    BY <1>1, FS_Interval
  <2> HIDE DEF names
  <2> QED
    BY <1>2, <2>1, ImageIsFinite
<1>4. IsFiniteSet(SymbolsOf(of, f))
  <2> DEFINE g == [x \in Range(names) |-> Symbol(f, x)]
             T == {g[x] : x \in Range(names)}
  <2>1. DOMAIN g = Range(names) /\ SymbolsOf(of, f) = T
    BY DEF SymbolsOf
  <2> HIDE DEF g, names
  <2>2. IsFiniteSet(T)
    BY <1>3, <2>1, ImageIsFinite
  <2> QED
    BY <2>1, <2>2, Zenon
<1>5. SymbolsOf(of, f) \in SUBSET Sym /\ \A s \in SymbolsOf(of, f) : s.file = f
  BY <1>2 DEF SymbolsOf, Symbol, Sym
<1>6. NoSymbol \notin Sym
  BY DEF NoSymbol, Symbol, Sym, Sources
<1> QED
  BY <1>4, <1>5, <1>6

(* All symbols of a generation: finitely many, each in one file.           *)
LEMMA AllSymbolsAre ==
    ASSUME GraphAssumption, NEW of \in [Sources -> Extract]
    PROVE  /\ AllSymbols(of) \in SUBSET Sym /\ IsFiniteSet(AllSymbols(of))
           /\ \A f \in Sources : {s \in AllSymbols(of) : s.file = f} = SymbolsOf(of, f)
           /\ NoSymbol \notin Sym
<1>1. \A f \in Sources : of[f] \in Extract
  OBVIOUS
<1>2. \A f \in Sources : /\ SymbolsOf(of, f) \in SUBSET Sym /\ IsFiniteSet(SymbolsOf(of, f))
                         /\ \A s \in SymbolsOf(of, f) : s.file = f
  BY <1>1, SymbolsAre, Zenon
<1>3. IsFiniteSet(Sources)
  BY FS_Interval DEF Sources, GraphAssumption
<1> DEFINE g == [f \in Sources |-> SymbolsOf(of, f)]
           T == {g[f] : f \in Sources}
<1>4. IsFiniteSet(T)
  <2>1. DOMAIN g = Sources
    OBVIOUS
  <2> HIDE DEF g
  <2> QED
    BY <1>3, <2>1, ImageIsFinite
<1>5. \A x \in T : IsFiniteSet(x)
  BY <1>2
<1>6. AllSymbols(of) = UNION T
  BY DEF AllSymbols
<1>7. IsFiniteSet(AllSymbols(of))
  <2> HIDE DEF T
  <2> QED
    BY <1>4, <1>5, <1>6, FS_UNION
<1>8. \A f \in Sources : {s \in AllSymbols(of) : s.file = f} = SymbolsOf(of, f)
  BY <1>2 DEF AllSymbols
<1>9. AllSymbols(of) \in SUBSET Sym
  BY <1>2 DEF AllSymbols
<1>10. NoSymbol \notin Sym
  BY DEF NoSymbol, Symbol, Sym, Sources, GraphAssumption
<1> QED
  BY <1>7, <1>8, <1>9, <1>10

(* What a file contributes to a generation.                                *)
FoundOK(found, f) ==
    /\ found.symbols = SymbolsOf(texts, f)
    /\ found.edges \in SUBSET Edge /\ IsFiniteSet(found.edges)
    /\ \A e \in found.edges : e.file = f /\ e.source \in SymbolsOf(texts, f) \cup {NoSymbol}

(* An extractor's result becomes edges of the file.                        *)
LEMMA RawIsSound ==
    ASSUME GraphAssumption, GenerationOK, NEW f \in Sources
    PROVE  FoundOK(Raw(f), f)
<1> DEFINE c == texts[f]
           Ref(qual) == IF qual = <<>> THEN NoSymbol ELSE Symbol(f, qual)
           Made(e) == [file |-> f, source |-> Ref(e.source), rel |-> e.rel,
                       name |-> e.name, at |-> e.at, target |-> Ref(e.to), conf |-> e.conf]
<1>1. /\ c \in Extract /\ IsFiniteSet(c.edges)
      /\ \A e \in c.edges : e.source \in Range(c.symbols) \cup {<<>>}
  <2>1. c \in Contents[f] \cup {Absent}
    BY DEF GenerationOK
  <2> HIDE DEF c
  <2> QED
    BY <2>1, ContentIsExtract
<1>2. Raw(f).symbols = SymbolsOf(texts, f) /\ Raw(f).edges = {Made(e) : e \in c.edges}
  BY DEF Raw, SymbolsOf
<1>3. IsFiniteSet(Raw(f).edges)
  <2> DEFINE g == [e \in c.edges |-> Made(e)]
             T == {g[e] : e \in c.edges}
  <2>1. DOMAIN g = c.edges /\ Raw(f).edges = T
    BY <1>2
  <2> HIDE DEF g, c
  <2>2. IsFiniteSet(T)
    BY <1>1, <2>1, ImageIsFinite
  <2> QED
    BY <2>1, <2>2, Zenon
<1> HIDE DEF c
<1>4. ASSUME NEW qual \in Name PROVE Ref(qual) \in Ends
  BY DEF Ends, Sym, Symbol
<1>5. \A e \in c.edges : /\ e.source \in Name /\ e.rel \in Nat /\ e.name \in Name \ {<<>>}
                         /\ e.to \in Name /\ e.at \in Nat /\ e.conf \in Confidence
                         /\ e.source \in Range(c.symbols) \cup {<<>>}
  BY <1>1 DEF Extract
<1>6. ASSUME NEW e \in c.edges PROVE Ref(e.source) \in SymbolsOf(texts, f) \cup {NoSymbol}
  BY <1>5 DEF SymbolsOf, c
<1> HIDE DEF Ref
<1>7. ASSUME NEW e \in c.edges PROVE Made(e) \in Edge
  <2>1. Ref(e.source) \in Ends /\ Ref(e.to) \in Ends
    BY <1>4, <1>5
  <2> QED
    BY <1>5, <2>1 DEF Edge
<1>8. \A e \in c.edges : /\ Made(e).file = f
                         /\ Made(e).source \in SymbolsOf(texts, f) \cup {NoSymbol}
  BY <1>6
<1> HIDE DEF Made
<1> QED
  BY <1>2, <1>3, <1>7, <1>8 DEF FoundOK

(* So does what is reused of the active generation for the same text.      *)
LEMMA ReusedIsSound ==
    ASSUME GraphAssumption, GenerationOK, NEW f \in Sources, Unchanged(f)
    PROVE  FoundOK(Reused(f), f)
<1>1. gen.of \in [Sources -> Extract] /\ gen.symbols = AllSymbols(gen.of) /\ gen.of[f] = texts[f]
  BY DEF GenerationOK, Unchanged
<1>2. SymbolsOf(gen.of, f) = SymbolsOf(texts, f)
  BY <1>1 DEF SymbolsOf
<1>3. Reused(f).symbols = SymbolsOf(texts, f)
  <2>1. {s \in AllSymbols(gen.of) : s.file = f} = SymbolsOf(gen.of, f)
    BY <1>1, AllSymbolsAre
  <2> QED
    BY <1>1, <1>2, <2>1 DEF Reused
<1>4. Reused(f).edges \in SUBSET gen.edges /\ \A e \in Reused(f).edges : e.file = f
  BY DEF Reused
<1>5. IsFiniteSet(Reused(f).edges) /\ gen.edges \in SUBSET Edge
  BY <1>4, FS_Subset DEF GenerationOK
<1>6. \A e \in Reused(f).edges : e.source \in SymbolsOf(texts, f) \cup {NoSymbol}
  BY <1>2, <1>4 DEF GenerationOK
<1> QED
  BY <1>3, <1>4, <1>5, <1>6 DEF FoundOK

(* A dangling target is forgotten, the rest of the edge stays.             *)
LEMMA UndangledIs ==
    ASSUME NEW symbols \in SUBSET Sym, NEW edges \in SUBSET Edge, IsFiniteSet(edges)
    PROVE  /\ Undangled(edges, symbols) \in SUBSET Edge
           /\ IsFiniteSet(Undangled(edges, symbols))
           /\ \A u \in Undangled(edges, symbols) :
                 /\ u.target \in symbols \cup {NoSymbol}
                 /\ \E e \in edges : u.file = e.file /\ u.source = e.source
<1> DEFINE Kept(e) == IF e.target \in symbols THEN e ELSE [e EXCEPT !.target = NoSymbol]
           g == [e \in edges |-> Kept(e)]
           T == {g[e] : e \in edges}
<1>1. Undangled(edges, symbols) = T
  BY DEF Undangled
<1>2. ASSUME NEW e \in edges
      PROVE  /\ Kept(e) \in Edge /\ Kept(e).target \in symbols \cup {NoSymbol}
             /\ Kept(e).file = e.file /\ Kept(e).source = e.source
  BY DEF Edge, Ends
<1>3. IsFiniteSet(T)
  <2>1. DOMAIN g = edges
    OBVIOUS
  <2> HIDE DEF g
  <2> QED
    BY <2>1, ImageIsFinite
<1>4. \A e \in edges : g[e] = Kept(e)
  OBVIOUS
<1> HIDE DEF g, Kept
<1> QED
  BY <1>1, <1>2, <1>3, <1>4

(* The readings of a name are sets of symbols.                             *)
LEMMA TiersAre ==
    ASSUME NEW name, NEW symbols, NEW i \in 1..3
    PROVE  Tiers(name, symbols)[i] \in SUBSET symbols
<1>1. i = 1 \/ i = 2 \/ i = 3
  OBVIOUS
<1>2. Tiers(name, symbols)[1] \in SUBSET symbols
  BY DEF Tiers
<1>3. Tiers(name, symbols)[2] \in SUBSET symbols
  BY DEF Tiers
<1>4. Tiers(name, symbols)[3] \in SUBSET symbols
  BY DEF Tiers
<1> QED
  BY <1>1, <1>2, <1>3, <1>4

(* An edge is resolved if a reading of its name is unique.                 *)
LEMMA ResolvedIs ==
    ASSUME NEW symbols \in SUBSET Sym, IsFiniteSet(symbols), NEW e \in Edge,
           e.target \in symbols \cup {NoSymbol}, NoSymbol \notin Sym
    PROVE  /\ Resolved(e, symbols) \in Edge
           /\ Resolved(e, symbols).file = e.file /\ Resolved(e, symbols).source = e.source
           /\ Resolved(e, symbols).target \in symbols \cup {NoSymbol}
           /\ Resolved(e, symbols).target = NoSymbol =>
                 \A i \in 1..3 :
                    Cardinality(Tiers(Resolved(e, symbols).name, symbols)[i]) # 1
<1> DEFINE unique == UniqueTiers(e.name, symbols)
           to == CHOOSE s \in Tiers(e.name, symbols)[Min(unique)] : TRUE
           less == (e.conf * 95) \div 100
<1>1. Resolved(e, symbols) = IF e.target # NoSymbol \/ unique = {} THEN e
                             ELSE [e EXCEPT !.target = to, !.conf = less]
  BY DEF Resolved
<1>2. CASE e.target # NoSymbol
  BY <1>1, <1>2
<1>3. CASE e.target = NoSymbol /\ unique = {}
  <2>1. \A i \in 1..3 : Cardinality(Tiers(e.name, symbols)[i]) # 1
    BY <1>3 DEF UniqueTiers
  <2> HIDE DEF unique
  <2> QED
    BY <1>1, <1>3, <2>1
<1>4. CASE e.target = NoSymbol /\ unique # {}
  <2>1. unique \in SUBSET (1..3)
    BY DEF UniqueTiers
  <2>2. Min(unique) \in unique
    <3> HIDE DEF unique
    <3>1. PICK low \in Int, high \in Int : unique \in SUBSET (low..high)
      BY <2>1
    <3> QED
      BY <1>4, <3>1, LeastOf
  <2>3. Min(unique) \in 1..3 /\ Cardinality(Tiers(e.name, symbols)[Min(unique)]) = 1
    BY <2>2 DEF UniqueTiers
  <2> HIDE DEF unique
  <2>4. Tiers(e.name, symbols)[Min(unique)] \in SUBSET symbols
    BY <2>3, TiersAre
  <2>5. Tiers(e.name, symbols)[Min(unique)] # {}
    BY <2>3, FS_EmptySet
  <2>6. to \in symbols
    BY <2>4, <2>5
  <2>7. to \in Ends /\ to # NoSymbol
    BY <2>6 DEF Ends
  <2>8. less \in Confidence
    <3>1. e.conf \in Confidence
      BY DEF Edge
    <3>2. \A c \in Confidence : (c * 95) \div 100 \in Confidence
      BY DEF Confidence
    <3> QED
      BY <3>1, <3>2
  <2>9. Resolved(e, symbols) = [e EXCEPT !.target = to, !.conf = less]
    BY <1>1, <1>4
  <2> HIDE DEF to, less
  <2>10. /\ [e EXCEPT !.target = to, !.conf = less] \in Edge
         /\ [e EXCEPT !.target = to, !.conf = less].target = to
         /\ [e EXCEPT !.target = to, !.conf = less].file = e.file
         /\ [e EXCEPT !.target = to, !.conf = less].source = e.source
    BY <2>7, <2>8 DEF Edge
  <2> QED
    BY <2>6, <2>7, <2>9, <2>10
<1> QED
  BY <1>2, <1>3, <1>4

(* The extraction of a file in a build.                                    *)
LEMMA ExtractionIsSound ==
    ASSUME GraphAssumption, GenerationOK, NEW full \in BOOLEAN, NEW f \in Sources
    PROVE  FoundOK(Extraction(f, full), f)
BY RawIsSound, ReusedIsSound, Zenon DEF Extraction

(* A build makes a sound generation of the texts there are.                *)
LEMMA BuildIsSound ==
    ASSUME GraphAssumption, GraphInv, NEW full \in BOOLEAN, BuildGraph(full)
    PROVE  GraphInv'
<1> DEFINE found   == [f \in Sources |-> Extraction(f, full)]
           symbols == UNION {found[f].symbols : f \in Sources}
           edges   == UNION {found[f].edges : f \in Sources}
           clean    == Undangled(edges, symbols)
           made    == {Resolved(e, symbols) : e \in clean}
<1>1. /\ gen' = [built |-> TRUE, of |-> texts, symbols |-> symbols, edges |-> made]
      /\ UNCHANGED <<texts, changes, walk>>
  BY DEF BuildGraph
<1>2. \A f \in Sources : FoundOK(found[f], f)
  BY ExtractionIsSound DEF GraphInv
<1>3. texts \in [Sources -> Extract]
  BY DEF GraphInv, GenerationOK
<1> HIDE DEF found
<1>4. symbols = AllSymbols(texts)
  BY <1>2 DEF FoundOK, AllSymbols
<1>5. symbols \in SUBSET Sym /\ IsFiniteSet(symbols) /\ NoSymbol \notin Sym
  BY <1>3, <1>4, AllSymbolsAre
<1>6. /\ edges \in SUBSET Edge
      /\ \A e \in edges : e.source \in SymbolsOf(texts, e.file) \cup {NoSymbol}
  BY <1>2 DEF FoundOK
<1>7. IsFiniteSet(edges)
  <2> DEFINE g == [f \in Sources |-> found[f].edges]
             T == {g[f] : f \in Sources}
  <2>1. IsFiniteSet(Sources)
    BY FS_Interval DEF Sources, GraphAssumption
  <2>2. DOMAIN g = Sources /\ edges = UNION T /\ \A x \in T : IsFiniteSet(x)
    BY <1>2 DEF FoundOK
  <2>3. IsFiniteSet(T)
    <3> HIDE DEF g
    <3> QED
      BY <2>1, <2>2, ImageIsFinite
  <2>4. IsFiniteSet(UNION T)
    <3> HIDE DEF T
    <3> QED
      BY <2>2, <2>3, FS_UNION
  <2> QED
    BY <2>2, <2>4
<1> HIDE DEF symbols, edges
<1>8. /\ clean \in SUBSET Edge /\ IsFiniteSet(clean)
      /\ \A u \in clean : /\ u.target \in symbols \cup {NoSymbol}
                         /\ u.source \in SymbolsOf(texts, u.file) \cup {NoSymbol}
  BY <1>5, <1>6, <1>7, UndangledIs
<1> HIDE DEF clean
<1>9. ASSUME NEW e \in clean
      PROVE  LET r == Resolved(e, symbols)
             IN  /\ r \in Edge /\ r.target \in symbols \cup {NoSymbol}
                 /\ r.source \in SymbolsOf(texts, r.file) \cup {NoSymbol}
                 /\ r.target = NoSymbol =>
                       \A i \in 1..3 : Cardinality(Tiers(r.name, symbols)[i]) # 1
  <2>1. e \in Edge /\ e.target \in symbols \cup {NoSymbol}
    BY <1>8
  <2>2. /\ Resolved(e, symbols) \in Edge
        /\ Resolved(e, symbols).file = e.file /\ Resolved(e, symbols).source = e.source
        /\ Resolved(e, symbols).target \in symbols \cup {NoSymbol}
        /\ Resolved(e, symbols).target = NoSymbol =>
              \A i \in 1..3 :
                 Cardinality(Tiers(Resolved(e, symbols).name, symbols)[i]) # 1
    BY <1>5, <2>1, ResolvedIs
  <2> QED
    BY <1>8, <2>2
<1>10. IsFiniteSet(made)
  <2> DEFINE g == [e \in clean |-> Resolved(e, symbols)]
             T == {g[e] : e \in clean}
  <2>1. DOMAIN g = clean /\ made = T
    OBVIOUS
  <2> HIDE DEF g
  <2>2. IsFiniteSet(T)
    BY <1>8, <2>1, ImageIsFinite
  <2> QED
    BY <2>1, <2>2, Zenon
<1>11. /\ made \in SUBSET Edge
       /\ \A r \in made : /\ r.target \in symbols \cup {NoSymbol}
                          /\ r.source \in SymbolsOf(texts, r.file) \cup {NoSymbol}
                          /\ r.target = NoSymbol =>
                                \A i \in 1..3 : Cardinality(Tiers(r.name, symbols)[i]) # 1
  BY <1>9
<1> HIDE DEF made
<1>12. gen'.of = texts /\ gen'.symbols = symbols /\ gen'.edges = made /\ texts' = texts
       /\ changes' = changes
       /\ gen' \in [built : BOOLEAN, of : [Sources -> Extract], symbols : SUBSET Sym,
                    edges : SUBSET Edge]
  BY <1>1, <1>3, <1>5, <1>11
<1>13. GenerationOK'
  BY <1>4, <1>10, <1>11, <1>12 DEF GenerationOK, GraphInv
<1>14. TargetsExist' /\ NothingClearIsUnresolved'
  BY <1>11, <1>12 DEF TargetsExist, NothingClearIsUnresolved
<1> QED
  BY <1>12, <1>13, <1>14 DEF GraphInv

(* The graph of a generation is sound in every state.                      *)
LEMMA GraphStart == ASSUME GraphAssumption, GraphInit PROVE GraphInv
<1>1. GenerationOK
  <2>1. DOMAIN texts = Sources /\ texts = [f \in Sources |-> texts[f]]
        /\ \A f \in Sources : texts[f] \in Contents[f] \cup {Absent}
    BY DEF GraphInit
  <2>6. texts \in [Sources -> Extract]
    BY <2>1, ContentIsExtract
  <2>2. Absent \in Extract /\ Absent.symbols = <<>>
    BY DEF Absent, Extract
  <2>3. /\ gen.of = [f \in Sources |-> Absent] /\ gen.symbols = {} /\ gen.edges = {}
        /\ gen \in [built : BOOLEAN, of : [Sources -> Extract], symbols : SUBSET Sym,
                    edges : SUBSET Edge]
    BY <2>2 DEF GraphInit, NoGeneration
  <2>4. AllSymbols(gen.of) = {}
    BY <2>2, <2>3 DEF AllSymbols, SymbolsOf, Range
  <2> QED
    BY <2>1, <2>3, <2>4, <2>6, FS_EmptySet DEF GenerationOK
<1>2. TargetsExist /\ NothingClearIsUnresolved
  BY DEF TargetsExist, NothingClearIsUnresolved, GraphInit, NoGeneration
<1>3. changes \in 0..MaxChanges
  BY DEF GraphInit, GraphAssumption
<1> QED
  BY <1>1, <1>2, <1>3 DEF GraphInv

(* No step of an index run, an edit or a question breaks it.              *)
LEMMA GraphStep ==
    ASSUME GraphAssumption, GraphInv, [GraphNext]_graphVars
    PROVE  GraphInv'
<1>1. ASSUME UNCHANGED <<gen, texts>>, changes' \in 0..MaxChanges PROVE GraphInv'
  <2>1. gen' = gen /\ texts' = texts
    BY <1>1
  <2> QED
    BY <1>1, <2>1 DEF GraphInv, GenerationOK, TargetsExist, NothingClearIsUnresolved
<1>2. ASSUME NEW full \in BOOLEAN, BuildGraph(full) PROVE GraphInv'
  BY <1>2, BuildIsSound
<1>3. ASSUME NEW f \in Sources, Change(f) PROVE GraphInv'
  <2>1. gen' = gen /\ changes' \in 0..MaxChanges
    BY <1>3 DEF Change, GraphInv, GraphAssumption
  <2>2. PICK c \in Contents[f] \cup {Absent} : texts' = [texts EXCEPT ![f] = c]
    BY <1>3 DEF Change
  <2>3. texts \in [Sources -> Extract] /\ \A g \in Sources : texts[g] \in Contents[g] \cup {Absent}
    BY DEF GraphInv, GenerationOK
  <2>4. c \in Extract
    BY ContentIsExtract
  <2>5. texts' \in [Sources -> Extract] /\ \A g \in Sources : texts'[g] \in Contents[g] \cup {Absent}
    BY <2>2, <2>3, <2>4
  <2> QED
    BY <2>1, <2>5 DEF GraphInv, GenerationOK, TargetsExist, NothingClearIsUnresolved
<1>4. changes \in 0..MaxChanges
  BY DEF GraphInv
<1>5. CASE AskGraph
  BY <1>1, <1>4, <1>5 DEF AskGraph
<1>6. CASE NextTarget
  BY <1>1, <1>4, <1>6 DEF NextTarget
<1>7. CASE Visit
  BY <1>1, <1>4, <1>7 DEF Visit
<1>8. CASE Answer
  BY <1>1, <1>4, <1>8 DEF Answer
<1>9. CASE Forget
  BY <1>1, <1>4, <1>9 DEF Forget
<1>10. CASE UNCHANGED graphVars
  BY <1>1, <1>4, <1>10 DEF graphVars
<1> QED
  BY <1>2, <1>3, <1>5, <1>6, <1>7, <1>8, <1>9, <1>10, Zenon DEF GraphNext

-----------------------------------------------------------------------------
(* What can be reached in a graph, step by step.                           *)

(* For each node, the sets of the nodes at most k steps away.              *)
Spheres(balls, V, net, d) ==
    \A r \in V :
        /\ balls[r] \in [0..d -> SUBSET V]
        /\ balls[r][0] = {r}
        /\ \A k \in 1..d :
              balls[r][k] = balls[r][k - 1] \cup UNION {net[s] : s \in balls[r][k - 1]}

(* s is exactly k steps from the centre of a ball.                         *)
Far(ball, s, k) == s \in ball[k] /\ (k = 0 \/ s \notin ball[k - 1])

(* Balls grow, and each node has its one distance.                         *)
Graded(ball, r, d) ==
    /\ \A j \in 0..d : \A i \in 0..j : ball[i] \subseteq ball[j]
    /\ \A j \in 0..d : \A s \in ball[j] : \E k \in 0..j : Far(ball, s, k)
    /\ \A i, j \in 0..d : \A s : Far(ball, s, i) /\ Far(ball, s, j) => i = j
    /\ \A s : Far(ball, s, 0) <=> s = r

(* The balls of a graph are graded.                                       *)
LEMMA BallsGrow ==
    ASSUME NEW V, NEW net \in [V -> SUBSET V], NEW d \in Nat, NEW balls,
           Spheres(balls, V, net, d), NEW r \in V
    PROVE  Graded(balls[r], r, d)
<1> DEFINE B == balls[r]
<1>1. /\ B \in [0..d -> SUBSET V] /\ B[0] = {r}
      /\ \A k \in 1..d : B[k] = B[k - 1] \cup UNION {net[s] : s \in B[k - 1]}
  BY DEF Spheres
<1> HIDE DEF B
<1>2. ASSUME NEW i \in 0..d PROVE \A j \in 0..d : i <= j => B[i] \subseteq B[j]
  <2> DEFINE T == {j \in 0..d : i <= j => B[i] \subseteq B[j]}
  <2>1. 0 \in T
    OBVIOUS
  <2>2. ASSUME NEW j \in 1..d, j - 1 \in T PROVE j \in T
    <3>1. B[j - 1] \subseteq B[j] /\ j \in 0..d
      BY <1>1
    <3>2. i <= j => i = j \/ i <= j - 1
      OBVIOUS
    <3> QED
      BY <2>2, <3>1, <3>2
  <2>3. 0..d \subseteq T
    <3> HIDE DEF T
    <3> QED
      BY <2>1, <2>2, UpTo
  <2> QED
    BY <2>3
<1>3. \A j \in 0..d : \A i \in 0..j : B[i] \subseteq B[j]
  <2> TAKE j \in 0..d
  <2> TAKE i \in 0..j
  <2>1. i \in 0..d /\ i <= j
    OBVIOUS
  <2> QED
    BY <1>2, <2>1
<1>4. ASSUME NEW j \in 0..d, NEW s \in B[j] PROVE \E k \in 0..j : Far(B, s, k)
  <2> DEFINE T == {k \in 0..j : s \in B[k]}
  <2>1. T \in SUBSET Nat /\ T # {}
    OBVIOUS
  <2>2. PICK k \in T : \A i \in T : k <= i
    <3> HIDE DEF T
    <3> QED
      BY <2>1, LeastNumber
  <2>3. k # 0 => k - 1 \notin T /\ k - 1 \in 0..j
    BY <2>2
  <2> QED
    BY <2>2, <2>3 DEF Far
<1>5. ASSUME NEW i \in 0..d, NEW j \in 0..d, NEW s, Far(B, s, i), Far(B, s, j), i < j
      PROVE  FALSE
  <2>1. s \in B[i] /\ s \notin B[j - 1]
    BY <1>5 DEF Far
  <2>2. i <= j - 1 /\ j - 1 \in 0..d
    BY <1>5
  <2> QED
    BY <1>2, <2>1, <2>2
<1>6. ASSUME NEW i \in 0..d, NEW j \in 0..d, NEW s, Far(B, s, i), Far(B, s, j)
      PROVE  i = j
  <2>1. i < j \/ j < i \/ i = j
    OBVIOUS
  <2> QED
    BY <1>5, <1>6, <2>1
<1>7. \A s : Far(B, s, 0) <=> s = r
  BY <1>1 DEF Far
<1>8. Graded(B, r, d)
  BY <1>3, <1>4, <1>6, <1>7, Zenon DEF Graded
<1> QED
  BY <1>8 DEF B

(* The step from one distance to the next.                                 *)
LEMMA BallStep ==
    ASSUME NEW V, NEW net \in [V -> SUBSET V], NEW d \in Nat, NEW balls,
           Spheres(balls, V, net, d), NEW r \in V, NEW k \in 0..(d - 1), NEW c \in balls[r][k],
           NEW s \in net[c]
    PROVE  s \in balls[r][k + 1]
<1>1. k + 1 \in 1..d /\ (k + 1) - 1 = k
  OBVIOUS
<1>2. balls[r][k + 1] = balls[r][k] \cup UNION {net[x] : x \in balls[r][k]}
  BY <1>1 DEF Spheres
<1> QED
  BY <1>2

(* The balls of a graph are unique.                                        *)
LEMMA SpheresAreUnique ==
    ASSUME NEW V, NEW net, NEW d \in Nat, NEW b, NEW c, Spheres(b, V, net, d),
           Spheres(c, V, net, d), NEW r \in V
    PROVE  b[r] = c[r]
<1> DEFINE B == b[r]
           C == c[r]
<1>1. /\ B \in [0..d -> SUBSET V] /\ B[0] = {r}
      /\ \A k \in 1..d : B[k] = B[k - 1] \cup UNION {net[s] : s \in B[k - 1]}
  BY DEF Spheres
<1>2. /\ C \in [0..d -> SUBSET V] /\ C[0] = {r}
      /\ \A k \in 1..d : C[k] = C[k - 1] \cup UNION {net[s] : s \in C[k - 1]}
  BY DEF Spheres
<1> HIDE DEF B, C
<1> DEFINE T == {k \in 0..d : B[k] = C[k]}
<1>3. 0 \in T
  <2>1. 0 \in 0..d /\ B[0] = C[0]
    BY <1>1, <1>2
  <2> QED
    BY <2>1
<1>4. ASSUME NEW k \in 1..d, k - 1 \in T PROVE k \in T
  <2>1. B[k - 1] = C[k - 1] /\ k \in 0..d
    BY <1>4
  <2>2. B[k] = B[k - 1] \cup UNION {net[s] : s \in B[k - 1]}
    BY <1>1
  <2>3. C[k] = C[k - 1] \cup UNION {net[s] : s \in C[k - 1]}
    BY <1>2
  <2> QED
    BY <2>1, <2>2, <2>3
<1>5. 0..d \subseteq T
  <2> HIDE DEF T
  <2> QED
    BY <1>3, <1>4, UpTo
<1> QED
  BY <1>1, <1>2, <1>5 DEF B, C

-----------------------------------------------------------------------------
(* The walk over a graph net of nodes V, with the balls of each root.      *)
Items(V) == [node : V, level : Nat]
Walks(V) ==
    [stage : {"none", "asked", "answered"}, ask : {"none", "trace", "impact", "file"},
     dir : Directions, depth : Nat, max : Nat, relations : SUBSET Nat,
     targets : Seq(V), roots : SUBSET V, room : Nat, queue : Seq(Items(V)),
     seen : SUBSET V, nodes : Seq(V), total : SUBSET V,
     omitted : Nat, reached : Nat, left : BOOLEAN]

Around(t, q, balls) == balls[t][q.depth] \ {t}

Held(q, s) == \E i \in DOMAIN q.queue : q.queue[i].node = s

(* The walk from t: what was seen is t and the nodes found, each once; the *)
(* queue holds two levels at most, in their order; there is room for the   *)
(* nodes still to be found.                                                *)
Walking(q, t) ==
    /\ t \in q.roots /\ t \notin Range(q.nodes) /\ q.seen = {t} \cup Range(q.nodes)
    /\ \A i, j \in DOMAIN q.nodes : i # j => q.nodes[i] # q.nodes[j]
    /\ Len(q.nodes) <= q.room
    /\ \A i \in DOMAIN q.queue : q.queue[i].level <= q.depth
    /\ \A i, j \in DOMAIN q.queue : i <= j =>
          q.queue[i].level <= q.queue[j].level /\ q.queue[j].level <= q.queue[i].level + 1
    /\ \E before \in SUBSET q.total :
          q.total = before \cup Range(q.nodes) /\ Cardinality(before) + q.room <= q.max

(* As long as nothing was left out: each node is queued with its distance, *)
(* and what is next to a node that is no longer queued has been seen.      *)
Exact(q, t, net, balls) ==
    /\ \A i \in DOMAIN q.queue : Far(balls[t], q.queue[i].node, q.queue[i].level)
    /\ q.seen \subseteq balls[t][q.depth]
    /\ \A s \in q.seen : \A k \in 0..(q.depth - 1) :
          Far(balls[t], s, k) /\ ~Held(q, s) => net[s] \subseteq q.seen
    /\ \A s \in q.seen : \A k \in 0..q.depth : Far(balls[t], s, k) =>
          /\ k <= q.reached
          /\ q.queue # <<>> => k <= q.queue[1].level + 1

(* The walks before have found what there is to find.                      *)
Accounted(q, t, balls) ==
    /\ q.total \subseteq UNION {Around(r, q, balls) : r \in q.roots}
    /\ \A r \in q.roots \ {t} :
          /\ Around(r, q, balls) \subseteq q.total
          /\ \A s \in Around(r, q, balls) : \A k \in 0..q.depth :
                Far(balls[r], s, k) => k <= q.reached
    /\ q.reached <= q.depth
    /\ q.reached # 0 =>
          \E r \in q.roots : \E s \in Around(r, q, balls) : Far(balls[r], s, q.reached)

(* A trace that had to leave nodes out is full, of nodes that are no       *)
(* farther than those it left out.                                         *)
Filled(q, t, balls) ==
    /\ Len(q.nodes) = q.room
    /\ q.seen \subseteq balls[t][q.depth]
    /\ \E m \in 0..q.depth :
          /\ \A s \in q.seen : \A k \in 0..q.depth : Far(balls[t], s, k) => k <= m
          /\ \A s \in balls[t][q.depth] \ q.seen : \A k \in 0..q.depth :
                Far(balls[t], s, k) => m <= k

Alone(q, t) == q.roots = {t} /\ q.targets = <<>> /\ q.room = q.max /\ q.total = Range(q.nodes)

Fresh(q) ==
    /\ q.queue = <<>> /\ q.total = {} /\ q.nodes = <<>> /\ q.seen = {}
    /\ q.omitted = 0 /\ q.reached = 0 /\ ~q.left /\ (q.ask = "trace" => Len(q.targets) <= 1)

Followed(q, t, net, balls) ==
    /\ Walking(q, t)
    /\ q.ask = "trace" => Alone(q, t)
    /\ ~q.left /\ q.omitted = 0 => Exact(q, t, net, balls) /\ Accounted(q, t, balls)
    /\ ~q.left /\ q.omitted > 0 /\ q.ask = "trace" => Filled(q, t, balls)

Begun(q, net, balls) == \E t \in q.roots : Followed(q, t, net, balls)

WalkOK(q, V, net, balls) ==
    /\ q \in Walks(V)
    /\ q.stage = "none" => q = NoWalk
    /\ q.stage # "none" =>
          /\ q.max > 0
          /\ IsFiniteSet(q.total) /\ Cardinality(q.total) <= q.max
          /\ IF q.roots = {} THEN Fresh(q) ELSE Begun(q, net, balls)
    /\ q.stage = "answered" => q.queue = <<>> /\ q.targets = <<>>

(* The graph of a question in the active generation.                       *)
Net(q) == [s \in gen.symbols |-> Adjacent(s, q)]
Balls(q) == [r \in gen.symbols |-> Within(r, q)]

WalkInv == WalkOK(walk, gen.symbols, Net(walk), Balls(walk))

(* The fields of a walk.                                                   *)
LEMMA WalkFields ==
    ASSUME NEW V, NEW q \in Walks(V)
    PROVE  /\ q.depth \in Nat /\ q.max \in Nat /\ q.room \in Nat /\ q.omitted \in Nat
           /\ q.reached \in Nat /\ q.left \in BOOLEAN
           /\ q.seen \in SUBSET V /\ q.total \in SUBSET V /\ q.roots \in SUBSET V
           /\ q.nodes \in Seq(V) /\ Len(q.nodes) \in Nat /\ DOMAIN q.nodes = 1..Len(q.nodes)
           /\ q.targets \in Seq(V)
           /\ q.queue \in Seq(Items(V)) /\ Len(q.queue) \in Nat /\ DOMAIN q.queue = 1..Len(q.queue)
           /\ \A i \in DOMAIN q.queue : q.queue[i] \in Items(V)
           /\ \A i \in DOMAIN q.queue : q.queue[i].node \in V /\ q.queue[i].level \in Nat
<1>1. /\ q.depth \in Nat /\ q.max \in Nat /\ q.room \in Nat /\ q.omitted \in Nat
      /\ q.reached \in Nat /\ q.left \in BOOLEAN
      /\ q.seen \in SUBSET V /\ q.total \in SUBSET V /\ q.roots \in SUBSET V
      /\ q.nodes \in Seq(V) /\ q.targets \in Seq(V) /\ q.queue \in Seq(Items(V))
  BY Zenon DEF Walks
<1>2. Len(q.nodes) \in Nat /\ DOMAIN q.nodes = 1..Len(q.nodes)
  BY <1>1
<1>3. /\ Len(q.queue) \in Nat /\ DOMAIN q.queue = 1..Len(q.queue)
      /\ \A i \in DOMAIN q.queue : q.queue[i] \in Items(V)
  BY <1>1
<1>4. \A i \in DOMAIN q.queue : q.queue[i].node \in V /\ q.queue[i].level \in Nat
  BY <1>3 DEF Items
<1> QED
  BY <1>1, <1>2, <1>3, <1>4

(* A node that is reached for the first time.                              *)
Found(q, n, L) ==
    [q EXCEPT !.seen = @ \cup {n}, !.nodes = Append(@, n), !.reached = Max({@, L + 1}),
              !.queue = Append(@, [node |-> n, level |-> L + 1])]

(* What one neighbour changes.                                             *)
LEMMA ReachIs ==
    ASSUME NEW V, NEW q \in Walks(V), NEW n, NEW L \in Nat, n = NoSymbol \/ n \in V
    PROVE  /\ Reach(q, n, L) \in Walks(V)
           /\ Reach(q, n, L) =
                 IF n = NoSymbol \/ n \in q.seen THEN q
                 ELSE IF Len(q.nodes) >= q.room THEN [q EXCEPT !.omitted = @ + 1]
                 ELSE Found(q, n, L)
<1>1. Reach(q, n, L) = IF n = NoSymbol \/ n \in q.seen THEN q
                       ELSE IF Len(q.nodes) >= q.room THEN [q EXCEPT !.omitted = @ + 1]
                       ELSE Found(q, n, L)
  BY DEF Reach, Found, Enqueued
<1>2. [q EXCEPT !.omitted = @ + 1] \in Walks(V)
  <2> DEFINE more == q.omitted + 1
  <2>1. more \in Nat /\ [q EXCEPT !.omitted = @ + 1] = [q EXCEPT !.omitted = more]
    BY WalkFields
  <2> HIDE DEF more
  <2>2. [q EXCEPT !.omitted = more] \in Walks(V)
    BY <2>1 DEF Walks
  <2> QED
    BY <2>1, <2>2
<1>3. ASSUME n \in V PROVE Found(q, n, L) \in Walks(V)
  <2> DEFINE seen  == q.seen \cup {n}
             nodes == Append(q.nodes, n)
             far   == Max({q.reached, L + 1})
             queue == Append(q.queue, [node |-> n, level |-> L + 1])
  <2>1. far \in Nat
    BY WalkFields, OfTwo
  <2>2. seen \in SUBSET V /\ nodes \in Seq(V)
    BY <1>3, WalkFields
  <2>3. [node |-> n, level |-> L + 1] \in Items(V)
    BY <1>3 DEF Items
  <2>4. queue \in Seq(Items(V))
    BY <2>3, WalkFields
  <2>5. Found(q, n, L) = [q EXCEPT !.seen = seen, !.nodes = nodes, !.reached = far, !.queue = queue]
    BY DEF Found
  <2> HIDE DEF seen, nodes, far, queue
  <2> QED
    BY <2>1, <2>2, <2>4, <2>5 DEF Walks
<1> QED
  BY <1>1, <1>2, <1>3

(* A sequence with one more element.                                       *)
Longer(u, s, x) ==
    /\ DOMAIN u = 1..(Len(s) + 1) /\ Len(u) = Len(s) + 1 /\ u[Len(s) + 1] = x
    /\ DOMAIN s = 1..Len(s) /\ Len(s) \in Nat
    /\ \A j \in DOMAIN s : u[j] = s[j]
    /\ \A j \in DOMAIN u : j \in DOMAIN s \/ j = Len(s) + 1
    /\ \A j \in DOMAIN s : j \in DOMAIN u /\ j < Len(s) + 1
    /\ Range(u) = Range(s) \cup {x}

(* Append makes such a sequence.                                          *)
LEMMA Appended ==
    ASSUME NEW S, NEW s \in Seq(S), NEW x \in S
    PROVE  Longer(Append(s, x), s, x)
<1> DEFINE u == Append(s, x)
<1>1. /\ DOMAIN u = 1..(Len(s) + 1) /\ Len(u) = Len(s) + 1 /\ u[Len(s) + 1] = x
      /\ DOMAIN s = 1..Len(s) /\ Len(s) \in Nat
      /\ \A j \in DOMAIN s : u[j] = s[j]
  OBVIOUS
<1> HIDE DEF u
<1>2. /\ \A j \in DOMAIN u : j \in DOMAIN s \/ j = Len(s) + 1
      /\ \A j \in DOMAIN s : j \in DOMAIN u /\ j < Len(s) + 1
      /\ Len(s) + 1 \in DOMAIN u
  BY <1>1
<1>3. ASSUME NEW y PROVE (\E j \in DOMAIN u : u[j] = y) <=> y = x \/ \E j \in DOMAIN s : s[j] = y
  BY <1>1, <1>2, Zenon
<1>4. Range(u) = Range(s) \cup {x}
  BY <1>3 DEF Range
<1>5. Longer(u, s, x)
  BY <1>1, <1>2, <1>4, Zenon DEF Longer
<1> QED
  BY <1>5 DEF u

(* What the expansion of a node leaves alone.                              *)
Kept(r, p) ==
    /\ r.stage = p.stage /\ r.ask = p.ask /\ r.dir = p.dir /\ r.depth = p.depth /\ r.max = p.max
    /\ r.relations = p.relations /\ r.targets = p.targets /\ r.roots = p.roots
    /\ r.room = p.room /\ r.total = p.total /\ r.left = p.left

(* The nodes found, while there is room, are among the first i neighbours. *)
Growing(r, p, t, ns, i) ==
    /\ p.seen \subseteq r.seen /\ Range(p.nodes) \subseteq Range(r.nodes)
    /\ \A s \in r.seen : s \in p.seen \/ \E j \in 1..i : s = ns[j]
    /\ t \notin Range(r.nodes) /\ r.seen = {t} \cup Range(r.nodes)
    /\ \A j, k \in DOMAIN r.nodes : j # k => r.nodes[j] # r.nodes[k]
    /\ Len(r.nodes) <= r.room
    /\ Len(p.nodes) >= p.room => r.nodes = p.nodes /\ r.seen = p.seen

(* They are queued behind the others, one level further.                   *)
Queueing(r, p, L) ==
    /\ \A j \in DOMAIN r.queue : \/ \E k \in DOMAIN p.queue : r.queue[j] = p.queue[k]
                                 \/ r.queue[j].level = L + 1 /\ r.queue[j].node \in r.seen \ p.seen
    /\ \A j \in DOMAIN r.queue : r.queue[j].level \in L..(L + 1)
    /\ \A j, k \in DOMAIN r.queue : j <= k => r.queue[j].level <= r.queue[k].level
    /\ \A s : Held(p, s) => Held(r, s)
    /\ \A s \in r.seen \ p.seen : Held(r, s)

(* Nothing is left out before the room is used up.                         *)
Counting(r, p, ns, i, L) ==
    /\ r.omitted >= p.omitted
    /\ r.omitted = p.omitted => \A j \in 1..i : ns[j] = NoSymbol \/ ns[j] \in r.seen
    /\ r.omitted > p.omitted => Len(r.nodes) = r.room
    /\ r.reached >= p.reached
    /\ r.seen # p.seen => r.reached >= L + 1
    /\ r.reached = p.reached \/ (r.reached = L + 1 /\ r.seen # p.seen)

Reaching(r, p, t, ns, i, L) ==
    Kept(r, p) /\ Growing(r, p, t, ns, i) /\ Queueing(r, p, L) /\ Counting(r, p, ns, i, L)

(* One more neighbour.                                                     *)
LEMMA ReachNothing ==
    ASSUME NEW V, NEW r \in Walks(V), NEW p \in Walks(V), NEW t, NEW ns, NEW L \in Nat,
           NEW i \in Nat, Reaching(r, p, t, ns, i, L),
           ns[i + 1] = NoSymbol \/ ns[i + 1] \in r.seen
    PROVE  Reaching(r, p, t, ns, i + 1, L)
<1>1. 1..i \subseteq 1..(i + 1) /\ \A j \in 1..(i + 1) : j \in 1..i \/ j = i + 1
  OBVIOUS
<1>2. Growing(r, p, t, ns, i + 1)
  <2>1. Growing(r, p, t, ns, i)
    BY DEF Reaching
  <2>2. \A s \in r.seen : s \in p.seen \/ \E j \in 1..(i + 1) : s = ns[j]
    BY <1>1, <2>1 DEF Growing
  <2> QED
    BY <2>1, <2>2, Zenon DEF Growing
<1>3. Counting(r, p, ns, i + 1, L)
  <2>1. Counting(r, p, ns, i, L)
    BY DEF Reaching
  <2>2. r.omitted = p.omitted => \A j \in 1..(i + 1) : ns[j] = NoSymbol \/ ns[j] \in r.seen
    BY <1>1, <2>1 DEF Counting
  <2> QED
    BY <2>1, <2>2, Zenon DEF Counting
<1> QED
  BY <1>2, <1>3 DEF Reaching

(* A neighbour for which there is no room is counted as omitted.          *)
LEMMA ReachNoRoom ==
    ASSUME NEW V, NEW r \in Walks(V), NEW p \in Walks(V), NEW t, NEW ns, NEW L \in Nat,
           NEW i \in Nat, Reaching(r, p, t, ns, i, L), Len(r.nodes) >= r.room,
           NEW u, u = [r EXCEPT !.omitted = @ + 1]
    PROVE  Reaching(u, p, t, ns, i + 1, L)
<1>1. 1..i \subseteq 1..(i + 1)
  OBVIOUS
<1>2. /\ u.stage = r.stage /\ u.ask = r.ask /\ u.dir = r.dir /\ u.depth = r.depth /\ u.max = r.max
      /\ u.relations = r.relations /\ u.targets = r.targets /\ u.roots = r.roots
      /\ u.room = r.room /\ u.total = r.total /\ u.left = r.left /\ u.seen = r.seen
      /\ u.nodes = r.nodes /\ u.queue = r.queue /\ u.reached = r.reached
      /\ u.omitted = r.omitted + 1
  BY DEF Walks
<1>3. Kept(u, p)
  BY <1>2 DEF Kept, Reaching
<1>4. Growing(u, p, t, ns, i + 1)
  <2>1. Growing(r, p, t, ns, i)
    BY DEF Reaching
  <2>2. \A s \in r.seen : s \in p.seen \/ \E j \in 1..(i + 1) : s = ns[j]
    BY <1>1, <2>1 DEF Growing
  <2> QED
    <3>1. u.seen = r.seen /\ u.nodes = r.nodes /\ u.room = r.room
      BY <1>2
    <3>2. /\ p.seen \subseteq u.seen /\ Range(p.nodes) \subseteq Range(u.nodes)
          /\ t \notin Range(u.nodes) /\ u.seen = {t} \cup Range(u.nodes)
      BY <2>1, <3>1 DEF Growing
    <3>3. \A j, k \in DOMAIN u.nodes : j # k => u.nodes[j] # u.nodes[k]
      BY <2>1, <3>1 DEF Growing
    <3>4. /\ Len(u.nodes) <= u.room
          /\ Len(p.nodes) >= p.room => u.nodes = p.nodes /\ u.seen = p.seen
      BY <2>1, <3>1 DEF Growing
    <3>5. \A s \in u.seen : s \in p.seen \/ \E j \in 1..(i + 1) : s = ns[j]
      BY <2>2, <3>1
    <3> QED
      BY <3>2, <3>3, <3>4, <3>5, Zenon DEF Growing
<1>5. Queueing(u, p, L)
  <2>1. \A s : Held(u, s) <=> Held(r, s)
    BY <1>2 DEF Held
  <2>2. Queueing(r, p, L)
    BY DEF Reaching
  <2> QED
    BY <1>2, <2>1, <2>2 DEF Queueing
<1>6. Counting(u, p, ns, i + 1, L)
  <2>1. Counting(r, p, ns, i, L) /\ Growing(r, p, t, ns, i)
    BY DEF Reaching
  <2>2. r.omitted \in Nat /\ p.omitted \in Nat /\ Len(r.nodes) \in Nat /\ r.room \in Nat
    BY WalkFields
  <2>3. u.omitted > p.omitted /\ ~(u.omitted = p.omitted) /\ u.omitted >= p.omitted
        /\ Len(u.nodes) = u.room
    BY <1>2, <2>1, <2>2 DEF Counting, Growing
  <2> QED
    BY <1>2, <2>1, <2>3, Zenon DEF Counting
<1> QED
  BY <1>3, <1>4, <1>5, <1>6 DEF Reaching

(* A new neighbour is found and queued.                                   *)
LEMMA ReachNew ==
    ASSUME NEW V, NEW r \in Walks(V), NEW p \in Walks(V), NEW t, NEW ns, NEW L \in Nat,
           NEW i \in Nat, Reaching(r, p, t, ns, i, L), ~(Len(r.nodes) >= r.room),
           NEW n \in V, n = ns[i + 1], n \notin r.seen, NEW u, u = Found(r, n, L)
    PROVE  Reaching(u, p, t, ns, i + 1, L)
<1>1. 1..i \subseteq 1..(i + 1) /\ i + 1 \in 1..(i + 1)
      /\ \A j \in 1..(i + 1) : j \in 1..i \/ j = i + 1
  OBVIOUS
<1>2. /\ u.stage = r.stage /\ u.ask = r.ask /\ u.dir = r.dir /\ u.depth = r.depth /\ u.max = r.max
      /\ u.relations = r.relations /\ u.targets = r.targets /\ u.roots = r.roots
      /\ u.room = r.room /\ u.total = r.total /\ u.left = r.left /\ u.omitted = r.omitted
      /\ u.seen = r.seen \cup {n} /\ u.nodes = Append(r.nodes, n)
      /\ u.queue = Append(r.queue, [node |-> n, level |-> L + 1])
      /\ u.reached = Max({r.reached, L + 1})
  BY DEF Walks, Found
<1>3. Kept(u, p)
  BY <1>2 DEF Kept, Reaching
<1>4. /\ r.nodes \in Seq(V) /\ DOMAIN r.nodes = 1..Len(r.nodes) /\ Len(r.nodes) \in Nat
      /\ r.room \in Nat /\ p.room \in Nat /\ Len(p.nodes) \in Nat
      /\ r.queue \in Seq(Items(V)) /\ DOMAIN r.queue = 1..Len(r.queue) /\ Len(r.queue) \in Nat
      /\ r.reached \in Nat /\ p.reached \in Nat
  BY WalkFields
<1>5. Kept(r, p) /\ Growing(r, p, t, ns, i) /\ Queueing(r, p, L) /\ Counting(r, p, ns, i, L)
  BY DEF Reaching
<1>6. /\ DOMAIN u.nodes = 1..(Len(r.nodes) + 1) /\ Len(u.nodes) = Len(r.nodes) + 1
      /\ u.nodes[Len(r.nodes) + 1] = n /\ \A j \in DOMAIN r.nodes : u.nodes[j] = r.nodes[j]
      /\ \A m \in DOMAIN u.nodes : m \in DOMAIN r.nodes \/ m = Len(r.nodes) + 1
      /\ Range(u.nodes) = Range(r.nodes) \cup {n}
  <2>1. Longer(u.nodes, r.nodes, n)
    BY <1>2, <1>4, Appended
  <2> QED
    BY <2>1, Zenon DEF Longer
<1>7. Range(u.nodes) = Range(r.nodes) \cup {n}
  BY <1>6
<1>8. ~(Len(p.nodes) >= p.room)
  BY <1>5 DEF Growing, Kept
<1>9. Growing(u, p, t, ns, i + 1)
  <2>1. \A s \in u.seen : s \in p.seen \/ \E j \in 1..(i + 1) : s = ns[j]
    BY <1>1, <1>2, <1>5 DEF Growing
  <2>2. ASSUME NEW j \in DOMAIN u.nodes, NEW k \in DOMAIN u.nodes, j # k
        PROVE  u.nodes[j] # u.nodes[k]
    <3>1. \A m \in DOMAIN u.nodes : m \in DOMAIN r.nodes \/ m = Len(r.nodes) + 1
      BY <1>6
    <3>2. \A m \in DOMAIN r.nodes : u.nodes[m] = r.nodes[m] /\ r.nodes[m] # n
      BY <1>4, <1>5, <1>6 DEF Growing, Range
    <3>3. u.nodes[Len(r.nodes) + 1] = n
      BY <1>6
    <3> HIDE <1>6
    <3> QED
      BY <1>5, <2>2, <3>1, <3>2, <3>3 DEF Growing
  <2>3. Len(u.nodes) <= u.room
    BY <1>2, <1>4, <1>6
  <2>4. /\ p.seen \subseteq u.seen /\ Range(p.nodes) \subseteq Range(u.nodes)
        /\ t \notin Range(u.nodes) /\ u.seen = {t} \cup Range(u.nodes)
    BY <1>2, <1>5, <1>7 DEF Growing
  <2> QED
    BY <1>8, <2>1, <2>2, <2>3, <2>4, Zenon DEF Growing
<1> DEFINE last == [node |-> n, level |-> L + 1]
<1>10. /\ DOMAIN u.queue = 1..(Len(r.queue) + 1)
       /\ u.queue[Len(r.queue) + 1] = last /\ \A j \in DOMAIN r.queue : u.queue[j] = r.queue[j]
       /\ \A j \in DOMAIN u.queue : j \in DOMAIN r.queue \/ j = Len(r.queue) + 1
       /\ \A j \in DOMAIN r.queue : j \in DOMAIN u.queue /\ j < Len(r.queue) + 1
  <2>1. last \in Items(V)
    BY DEF Items
  <2>2. u.queue = Append(r.queue, last)
    BY <1>2
  <2> HIDE DEF last
  <2> QED
    <3>1. Longer(u.queue, r.queue, last)
      BY <1>4, <2>1, <2>2, Appended
    <3> QED
      BY <3>1, Zenon DEF Longer
<1>11. last.node = n /\ last.level = L + 1
  OBVIOUS
<1>12. n \in u.seen \ p.seen /\ r.seen \subseteq u.seen
  BY <1>2, <1>5 DEF Growing
<1> HIDE DEF last
<1>13. Queueing(u, p, L)
  <2>1. ASSUME NEW j \in DOMAIN u.queue
        PROVE  \/ \E k \in DOMAIN p.queue : u.queue[j] = p.queue[k]
               \/ u.queue[j].level = L + 1 /\ u.queue[j].node \in u.seen \ p.seen
    <3>1. CASE j \in DOMAIN r.queue
      <4>1. \/ \E k \in DOMAIN p.queue : r.queue[j] = p.queue[k]
            \/ r.queue[j].level = L + 1 /\ r.queue[j].node \in r.seen \ p.seen
        BY <1>5, <3>1 DEF Queueing
      <4>2. u.queue[j] = r.queue[j]
        BY <1>10, <3>1
      <4> QED
        BY <1>12, <4>1, <4>2
    <3>2. CASE j = Len(r.queue) + 1
      BY <1>10, <1>11, <1>12, <3>2
    <3> QED
      BY <1>10, <3>1, <3>2
  <2>2. \A j \in DOMAIN u.queue : u.queue[j].level \in L..(L + 1)
    BY <1>5, <1>10, <1>11 DEF Queueing
  <2>3. ASSUME NEW j \in DOMAIN u.queue, NEW k \in DOMAIN u.queue, j <= k
        PROVE  u.queue[j].level <= u.queue[k].level
    <3>1. CASE k \in DOMAIN r.queue
      <4>1. j \in DOMAIN r.queue
        BY <1>4, <1>10, <2>3, <3>1
      <4> QED
        BY <1>5, <1>10, <2>3, <3>1, <4>1 DEF Queueing
    <3>2. CASE k = Len(r.queue) + 1
      <4>1. u.queue[k].level = L + 1 /\ u.queue[j].level \in L..(L + 1)
        BY <1>10, <1>11, <2>2, <3>2
      <4> QED
        BY <4>1
    <3> QED
      BY <1>10, <3>1, <3>2
  <2>4. Held(u, n) /\ \A s : Held(r, s) => Held(u, s)
    <3>1. Len(r.queue) + 1 \in DOMAIN u.queue
      BY <1>4, <1>10
    <3> QED
      BY <1>10, <1>11, <3>1 DEF Held
  <2>5. \A s : Held(p, s) => Held(u, s)
    BY <1>5, <2>4 DEF Queueing
  <2>6. \A s \in u.seen \ p.seen : Held(u, s)
    BY <1>2, <1>5, <2>4 DEF Queueing
  <2> QED
    BY <2>1, <2>2, <2>3, <2>5, <2>6, Zenon DEF Queueing
<1>14. Counting(u, p, ns, i + 1, L)
  <2>1. u.reached = IF r.reached >= L + 1 THEN r.reached ELSE L + 1
    <3>1. r.reached \in Int /\ L + 1 \in Int
      BY <1>4
    <3>2. Max({r.reached, L + 1}) = IF r.reached >= L + 1 THEN r.reached ELSE L + 1
      BY <3>1, OfTwo, Zenon
    <3> QED
      BY <1>2, <3>2
  <2>2. u.seen # p.seen
    BY <1>12
  <2>3. /\ u.reached >= p.reached /\ u.reached >= L + 1
        /\ u.reached = p.reached \/ u.reached = L + 1
    BY <1>4, <1>5, <2>1 DEF Counting
  <2>4. u.omitted = p.omitted => \A j \in 1..(i + 1) : ns[j] = NoSymbol \/ ns[j] \in u.seen
    BY <1>1, <1>2, <1>5, <1>12 DEF Counting
  <2>5. u.omitted >= p.omitted /\ ~(u.omitted > p.omitted)
    <3>1. r.omitted > p.omitted => Len(r.nodes) = r.room
      BY <1>5 DEF Counting
    <3>2. ~(r.omitted > p.omitted)
      BY <1>4, <3>1
    <3> QED
      BY <1>2, <1>5, <3>2 DEF Counting
  <2> QED
    BY <2>2, <2>3, <2>4, <2>5, Zenon DEF Counting
<1> QED
  BY <1>3, <1>9, <1>13, <1>14 DEF Reaching

(* The neighbours of a node, one after the other.                          *)
LEMMA ExpandedObeys ==
    ASSUME NEW V, NEW q \in Walks(V), NEW ns, Len(ns) \in Nat, NEW L \in Nat,
           \A k \in 1..Len(ns) : ns[k] = NoSymbol \/ ns[k] \in V
    PROVE  \E state \in [0..Len(ns) -> Walks(V)] :
               /\ Expanded(q, ns, L) = state[Len(ns)]
               /\ state[0] = q
               /\ \A k \in 1..Len(ns) : state[k] = Reach(state[k - 1], ns[k], L)
<1> DEFINE n == Len(ns)
           State == CHOOSE State :
                       State = [k \in 0..n |-> IF k = 0 THEN q ELSE Reach(State[k - 1], ns[k], L)]
           step == [p \in Walks(V) \X (1..n) |-> Reach(p[1], ns[p[2]], L)]
<1>1. n \in Nat
  OBVIOUS
<1>2. Expanded(q, ns, L) = State[n]
  BY DEF Expanded
<1>3. \A v \in Walks(V) : \A k \in 1..n : Reach(v, ns[k], L) \in Walks(V)
  BY ReachIs
<1>4. step \in [Walks(V) \X (1..n) -> Walks(V)]
  BY <1>3
<1>5. \A k \in 1..n : \A v \in Walks(V) : step[<<v, k>>] = Reach(v, ns[k], L)
  OBVIOUS
<1> HIDE DEF step, n
<1>6. PICK f \in [0..n -> Walks(V)] : Obeys(f, n, q, step)
  BY <1>1, <1>4, RecursionExists
<1>7. ASSUME NEW k \in 0..n PROVE f[k] = IF k = 0 THEN q ELSE Reach(f[k - 1], ns[k], L)
  <2>1. f[k] = IF k = 0 THEN q ELSE step[<<f[k - 1], k>>]
    BY <1>6 DEF Obeys
  <2>2. k # 0 => k \in 1..n /\ f[k - 1] \in Walks(V)
    BY <1>1, <1>6
  <2> QED
    BY <1>5, <2>1, <2>2
<1>8. f = [k \in 0..n |-> IF k = 0 THEN q ELSE Reach(f[k - 1], ns[k], L)]
  <2>1. f = [k \in 0..n |-> f[k]]
    BY <1>6
  <2> QED
    BY <1>7, <2>1, Zenon
<1>9. State = [k \in 0..n |-> IF k = 0 THEN q ELSE Reach(State[k - 1], ns[k], L)]
  BY <1>8, Zenon
<1> HIDE DEF State
<1>10. \A k \in 0..n : State[k] = IF k = 0 THEN q ELSE Reach(State[k - 1], ns[k], L)
  BY <1>9, Zenon
<1>11. 0 \in 0..n /\ \A k \in 1..n : k \in 0..n /\ k # 0
  BY <1>1
<1>12. State[0] = q /\ \A k \in 1..n : State[k] = Reach(State[k - 1], ns[k], L)
  BY <1>10, <1>11, Zenon
<1> DEFINE T == {k \in 0..n : State[k] \in Walks(V)}
<1>13. 0 \in T
  BY <1>11, <1>12
<1>14. \A k \in 1..n : k - 1 \in T => k \in T
  BY <1>3, <1>11, <1>12
<1>15. 0..n \subseteq T
  <2> HIDE DEF T
  <2> QED
    BY <1>1, <1>13, <1>14, UpTo
<1>16. State \in [0..n -> Walks(V)]
  <2>1. State = [k \in 0..n |-> State[k]]
    BY <1>9
  <2> QED
    BY <1>15, <2>1
<1> QED
  BY <1>2, <1>12, <1>16, Zenon DEF n

(* All neighbours have been looked at in turn.                            *)
LEMMA ExpandedIs ==
    ASSUME NEW V, NoSymbol \notin V, NEW p \in Walks(V), NEW t, NEW ns, Len(ns) \in Nat,
           NEW L \in Nat, \A k \in 1..Len(ns) : ns[k] = NoSymbol \/ ns[k] \in V,
           Reaching(p, p, t, ns, 0, L)
    PROVE  Expanded(p, ns, L) \in Walks(V) /\ Reaching(Expanded(p, ns, L), p, t, ns, Len(ns), L)
<1> DEFINE n == Len(ns)
<1>1. PICK state \in [0..n -> Walks(V)] :
          /\ Expanded(p, ns, L) = state[n] /\ state[0] = p
          /\ \A k \in 1..n : state[k] = Reach(state[k - 1], ns[k], L)
  <2>1. \E state \in [0..Len(ns) -> Walks(V)] :
               /\ Expanded(p, ns, L) = state[Len(ns)]
               /\ state[0] = p
               /\ \A k \in 1..Len(ns) : state[k] = Reach(state[k - 1], ns[k], L)
    BY ExpandedObeys
  <2> QED
    BY <2>1
<1> HIDE DEF n
<1>2. n \in Nat
  BY DEF n
<1> DEFINE T == {k \in 0..n : Reaching(state[k], p, t, ns, k, L)}
<1>3. 0 \in T
  BY <1>1, <1>2
<1>4. ASSUME NEW k \in 1..n, k - 1 \in T PROVE k \in T
  <2> DEFINE r == state[k - 1]
             i == k - 1
             u == Reach(r, ns[k], L)
  <2>1. r \in Walks(V) /\ i \in Nat /\ i + 1 = k /\ k \in 0..n /\ state[k] = u
    BY <1>1, <1>2
  <2>2. Reaching(r, p, t, ns, i, L)
    BY <1>4
  <2>3. ns[k] = NoSymbol \/ ns[k] \in V
    BY DEF n
  <2>4. u = IF ns[k] = NoSymbol \/ ns[k] \in r.seen THEN r
            ELSE IF Len(r.nodes) >= r.room THEN [r EXCEPT !.omitted = @ + 1]
            ELSE Found(r, ns[k], L)
    <3> HIDE DEF r
    <3> QED
      BY <2>1, <2>3, ReachIs
  <2> HIDE DEF r, i, u
  <2>5. CASE ns[k] = NoSymbol \/ ns[k] \in r.seen
    <3>1. ns[i + 1] = NoSymbol \/ ns[i + 1] \in r.seen
      BY <2>1, <2>5
    <3>2. Reaching(r, p, t, ns, i + 1, L)
      BY <2>1, <2>2, <3>1, ReachNothing
    <3> QED
      BY <2>1, <2>4, <2>5, <3>2
  <2>6. CASE ns[k] # NoSymbol /\ ns[k] \notin r.seen /\ Len(r.nodes) >= r.room
    <3>1. u = [r EXCEPT !.omitted = @ + 1]
      BY <2>4, <2>6
    <3>2. Reaching(u, p, t, ns, i + 1, L)
      BY <2>1, <2>2, <2>6, <3>1, ReachNoRoom
    <3> QED
      BY <2>1, <3>2
  <2>7. CASE ns[k] # NoSymbol /\ ns[k] \notin r.seen /\ ~(Len(r.nodes) >= r.room)
    <3>1. u = Found(r, ns[k], L) /\ ns[k] \in V /\ ns[k] = ns[i + 1]
      BY <2>1, <2>3, <2>4, <2>7
    <3>2. Reaching(u, p, t, ns, i + 1, L)
      BY <2>1, <2>2, <2>7, <3>1, ReachNew
    <3> QED
      BY <2>1, <3>2
  <2> QED
    BY <2>5, <2>6, <2>7
<1>5. 0..n \subseteq T
  <2> HIDE DEF T
  <2> QED
    BY <1>2, <1>3, <1>4, UpTo
<1>6. n \in 0..n
  BY <1>2
<1> QED
  BY <1>1, <1>5, <1>6 DEF n

(* The queue without its head.                                             *)
Popped(p, q, V) ==
    /\ p \in Walks(V) /\ Head(q.queue) = q.queue[1] /\ 1 \in DOMAIN q.queue
    /\ Kept(p, q) /\ p.seen = q.seen /\ p.nodes = q.nodes
    /\ p.omitted = q.omitted /\ p.reached = q.reached
    /\ \A i \in DOMAIN p.queue : i + 1 \in DOMAIN q.queue /\ p.queue[i] = q.queue[i + 1]
    /\ \A s : Held(q, s) => Held(p, s) \/ s = q.queue[1].node
    /\ \A s : Held(p, s) => Held(q, s)

(* Taking the head of the queue changes nothing else.                      *)
LEMMA PoppedIs ==
    ASSUME NEW V, NEW q \in Walks(V), q.queue # <<>>, NEW p, p = [q EXCEPT !.queue = Tail(@)]
    PROVE  Popped(p, q, V)
<1>1. q.queue \in Seq(Items(V)) /\ Len(q.queue) \in Nat /\ DOMAIN q.queue = 1..Len(q.queue)
  BY WalkFields
<1> DEFINE rest == Tail(q.queue)
<1>2. /\ rest \in Seq(Items(V)) /\ Head(q.queue) = q.queue[1] /\ 1 \in DOMAIN q.queue
      /\ DOMAIN rest = 1..(Len(q.queue) - 1)
      /\ \A i \in DOMAIN rest : rest[i] = q.queue[i + 1]
  BY <1>1
<1>3. p = [q EXCEPT !.queue = rest]
  OBVIOUS
<1> HIDE DEF rest
<1>4. p \in Walks(V)
  BY <1>2, <1>3 DEF Walks
<1>5. /\ p.queue = rest /\ p.seen = q.seen /\ p.nodes = q.nodes
      /\ p.omitted = q.omitted /\ p.reached = q.reached /\ Kept(p, q)
  BY <1>3 DEF Walks, Kept
<1>6. \A i \in DOMAIN rest : i + 1 \in DOMAIN q.queue
  BY <1>1, <1>2
<1>7. \A j \in DOMAIN q.queue : j = 1 \/ (j - 1 \in DOMAIN rest /\ rest[j - 1] = q.queue[j])
  BY <1>1, <1>2
<1>8. \A s : Held(q, s) => Held(p, s) \/ s = q.queue[1].node
  BY <1>5, <1>7, Zenon DEF Held
<1>9. \A s : Held(p, s) => Held(q, s)
  BY <1>2, <1>5, <1>6, Zenon DEF Held
<1>10. \A i \in DOMAIN p.queue : i + 1 \in DOMAIN q.queue /\ p.queue[i] = q.queue[i + 1]
  BY <1>2, <1>5, <1>6
<1> QED
  BY <1>2, <1>4, <1>5, <1>8, <1>9, <1>10, Zenon DEF Popped

(* One turn of the loop, for the first node of the queue: the question     *)
(* stays, nodes next to that one may be found and queued, and nothing is   *)
(* omitted but for lack of room.                                           *)
Moved(u, q) ==
    /\ u.stage = q.stage /\ u.ask = q.ask /\ u.depth = q.depth /\ u.max = q.max
    /\ u.dir = q.dir /\ u.relations = q.relations
    /\ u.targets = q.targets /\ u.roots = q.roots /\ u.room = q.room
    /\ u.total = q.total \cup Range(u.nodes) /\ (q.left => u.left)

Spread(u, q, t, net) ==
    /\ q.seen \subseteq u.seen /\ Range(q.nodes) \subseteq Range(u.nodes)
    /\ \A s \in u.seen \ q.seen : s \in net[q.queue[1].node] /\ q.queue[1].level < q.depth
    /\ t \notin Range(u.nodes) /\ u.seen = {t} \cup Range(u.nodes)
    /\ \A j, k \in DOMAIN u.nodes : j # k => u.nodes[j] # u.nodes[k]
    /\ Len(u.nodes) <= u.room
    /\ Len(q.nodes) >= q.room => u.nodes = q.nodes /\ u.seen = q.seen

Lined(u, q) ==
    /\ \A j \in DOMAIN u.queue :
          \/ \E k \in DOMAIN q.queue : u.queue[j] = q.queue[k]
          \/ u.queue[j].level = q.queue[1].level + 1 /\ u.queue[j].node \in u.seen \ q.seen
    /\ \A j \in DOMAIN u.queue :
          /\ q.queue[1].level <= u.queue[j].level
          /\ u.queue[j].level <= q.queue[1].level + 1
          /\ u.queue[j].level <= q.depth
    /\ \A j, k \in DOMAIN u.queue : j <= k => u.queue[j].level <= u.queue[k].level
    /\ \A s : Held(q, s) => Held(u, s) \/ s = q.queue[1].node
    /\ \A s \in u.seen \ q.seen : Held(u, s)

Counted(u, q, net) ==
    /\ u.omitted >= q.omitted
    /\ u.omitted > q.omitted => Len(u.nodes) = u.room /\ q.queue[1].level < q.depth
    /\ ~u.left /\ u.omitted = q.omitted /\ q.queue[1].level < q.depth =>
          net[q.queue[1].node] \subseteq u.seen
    /\ u.reached >= q.reached
    /\ u.seen # q.seen => u.reached >= q.queue[1].level + 1
    /\ u.reached = q.reached \/ (u.reached = q.queue[1].level + 1 /\ u.seen # q.seen)

Advanced(u, q, t, net) ==
    Moved(u, q) /\ Spread(u, q, t, net) /\ Lined(u, q) /\ Counted(u, q, net)

(* When no node of the queue is nearer than k, all within k were seen.     *)
LEMMA LevelsSeen ==
    ASSUME NEW V, NEW net \in [V -> SUBSET V], NEW q \in Walks(V), NEW balls, NEW t \in V,
           Spheres(balls, V, net, q.depth), Walking(q, t), Exact(q, t, net, balls),
           NEW K \in 0..q.depth, \A i \in DOMAIN q.queue : K <= q.queue[i].level
    PROVE  balls[t][K] \subseteq q.seen
<1> DEFINE B == balls[t]
           d == q.depth
           seen == q.seen
<1>1. d \in Nat
  BY WalkFields
<1>2. /\ \A j \in 0..d : \A i \in 0..j : B[i] \subseteq B[j]
      /\ \A i, j \in 0..d : \A s : Far(B, s, i) /\ Far(B, s, j) => i = j
      /\ \A s : Far(B, s, 0) <=> s = t
      /\ \A j \in 0..d : \A s \in B[j] : \E k \in 0..j : Far(B, s, k)
  <2>1. Graded(balls[t], t, q.depth)
    BY <1>1, BallsGrow
  <2> QED
    BY <2>1, Zenon DEF Graded
<1>3. \A k \in 1..d : B[k] = B[k - 1] \cup UNION {net[s] : s \in B[k - 1]}
  BY DEF Spheres
<1>4. /\ \A i \in DOMAIN q.queue : Far(B, q.queue[i].node, q.queue[i].level)
      /\ \A s \in seen : \A k \in 0..(d - 1) : Far(B, s, k) /\ ~Held(q, s) => net[s] \subseteq seen
  BY DEF Exact
<1>5. \A i \in DOMAIN q.queue : q.queue[i].level \in 0..d
  BY WalkFields DEF Walking
<1>6. \A j \in 0..d : \A s \in B[j] : \E k \in 0..j : Far(B, s, k)
  BY <1>2, Zenon
<1>7. t \in seen /\ t \in B[0] /\ B[0] = {t}
  BY <1>2 DEF Walking, Spheres
<1> HIDE DEF B, d, seen
<1> DEFINE T == {k \in 0..K : B[k] \subseteq seen}
<1>8. 0 \in T
  BY <1>1, <1>7
<1>9. ASSUME NEW k \in 1..K, k - 1 \in T PROVE k \in T
  <2>1. k \in 1..d /\ k - 1 \in 0..d /\ B[k - 1] \subseteq seen /\ k \in 0..K /\ K \in 0..d
    BY <1>1, <1>9 DEF d
  <2>2. ASSUME NEW p \in B[k - 1] PROVE net[p] \subseteq seen
    <3>1. PICK i \in 0..(k - 1) : Far(B, p, i)
      BY <1>6, <2>1
    <3>2. i \in 0..(d - 1) /\ i \in 0..d /\ i < K
      BY <1>1, <2>1
    <3>3. ASSUME Held(q, p) PROVE FALSE
      <4>1. PICK j \in DOMAIN q.queue : q.queue[j].node = p
        BY <3>3 DEF Held
      <4>2. Far(B, p, q.queue[j].level) /\ q.queue[j].level \in 0..d /\ K <= q.queue[j].level
        BY <1>4, <1>5, <4>1
      <4>3. i = q.queue[j].level
        BY <1>2, <3>1, <3>2, <4>2
      <4> QED
        BY <3>2, <4>2, <4>3
    <3>4. p \in seen
      BY <2>1
    <3> QED
      BY <1>4, <3>1, <3>2, <3>3, <3>4
  <2>3. B[k] = B[k - 1] \cup UNION {net[s] : s \in B[k - 1]}
    BY <1>3, <2>1
  <2>4. B[k] \subseteq seen
    BY <2>1, <2>2, <2>3
  <2> QED
    BY <2>1, <2>4
<1>10. 0..K \subseteq T
  <2> HIDE DEF T
  <2>1. K \in Nat
    BY <1>1 DEF d
  <2> QED
    BY <1>8, <1>9, <2>1, UpTo
<1>11. K \in 0..K
  BY <1>1 DEF d
<1> QED
  BY <1>10, <1>11 DEF B, seen

(* The distance of the head bounds those in the queue.                     *)
LEMMA HeadIs ==
    ASSUME NEW V, NEW q \in Walks(V), NEW t, Walking(q, t), q.queue # <<>>
    PROVE  /\ 1 \in DOMAIN q.queue /\ q.queue[1].level \in 0..q.depth /\ q.queue[1].node \in V
           /\ q.depth \in Nat
           /\ \A i \in DOMAIN q.queue :
                 /\ q.queue[1].level <= q.queue[i].level
                 /\ q.queue[i].level <= q.queue[1].level + 1
                 /\ q.queue[i].level \in 0..q.depth
<1>1. q.queue \in Seq(Items(V)) /\ DOMAIN q.queue = 1..Len(q.queue) /\ Len(q.queue) \in Nat
      /\ q.depth \in Nat
      /\ \A i \in DOMAIN q.queue : q.queue[i].node \in V /\ q.queue[i].level \in Nat
  BY WalkFields
<1>2. 1 \in DOMAIN q.queue /\ \A i \in DOMAIN q.queue : 1 <= i
  BY <1>1
<1>3. \A i \in DOMAIN q.queue : q.queue[i].level <= q.depth
  BY DEF Walking
<1>4. \A i \in DOMAIN q.queue : /\ q.queue[1].level <= q.queue[i].level
                                /\ q.queue[i].level <= q.queue[1].level + 1
  BY <1>2 DEF Walking
<1> QED
  BY <1>1, <1>2, <1>3, <1>4

(* What a turn keeps of a walk in any case.                                *)
LEMMA WalkingGoesOn ==
    ASSUME NEW V, NEW q \in Walks(V), NEW u \in Walks(V), NEW t, NEW net,
           Walking(q, t), q.queue # <<>>, Advanced(u, q, t, net)
    PROVE  Walking(u, t)
<1>1. Moved(u, q) /\ Spread(u, q, t, net) /\ Lined(u, q)
  BY DEF Advanced
<1>2. /\ t \in u.roots /\ t \notin Range(u.nodes) /\ u.seen = {t} \cup Range(u.nodes)
      /\ Len(u.nodes) <= u.room
  BY <1>1 DEF Moved, Spread, Walking
<1>3. \A i, j \in DOMAIN u.nodes : i # j => u.nodes[i] # u.nodes[j]
  BY <1>1 DEF Spread
<1>4. \A i \in DOMAIN u.queue : u.queue[i].level <= u.depth
  BY <1>1 DEF Lined, Moved
<1>5. ASSUME NEW i \in DOMAIN u.queue, NEW j \in DOMAIN u.queue, i <= j
      PROVE  u.queue[i].level <= u.queue[j].level /\ u.queue[j].level <= u.queue[i].level + 1
  <2>1. u.queue[i].level \in Nat /\ u.queue[j].level \in Nat /\ q.queue[1].level \in Nat
    BY WalkFields, HeadIs
  <2>2. /\ q.queue[1].level <= u.queue[i].level /\ u.queue[j].level <= q.queue[1].level + 1
        /\ u.queue[i].level <= u.queue[j].level
    BY <1>1, <1>5, Zenon DEF Lined
  <2> QED
    BY <2>1, <2>2
<1>6. \E before \in SUBSET u.total :
          u.total = before \cup Range(u.nodes) /\ Cardinality(before) + u.room <= u.max
  <2>1. PICK before \in SUBSET q.total :
            q.total = before \cup Range(q.nodes) /\ Cardinality(before) + q.room <= q.max
    BY DEF Walking
  <2>2. u.total = q.total \cup Range(u.nodes) /\ Range(q.nodes) \subseteq Range(u.nodes)
        /\ u.room = q.room /\ u.max = q.max
    BY <1>1 DEF Moved, Spread
  <2>3. u.total = before \cup Range(u.nodes)
    BY <2>1, <2>2
  <2> QED
    BY <2>1, <2>2, <2>3
<1> QED
  BY <1>2, <1>3, <1>4, <1>5, <1>6 DEF Walking

(* What is found next to the first of the queue is one step further.       *)
LEMMA NewIsFar ==
    ASSUME NEW V, NEW net \in [V -> SUBSET V], NEW q \in Walks(V), NEW balls, NEW t \in V,
           Spheres(balls, V, net, q.depth), Walking(q, t), Exact(q, t, net, balls),
           q.queue # <<>>, q.queue[1].level < q.depth,
           NEW s \in net[q.queue[1].node], s \notin q.seen
    PROVE  Far(balls[t], s, q.queue[1].level + 1) /\ s \in balls[t][q.depth]
<1> DEFINE L == q.queue[1].level
           c == q.queue[1].node
<1>1. /\ L \in 0..q.depth /\ q.depth \in Nat /\ 1 \in DOMAIN q.queue
      /\ \A i \in DOMAIN q.queue : L <= q.queue[i].level
  BY HeadIs
<1>2. c \in balls[t][L]
  BY <1>1 DEF Exact, Far
<1>3. L \in 0..(q.depth - 1) /\ L + 1 \in 0..q.depth /\ (L + 1) - 1 = L /\ L + 1 # 0
  BY <1>1
<1> HIDE DEF L
<1>4. s \in balls[t][L + 1]
  <2> HIDE DEF c
  <2>1. s \in net[c]
    BY DEF c
  <2> QED
    BY <1>1, <1>2, <1>3, <2>1, BallStep
<1>5. balls[t][L] \subseteq q.seen
  BY <1>1, LevelsSeen
<1>6. Far(balls[t], s, L + 1)
  BY <1>3, <1>4, <1>5 DEF Far
<1>7. balls[t][L + 1] \subseteq balls[t][q.depth]
  <2>1. Graded(balls[t], t, q.depth)
    BY <1>1, BallsGrow
  <2>2. q.depth \in 0..q.depth
    BY <1>1
  <2> QED
    BY <1>3, <2>1, <2>2, Zenon DEF Graded
<1> QED
  BY <1>4, <1>6, <1>7 DEF L

(* A turn that leaves nothing out keeps the walk exact.                    *)
LEMMA ExactGoesOn ==
    ASSUME NEW V, NEW net \in [V -> SUBSET V], NEW q \in Walks(V), NEW u \in Walks(V),
           NEW balls, NEW t \in V, Spheres(balls, V, net, q.depth), Walking(q, t),
           Exact(q, t, net, balls), q.queue # <<>>, Advanced(u, q, t, net),
           ~u.left, u.omitted = q.omitted
    PROVE  Exact(u, t, net, balls)
<1> DEFINE L == q.queue[1].level
           c == q.queue[1].node
           B == balls[t]
           d == q.depth
<1>1. /\ L \in 0..d /\ d \in Nat /\ 1 \in DOMAIN q.queue
      /\ \A i \in DOMAIN q.queue : L <= q.queue[i].level
  BY HeadIs
<1>2. \A s \in u.seen \ q.seen : Far(B, s, L + 1) /\ s \in B[d] /\ L < d
  <2> TAKE s \in u.seen \ q.seen
  <2>1. s \in net[c] /\ L < d
    BY DEF Advanced, Spread
  <2> QED
    BY <2>1, NewIsFar
<1>3. /\ \A i, j \in 0..d : \A s : Far(B, s, i) /\ Far(B, s, j) => i = j
  <2>1. Graded(balls[t], t, q.depth)
    BY <1>1, BallsGrow
  <2> QED
    BY <2>1, Zenon DEF Graded
<1>4. Moved(u, q) /\ Spread(u, q, t, net) /\ Lined(u, q) /\ Counted(u, q, net)
  BY DEF Advanced
<1>5. u.depth = d
  BY <1>4 DEF Moved
<1>6. /\ \A i \in DOMAIN q.queue : Far(B, q.queue[i].node, q.queue[i].level)
      /\ q.seen \subseteq B[d]
      /\ \A s \in q.seen : \A k \in 0..(d - 1) : Far(B, s, k) /\ ~Held(q, s) => net[s] \subseteq q.seen
      /\ \A s \in q.seen : \A k \in 0..d : Far(B, s, k) => k <= q.reached /\ k <= L + 1
  BY Zenon DEF Exact
<1>7. u.reached \in Nat /\ q.reached \in Nat /\ \A i \in DOMAIN u.queue : u.queue[i].level \in Nat
  BY WalkFields
<1> HIDE DEF L, c, B, d
<1>8. \A i \in DOMAIN u.queue : Far(B, u.queue[i].node, u.queue[i].level)
  <2> TAKE i \in DOMAIN u.queue
  <2>1. CASE \E k \in DOMAIN q.queue : u.queue[i] = q.queue[k]
    BY <1>6, <2>1
  <2>2. CASE u.queue[i].level = L + 1 /\ u.queue[i].node \in u.seen \ q.seen
    BY <1>2, <2>2
  <2> QED
    BY <1>4, <2>1, <2>2 DEF Lined, L
<1>9. u.seen \subseteq B[d]
  BY <1>2, <1>6
<1>10. ASSUME NEW s \in u.seen, NEW k \in 0..(d - 1), Far(B, s, k), ~Held(u, s)
       PROVE  net[s] \subseteq u.seen
  <2>1. CASE s \notin q.seen
    BY <1>4, <1>10, <2>1 DEF Lined
  <2>2. CASE s \in q.seen /\ ~Held(q, s)
    BY <1>4, <1>6, <1>10, <2>2 DEF Spread
  <2>3. CASE s \in q.seen /\ Held(q, s)
    <3>1. s = c
      BY <1>4, <1>10, <2>3 DEF Lined, c
    <3>2. Far(B, c, L)
      BY <1>1, <1>6 DEF c, L
    <3>3. k \in 0..d /\ k < d
      BY <1>1
    <3>4. k = L
      BY <1>1, <1>3, <1>10, <3>1, <3>2, <3>3
    <3>5. net[c] \subseteq u.seen
      BY <1>4, <3>3, <3>4 DEF Counted, c, L, d
    <3> QED
      BY <3>1, <3>5
  <2> QED
    BY <2>1, <2>2, <2>3
<1>11. ASSUME NEW s \in u.seen, NEW k \in 0..d, Far(B, s, k)
       PROVE  k <= u.reached /\ k <= L + 1
  <2>1. CASE s \in q.seen
    <3>1. k <= q.reached /\ k <= L + 1
      BY <1>6, <1>11, <2>1
    <3>2. u.reached >= q.reached
      BY <1>4 DEF Counted
    <3> QED
      BY <1>7, <3>1, <3>2
  <2>2. CASE s \notin q.seen
    <3>1. Far(B, s, L + 1) /\ L + 1 \in 0..d
      BY <1>1, <1>2, <2>2
    <3>2. k = L + 1
      BY <1>3, <1>11, <3>1
    <3>3. u.reached >= L + 1
      BY <1>4, <2>2 DEF Counted, L
    <3> QED
      BY <1>1, <1>7, <3>2, <3>3
  <2> QED
    BY <2>1, <2>2
<1>12. u.queue # <<>> => L <= u.queue[1].level /\ u.queue[1].level \in Nat
  <2>1. u.queue # <<>> => 1 \in DOMAIN u.queue
    <3>1. u.queue \in Seq(Items(V))
      BY WalkFields
    <3> QED
      BY <3>1
  <2> QED
    BY <1>4, <1>7, <2>1 DEF Lined, L
<1>13. \A s \in u.seen : \A k \in 0..d : Far(B, s, k) =>
          k <= u.reached /\ (u.queue # <<>> => k <= u.queue[1].level + 1)
  BY <1>1, <1>11, <1>12
<1> QED
  BY <1>5, <1>8, <1>9, <1>10, <1>13 DEF Exact, B

(* A turn that leaves nothing out accounts for what it finds.              *)
LEMMA AccountsGoOn ==
    ASSUME NEW V, NEW net \in [V -> SUBSET V], NEW q \in Walks(V), NEW u \in Walks(V),
           NEW balls, NEW t \in V, Spheres(balls, V, net, q.depth), Walking(q, t),
           Exact(q, t, net, balls), Accounted(q, t, balls), q.queue # <<>>,
           Advanced(u, q, t, net), ~u.left, u.omitted = q.omitted
    PROVE  Accounted(u, t, balls)
<1> DEFINE L == q.queue[1].level
           d == q.depth
<1>1. Exact(u, t, net, balls)
  BY ExactGoesOn
<1>2. /\ u.depth = d /\ u.roots = q.roots /\ u.total = q.total \cup Range(u.nodes)
      /\ u.seen = {t} \cup Range(u.nodes) /\ t \notin Range(u.nodes) /\ t \in u.roots
  BY DEF Advanced, Moved, Spread, Walking
<1>3. u.seen \subseteq balls[t][d]
  BY <1>1, <1>2 DEF Exact
<1>4. \A r : Around(r, u, balls) = Around(r, q, balls)
  BY <1>2 DEF Around
<1>5. Range(u.nodes) \subseteq Around(t, q, balls)
  BY <1>2, <1>3 DEF Around
<1>6. u.reached >= q.reached /\ u.reached \in Nat /\ q.reached \in Nat /\ d \in Nat
  BY WalkFields DEF Advanced, Counted
<1>7. /\ q.total \subseteq UNION {Around(r, q, balls) : r \in q.roots}
      /\ \A r \in q.roots \ {t} :
            /\ Around(r, q, balls) \subseteq q.total
            /\ \A s \in Around(r, q, balls) : \A k \in 0..d : Far(balls[r], s, k) => k <= q.reached
      /\ q.reached <= d
      /\ q.reached # 0 =>
            \E r \in q.roots : \E s \in Around(r, q, balls) : Far(balls[r], s, q.reached)
  BY Zenon DEF Accounted
<1>8. u.total \subseteq UNION {Around(r, u, balls) : r \in u.roots}
  BY <1>2, <1>4, <1>5, <1>7
<1>9. \A r \in u.roots \ {t} : Around(r, u, balls) \subseteq u.total
  BY <1>2, <1>4, <1>7
<1>10. ASSUME NEW r \in u.roots \ {t}, NEW s \in Around(r, u, balls), NEW k \in 0..u.depth,
              Far(balls[r], s, k)
       PROVE  k <= u.reached
  <2>1. k <= q.reached /\ k \in Nat
    BY <1>2, <1>4, <1>6, <1>7, <1>10
  <2> QED
    BY <1>6, <2>1
<1>11. ASSUME u.reached # 0
       PROVE  \E r \in u.roots : \E s \in Around(r, u, balls) : Far(balls[r], s, u.reached)
  <2>1. CASE u.reached = q.reached
    BY <1>2, <1>4, <1>7, <1>11, <2>1
  <2>2. CASE u.reached = L + 1 /\ u.seen # q.seen
    <3>1. PICK s \in u.seen : s \notin q.seen
      BY <2>2 DEF Advanced, Spread
    <3>2. s \in net[q.queue[1].node] /\ q.queue[1].level < q.depth
      BY <3>1 DEF Advanced, Spread
    <3>3. Far(balls[t], s, L + 1)
      BY <3>1, <3>2, NewIsFar
    <3>4. s \in Around(t, u, balls)
      <4>1. s # t
        BY <3>1 DEF Walking
      <4> QED
        BY <1>2, <1>3, <3>1, <4>1 DEF Around
    <3> QED
      BY <1>2, <2>2, <3>3, <3>4
  <2> QED
    BY <2>1, <2>2 DEF Advanced, Counted
<1>12. u.reached <= u.depth
  <2>1. CASE u.reached = q.reached
    BY <1>2, <1>7, <2>1
  <2>2. CASE u.reached = L + 1 /\ u.seen # q.seen
    <3>1. q.queue[1].level < q.depth /\ q.queue[1].level \in 0..q.depth
      BY <2>2, HeadIs DEF Advanced, Spread
    <3> QED
      BY <1>2, <1>6, <2>2, <3>1
  <2> QED
    BY <2>1, <2>2 DEF Advanced, Counted
<1> QED
  BY <1>8, <1>9, <1>10, <1>11, <1>12, Zenon DEF Accounted

(* The first time that a node is left out, the walk is full of the nearest *)
(* nodes.                                                                  *)
LEMMA FullAtFirst ==
    ASSUME NEW V, NEW net \in [V -> SUBSET V], NEW q \in Walks(V), NEW u \in Walks(V),
           NEW balls, NEW t \in V, Spheres(balls, V, net, q.depth), Walking(q, t),
           Exact(q, t, net, balls), q.queue # <<>>, Advanced(u, q, t, net),
           u.omitted > q.omitted
    PROVE  Filled(u, t, balls)
<1> DEFINE L == q.queue[1].level
           B == balls[t]
           d == q.depth
<1>1. /\ L \in 0..d /\ d \in Nat /\ \A i \in DOMAIN q.queue : L <= q.queue[i].level
  BY HeadIs
<1>2. Len(u.nodes) = u.room /\ L < d /\ u.depth = d /\ q.seen \subseteq u.seen
  BY DEF Advanced, Counted, Moved, Spread
<1>3. \A s \in u.seen \ q.seen : Far(B, s, L + 1) /\ s \in B[d]
  <2> TAKE s \in u.seen \ q.seen
  <2>1. s \in net[q.queue[1].node]
    BY DEF Advanced, Spread
  <2> QED
    BY <1>2, <2>1, NewIsFar
<1>4. B[L] \subseteq q.seen
  BY <1>1, LevelsSeen
<1>5. Graded(B, t, d)
  BY <1>1, BallsGrow
<1>6. /\ q.seen \subseteq B[d]
      /\ \A s \in q.seen : \A k \in 0..d : Far(B, s, k) => k <= L + 1
  BY Zenon DEF Exact
<1> HIDE DEF L, B, d
<1>7. L + 1 \in 0..d
  BY <1>1, <1>2
<1>8. u.seen \subseteq B[d]
  BY <1>3, <1>6
<1>9. ASSUME NEW s \in u.seen, NEW k \in 0..d, Far(B, s, k) PROVE k <= L + 1
  <2>1. CASE s \in q.seen
    BY <1>6, <1>9, <2>1
  <2>2. CASE s \notin q.seen
    <3>1. k = L + 1
      BY <1>3, <1>5, <1>7, <1>9, <2>2, Zenon DEF Graded
    <3> QED
      BY <1>7, <3>1
  <2> QED
    BY <2>1, <2>2
<1>10. ASSUME NEW s \in B[d] \ u.seen, NEW k \in 0..d, Far(B, s, k) PROVE L + 1 <= k
  <2>1. ASSUME k <= L PROVE FALSE
    <3>1. k \in 0..L /\ L \in 0..d
      BY <1>1, <2>1
    <3>2. B[k] \subseteq B[L]
      BY <1>5, <3>1, Zenon DEF Graded
    <3>3. s \in B[k]
      BY <1>10 DEF Far
    <3> QED
      BY <1>2, <1>4, <3>2, <3>3
  <2> QED
    BY <1>1, <2>1
<1>11. \E m \in 0..d :
          /\ \A s \in u.seen : \A k \in 0..d : Far(B, s, k) => k <= m
          /\ \A s \in B[d] \ u.seen : \A k \in 0..d : Far(B, s, k) => m <= k
  BY <1>7, <1>9, <1>10
<1> QED
  BY <1>2, <1>8, <1>11 DEF Filled, B

(* Once full, it stays as it is.                                           *)
LEMMA FullGoesOn ==
    ASSUME NEW V, NEW net, NEW q \in Walks(V), NEW u \in Walks(V), NEW balls, NEW t,
           Filled(q, t, balls), Advanced(u, q, t, net)
    PROVE  Filled(u, t, balls)
<1>1. Len(q.nodes) = q.room /\ q.room \in Nat
  BY WalkFields DEF Filled
<1>2. u.nodes = q.nodes /\ u.seen = q.seen /\ u.room = q.room /\ u.depth = q.depth
  BY <1>1 DEF Advanced, Spread, Moved
<1> QED
  BY <1>2 DEF Filled

(* A turn keeps what is known of a walk.                                   *)
LEMMA TurnIsTracked ==
    ASSUME NEW V, NEW net \in [V -> SUBSET V], NEW q \in Walks(V), NEW u \in Walks(V),
           NEW balls, NEW t \in V, Spheres(balls, V, net, q.depth), Followed(q, t, net, balls),
           q.queue # <<>>, Advanced(u, q, t, net)
    PROVE  Followed(u, t, net, balls)
<1>1. Walking(q, t) /\ Walking(u, t)
  BY WalkingGoesOn DEF Followed
<1>2. /\ u.ask = q.ask /\ (q.left => u.left) /\ u.roots = q.roots /\ u.targets = q.targets
      /\ u.room = q.room /\ u.max = q.max /\ u.total = q.total \cup Range(u.nodes)
      /\ Range(q.nodes) \subseteq Range(u.nodes)
  BY DEF Advanced, Moved, Spread
<1>3. u.omitted >= q.omitted /\ u.omitted \in Nat /\ q.omitted \in Nat
  BY WalkFields DEF Advanced, Counted
<1>4. u.ask = "trace" => Alone(u, t)
  BY <1>2 DEF Followed, Alone
<1>5. ASSUME ~u.left, u.omitted = 0 PROVE Exact(u, t, net, balls) /\ Accounted(u, t, balls)
  <2>1. q.omitted = 0 /\ ~q.left /\ u.omitted = q.omitted
    BY <1>2, <1>3, <1>5
  <2>2. Exact(q, t, net, balls) /\ Accounted(q, t, balls)
    BY <2>1 DEF Followed
  <2>3. Exact(u, t, net, balls)
    BY <1>1, <1>5, <2>1, <2>2, ExactGoesOn
  <2>4. Accounted(u, t, balls)
    BY <1>1, <1>5, <2>1, <2>2, AccountsGoOn
  <2> QED
    BY <2>3, <2>4
<1>6. ASSUME ~u.left, u.omitted > 0, u.ask = "trace" PROVE Filled(u, t, balls)
  <2>1. ~q.left /\ q.ask = "trace"
    BY <1>2, <1>6
  <2>2. CASE q.omitted = 0
    <3>1. Exact(q, t, net, balls)
      BY <2>1, <2>2 DEF Followed
    <3>2. u.omitted > q.omitted
      BY <1>6, <2>2
    <3> QED
      BY <1>1, <3>1, <3>2, FullAtFirst
  <2>3. CASE q.omitted # 0
    <3>1. Filled(q, t, balls)
      BY <1>3, <2>1, <2>3 DEF Followed
    <3> QED
      BY <3>1, FullGoesOn
  <2> QED
    BY <2>2, <2>3
<1> QED
  BY <1>1, <1>4, <1>5, <1>6 DEF Followed

(* A turn stays within the bound on symbols.                               *)
LEMMA TurnIsBounded ==
    ASSUME NEW V, NEW q \in Walks(V), IsFiniteSet(q.total), NEW t, Walking(q, t)
    PROVE  /\ IsFiniteSet(q.total \cup Range(q.nodes)) /\ IsFiniteSet(Range(q.nodes))
           /\ Cardinality(q.total \cup Range(q.nodes)) <= q.max
           /\ Cardinality(Range(q.nodes)) = Len(q.nodes)
           /\ q.total = q.total \cup Range(q.nodes)
<1> DEFINE R == Range(q.nodes)
           n == Len(q.nodes)
<1>1. q.nodes \in Seq(V) /\ DOMAIN q.nodes = 1..n /\ n \in Nat /\ q.room \in Nat /\ q.max \in Nat
  BY WalkFields
<1>2. q.nodes \in Bijection(1..n, R)
  <2>1. q.nodes \in [1..n -> R] /\ \A y \in R : \E i \in 1..n : q.nodes[i] = y
    BY <1>1 DEF Range
  <2>2. \A i, j \in 1..n : q.nodes[i] = q.nodes[j] => i = j
    BY <1>1 DEF Walking
  <2> QED
    BY <2>1, <2>2 DEF Bijection, Injection, Surjection, IsInjective
<1> HIDE DEF R, n
<1>3. IsFiniteSet(1..n) /\ Cardinality(1..n) = n
  BY <1>1, FS_Interval
<1>4. IsFiniteSet(R) /\ Cardinality(R) = n
  <2>1. ExistsBijection(1..n, R)
    BY <1>2 DEF ExistsBijection
  <2> QED
    BY <1>3, <2>1, FS_Bijection
<1>5. PICK before \in SUBSET q.total :
          q.total = before \cup R /\ Cardinality(before) + q.room <= q.max
  BY DEF Walking, R
<1>6. IsFiniteSet(before) /\ Cardinality(before) \in Nat
  BY FS_Subset, FS_CardinalityType
<1>7. IsFiniteSet(before \cup R) /\ Cardinality(before \cup R) <= Cardinality(before) + n
  <2>1. /\ IsFiniteSet(before \cup R)
        /\ Cardinality(before \cup R) =
              Cardinality(before) + Cardinality(R) - Cardinality(before \cap R)
    BY <1>4, <1>6, FS_Union
  <2>2. IsFiniteSet(before \cap R)
    BY <1>4, FS_Subset
  <2>3. Cardinality(before \cap R) \in Nat
    BY <2>2, FS_CardinalityType
  <2> QED
    BY <1>1, <1>4, <1>6, <2>1, <2>3
<1>8. q.total \cup R = before \cup R /\ q.total = q.total \cup R
  BY <1>5
<1>9. n <= q.room
  BY DEF Walking, n
<1>10. Cardinality(before \cup R) \in Nat
  BY <1>7, FS_CardinalityType
<1>11. Cardinality(before \cup R) <= q.max
  BY <1>1, <1>5, <1>6, <1>7, <1>9, <1>10
<1> QED
  BY <1>4, <1>7, <1>8, <1>11 DEF R, n

(* The start of an expansion.                                              *)
LEMMA ReachStart ==
    ASSUME NEW V, NEW q \in Walks(V), NEW t, Walking(q, t), q.queue # <<>>, NEW ns,
           NEW p, p = [q EXCEPT !.queue = Tail(@)]
    PROVE  Reaching(p, p, t, ns, 0, q.queue[1].level)
<1> DEFINE L == q.queue[1].level
<1>1. /\ p \in Walks(V) /\ Kept(p, q) /\ p.seen = q.seen /\ p.nodes = q.nodes
      /\ \A i \in DOMAIN p.queue : i + 1 \in DOMAIN q.queue /\ p.queue[i] = q.queue[i + 1]
  <2>1. Popped(p, q, V)
    BY PoppedIs
  <2> QED
    BY <2>1, Zenon DEF Popped
<1>2. /\ p.room \in Nat /\ p.omitted \in Nat /\ p.reached \in Nat /\ Len(p.nodes) \in Nat
      /\ DOMAIN p.queue = 1..Len(p.queue) /\ Len(p.queue) \in Nat
  BY <1>1, WalkFields
<1>3. Kept(p, p)
  BY DEF Kept
<1>4. Growing(p, p, t, ns, 0)
  <2>1. /\ t \notin Range(p.nodes) /\ p.seen = {t} \cup Range(p.nodes)
        /\ \A j, k \in DOMAIN p.nodes : j # k => p.nodes[j] # p.nodes[k]
        /\ Len(p.nodes) <= p.room
    BY <1>1 DEF Walking, Kept
  <2> QED
    BY <2>1 DEF Growing
<1>5. Queueing(p, p, L)
  <2>1. \A i \in DOMAIN q.queue : L <= q.queue[i].level /\ q.queue[i].level <= L + 1
                                  /\ q.queue[i].level \in 0..q.depth /\ L \in 0..q.depth
                                  /\ q.depth \in Nat
    BY HeadIs
  <2>2. \A i \in DOMAIN p.queue : p.queue[i].level \in L..(L + 1)
    BY <1>1, <2>1
  <2>3. ASSUME NEW j \in DOMAIN p.queue, NEW k \in DOMAIN p.queue, j <= k
        PROVE  p.queue[j].level <= p.queue[k].level
    <3>1. j + 1 <= k + 1 /\ j + 1 \in DOMAIN q.queue /\ k + 1 \in DOMAIN q.queue
          /\ p.queue[j] = q.queue[j + 1] /\ p.queue[k] = q.queue[k + 1]
      BY <1>1, <1>2, <2>3
    <3> QED
      BY <3>1 DEF Walking
  <2> QED
    BY <2>2, <2>3 DEF Queueing
<1>6. Counting(p, p, ns, 0, L)
  BY <1>2 DEF Counting
<1> QED
  BY <1>3, <1>4, <1>5, <1>6 DEF Reaching

(* A node at the depth of the question is only dropped.                    *)
LEMMA DropAdvances ==
    ASSUME NEW V, NEW net, NEW q \in Walks(V), NEW t, Walking(q, t), q.queue # <<>>,
           q.queue[1].level >= q.depth, NEW p, p = [q EXCEPT !.queue = Tail(@)]
    PROVE  p \in Walks(V) /\ Advanced(p, q, t, net)
<1> DEFINE L == q.queue[1].level
<1>1. /\ p \in Walks(V) /\ Kept(p, q) /\ p.seen = q.seen /\ p.nodes = q.nodes
      /\ p.omitted = q.omitted /\ p.reached = q.reached
      /\ \A i \in DOMAIN p.queue : i + 1 \in DOMAIN q.queue /\ p.queue[i] = q.queue[i + 1]
      /\ \A s : Held(q, s) => Held(p, s) \/ s = q.queue[1].node
  <2>1. Popped(p, q, V)
    BY PoppedIs
  <2> QED
    BY <2>1, Zenon DEF Popped
<1>2. Growing(p, p, t, <<>>, 0) /\ Queueing(p, p, L)
  BY ReachStart DEF Reaching
<1>3. /\ q.omitted \in Nat /\ q.reached \in Nat /\ L \in 0..q.depth /\ q.depth \in Nat
      /\ \A i \in DOMAIN q.queue : q.queue[i].level \in 0..q.depth
  BY WalkFields, HeadIs
<1>4. q.total = q.total \cup Range(q.nodes)
  BY DEF Walking
<1>5. Moved(p, q)
  BY <1>1, <1>4 DEF Moved, Kept
<1>6. Spread(p, q, t, net)
  <2>1. Len(q.nodes) >= q.room => p.nodes = q.nodes /\ p.seen = q.seen
    BY <1>1
  <2>2. Growing(p, p, t, <<>>, 0)
    BY <1>2
  <2>3. /\ q.seen \subseteq p.seen /\ Range(q.nodes) \subseteq Range(p.nodes)
        /\ p.seen \ q.seen = {}
    BY <1>1
  <2> QED
    BY <2>1, <2>2, <2>3 DEF Spread, Growing
<1>7. Lined(p, q)
  <2>1. \A j \in DOMAIN p.queue : \E k \in DOMAIN q.queue : p.queue[j] = q.queue[k]
    BY <1>1
  <2>2. \A j \in DOMAIN p.queue :
          L <= p.queue[j].level /\ p.queue[j].level <= L + 1 /\ p.queue[j].level <= q.depth
    <3>1. \A j \in DOMAIN p.queue : p.queue[j].level \in 0..q.depth
      BY <1>1, <1>3
    <3>2. \A j \in DOMAIN p.queue : p.queue[j].level \in L..(L + 1)
      BY <1>2, Zenon DEF Queueing
    <3> QED
      BY <1>3, <3>1, <3>2
  <2>3. \A j, k \in DOMAIN p.queue : j <= k => p.queue[j].level <= p.queue[k].level
    BY <1>2, Zenon DEF Queueing
  <2>4. \A s \in p.seen \ q.seen : Held(p, s)
    BY <1>1
  <2> QED
    BY <1>1, <2>1, <2>2, <2>3, <2>4 DEF Lined
<1>8. Counted(p, q, net)
  BY <1>1, <1>3 DEF Counted
<1> QED
  BY <1>1, <1>5, <1>6, <1>7, <1>8 DEF Advanced

(* The list ns holds nodes of next only, and if it is not cut, all.        *)
Offers(ns, cut, next) ==
    /\ Len(ns) \in Nat /\ \A k \in 1..Len(ns) : ns[k] = NoSymbol \/ ns[k] \in next
    /\ ~cut => \A x \in next : \E k \in 1..Len(ns) : ns[k] = x

(* A turn that reads the neighbours ns.                                    *)
Turn(q, ns, cut) ==
    LET r == Expanded([q EXCEPT !.queue = Tail(@)], ns, q.queue[1].level)
    IN  [r EXCEPT !.total = @ \cup Range(r.nodes), !.left = @ \/ cut]

(* Any other node is expanded.                                             *)
LEMMA TurnAdvances ==
    ASSUME NEW V, NoSymbol \notin V, NEW net \in [V -> SUBSET V], NEW q \in Walks(V), NEW t,
           Walking(q, t), q.queue # <<>>, q.queue[1].level < q.depth,
           NEW ns, NEW cut \in BOOLEAN, Offers(ns, cut, net[q.queue[1].node])
    PROVE  Turn(q, ns, cut) \in Walks(V) /\ Advanced(Turn(q, ns, cut), q, t, net)
<1> DEFINE L == q.queue[1].level
           c == q.queue[1].node
           n == Len(ns)
           p == [q EXCEPT !.queue = Tail(@)]
           r == Expanded(p, ns, L)
           u == [r EXCEPT !.total = @ \cup Range(r.nodes), !.left = @ \/ cut]
<1>14. Turn(q, ns, cut) = u
  BY Zenon DEF Turn
<1>15. /\ p = [q EXCEPT !.queue = Tail(@)] /\ r = Expanded(p, ns, L)
       /\ u = [r EXCEPT !.total = @ \cup Range(r.nodes), !.left = @ \/ cut]
  OBVIOUS
<1> HIDE DEF p, r, u
<1>1. /\ p \in Walks(V) /\ Kept(p, q) /\ p.seen = q.seen /\ p.nodes = q.nodes
      /\ p.omitted = q.omitted /\ p.reached = q.reached
      /\ \A i \in DOMAIN p.queue : i + 1 \in DOMAIN q.queue /\ p.queue[i] = q.queue[i + 1]
      /\ \A s : Held(q, s) => Held(p, s) \/ s = c
  <2>1. Popped(p, q, V)
    BY <1>15, PoppedIs
  <2> QED
    BY <2>1, Zenon DEF Popped, c
<1>2. /\ q.depth \in Nat /\ L \in 0..q.depth /\ c \in V
      /\ \A i \in DOMAIN q.queue : q.queue[i].level \in 0..q.depth
  BY HeadIs DEF c
<1>13. /\ n \in Nat /\ \A k \in 1..n : ns[k] = NoSymbol \/ ns[k] \in net[c]
       /\ ~cut => \A x \in net[c] : \E k \in 1..n : ns[k] = x
  BY Zenon DEF Offers, c, n
<1>3. \A k \in 1..n : ns[k] = NoSymbol \/ ns[k] \in V
  BY <1>2, <1>13
<1>4. r \in Walks(V) /\ Reaching(r, p, t, ns, n, L)
  <2>1. Reaching(p, p, t, ns, 0, L)
    BY <1>15, ReachStart
  <2>2. L \in Nat /\ p \in Walks(V)
    BY <1>1, <1>2
  <2>3. r = Expanded(p, ns, L)
    BY <1>15
  <2> HIDE DEF L
  <2> QED
    BY <1>3, <1>13, <2>1, <2>2, <2>3, ExpandedIs DEF n
<1>5. Kept(r, p) /\ Growing(r, p, t, ns, n) /\ Queueing(r, p, L) /\ Counting(r, p, ns, n, L)
  BY <1>4 DEF Reaching
<1>6. /\ r.total \in SUBSET V /\ Range(r.nodes) \in SUBSET V /\ r.left \in BOOLEAN
      /\ r.omitted \in Nat /\ q.omitted \in Nat /\ r.reached \in Nat /\ q.reached \in Nat
      /\ \A j \in DOMAIN r.queue : r.queue[j].level \in Nat
  <2>1. r.nodes \in Seq(V) /\ DOMAIN r.nodes = 1..Len(r.nodes)
    BY <1>4, WalkFields
  <2>2. Range(r.nodes) \in SUBSET V
    BY <2>1 DEF Range
  <2>3. /\ r.total \in SUBSET V /\ r.left \in BOOLEAN /\ r.omitted \in Nat /\ r.reached \in Nat
    BY <1>4, Zenon DEF Walks
  <2>5. \A j \in DOMAIN r.queue : r.queue[j].level \in Nat
    BY <1>4, WalkFields
  <2>4. q.omitted \in Nat /\ q.reached \in Nat
    BY WalkFields
  <2> QED
    BY <2>2, <2>3, <2>4, <2>5
<1>7. /\ u \in Walks(V)
      /\ u.stage = r.stage /\ u.ask = r.ask /\ u.depth = r.depth /\ u.max = r.max
      /\ u.dir = r.dir /\ u.relations = r.relations
      /\ u.targets = r.targets /\ u.roots = r.roots /\ u.room = r.room
      /\ u.total = r.total \cup Range(r.nodes) /\ u.left = (r.left \/ cut)
      /\ u.seen = r.seen /\ u.nodes = r.nodes /\ u.queue = r.queue
      /\ u.omitted = r.omitted /\ u.reached = r.reached
  <2> DEFINE total == r.total \cup Range(r.nodes)
             left  == r.left \/ cut
  <2>1. total \in SUBSET V /\ left \in BOOLEAN /\ u = [r EXCEPT !.total = total, !.left = left]
    BY <1>6, <1>15
  <2> HIDE DEF total, left
  <2>2. /\ u \in Walks(V)
        /\ u.stage = r.stage /\ u.ask = r.ask /\ u.depth = r.depth /\ u.max = r.max
        /\ u.dir = r.dir /\ u.relations = r.relations
      /\ u.dir = r.dir /\ u.relations = r.relations
        /\ u.targets = r.targets /\ u.roots = r.roots /\ u.room = r.room
        /\ u.total = total /\ u.left = left
        /\ u.seen = r.seen /\ u.nodes = r.nodes /\ u.queue = r.queue
        /\ u.omitted = r.omitted /\ u.reached = r.reached
    BY <1>4, <2>1 DEF Walks
  <2> QED
    BY <2>2 DEF total, left
<1>8. Moved(u, q)
  <2>1. q.left => u.left
    BY <1>1, <1>5, <1>7 DEF Kept
  <2>2. /\ r.stage = q.stage /\ r.ask = q.ask /\ r.depth = q.depth /\ r.max = q.max
        /\ r.dir = q.dir /\ r.relations = q.relations
        /\ r.targets = q.targets /\ r.roots = q.roots /\ r.room = q.room /\ r.total = q.total
    BY <1>1, <1>5, Zenon DEF Kept
  <2>3. u.nodes = r.nodes /\ u.total = r.total \cup Range(r.nodes)
    BY <1>7
  <2>4. u.total = q.total \cup Range(u.nodes)
    BY <2>2, <2>3, Zenon
  <2>5. /\ u.stage = q.stage /\ u.ask = q.ask /\ u.depth = q.depth /\ u.max = q.max
        /\ u.dir = q.dir /\ u.relations = q.relations
        /\ u.targets = q.targets /\ u.roots = q.roots /\ u.room = q.room
    BY <1>7, <2>2, Zenon
  <2> QED
    BY <2>1, <2>4, <2>5, Zenon DEF Moved
<1>9. \A s \in r.seen \ q.seen : s \in net[c]
  <2> TAKE s \in r.seen \ q.seen
  <2>1. PICK j \in 1..n : s = ns[j]
    BY <1>1, <1>5 DEF Growing
  <2>2. s \in V
    BY <1>4, WalkFields
  <2> QED
    BY <1>13, <2>1, <2>2
<1>10. Spread(u, q, t, net)
  <2>1. /\ q.seen \subseteq u.seen /\ Range(q.nodes) \subseteq Range(u.nodes)
        /\ t \notin Range(u.nodes) /\ u.seen = {t} \cup Range(u.nodes)
    BY <1>1, <1>5, <1>7 DEF Growing
  <2>2. \A s \in u.seen \ q.seen : s \in net[q.queue[1].node] /\ q.queue[1].level < q.depth
    BY <1>7, <1>9 DEF c
  <2>3. \A j, k \in DOMAIN u.nodes : j # k => u.nodes[j] # u.nodes[k]
    <3> DEFINE Apart(s) == \A j, k \in DOMAIN s : j # k => s[j] # s[k]
    <3>1. u.nodes = r.nodes
      BY <1>7
    <3>2. Apart(r.nodes)
      BY <1>5, Zenon DEF Growing
    <3>3. Apart(u.nodes)
      <4> HIDE DEF Apart
      <4> QED
        BY <3>1, <3>2, Zenon
    <3> QED
      BY <3>3
  <2>4. Len(u.nodes) <= u.room /\ (Len(q.nodes) >= q.room => u.nodes = q.nodes /\ u.seen = q.seen)
    BY <1>1, <1>5, <1>7 DEF Growing, Kept
  <2> QED
    BY <2>1, <2>2, <2>3, <2>4, Zenon DEF Spread
<1>11. Lined(u, q)
  <2>1. ASSUME NEW j \in DOMAIN u.queue
        PROVE  \/ \E k \in DOMAIN q.queue : u.queue[j] = q.queue[k]
               \/ u.queue[j].level = q.queue[1].level + 1 /\ u.queue[j].node \in u.seen \ q.seen
    <3>1. \/ \E k \in DOMAIN p.queue : r.queue[j] = p.queue[k]
          \/ r.queue[j].level = L + 1 /\ r.queue[j].node \in r.seen \ p.seen
      BY <1>5, <1>7 DEF Queueing
    <3>2. CASE \E k \in DOMAIN p.queue : r.queue[j] = p.queue[k]
      <4>1. PICK k \in DOMAIN p.queue : r.queue[j] = p.queue[k]
        BY <3>2
      <4>2. k + 1 \in DOMAIN q.queue /\ p.queue[k] = q.queue[k + 1] /\ u.queue = r.queue
        BY <1>1, <1>7
      <4>3. u.queue[j] = q.queue[k + 1]
        BY <4>1, <4>2
      <4> QED
        BY <4>2, <4>3
    <3>3. CASE r.queue[j].level = L + 1 /\ r.queue[j].node \in r.seen \ p.seen
      BY <1>1, <1>7, <3>3
    <3> QED
      BY <3>1, <3>2, <3>3
  <2>2. ASSUME NEW j \in DOMAIN u.queue
        PROVE  /\ q.queue[1].level <= u.queue[j].level
               /\ u.queue[j].level <= q.queue[1].level + 1
               /\ u.queue[j].level <= q.depth
    <3>1. u.queue[j].level \in L..(L + 1)
      BY <1>5, <1>7 DEF Queueing
    <3> QED
      BY <1>2, <3>1
  <2>3. \A j, k \in DOMAIN u.queue : j <= k => u.queue[j].level <= u.queue[k].level
    BY <1>5, <1>7 DEF Queueing
  <2>4. \A s : Held(u, s) <=> Held(r, s)
    BY <1>7 DEF Held
  <2>5. \A s : Held(q, s) => Held(u, s) \/ s = q.queue[1].node
    BY <1>1, <1>5, <2>4 DEF Queueing, c
  <2>6. \A s \in u.seen \ q.seen : Held(u, s)
    BY <1>1, <1>5, <1>7, <2>4 DEF Queueing
  <2> QED
    BY <2>1, <2>2, <2>3, <2>5, <2>6, Zenon DEF Lined
<1>12. Counted(u, q, net)
  <2>1. /\ u.omitted >= q.omitted /\ u.reached >= q.reached
        /\ u.omitted > q.omitted => Len(u.nodes) = u.room /\ q.queue[1].level < q.depth
    BY <1>1, <1>5, <1>7 DEF Counting
  <2>2. /\ u.seen # q.seen => u.reached >= q.queue[1].level + 1
        /\ u.reached = q.reached \/ (u.reached = q.queue[1].level + 1 /\ u.seen # q.seen)
    BY <1>1, <1>5, <1>7 DEF Counting
  <2>3. ASSUME ~u.left, u.omitted = q.omitted, NEW x \in net[q.queue[1].node]
        PROVE  x \in u.seen
    <3>1. ~cut
      BY <1>6, <1>7, <2>3
    <3>2. PICK k \in 1..n : ns[k] = x
      BY <1>13, <2>3, <3>1 DEF c
    <3>3. ns[k] = NoSymbol \/ ns[k] \in r.seen
      BY <1>1, <1>5, <1>7, <2>3 DEF Counting
    <3>4. x \in V
      BY <1>2, <2>3 DEF c
    <3> QED
      BY <1>7, <3>2, <3>3, <3>4
  <2> QED
    BY <2>1, <2>2, <2>3, Zenon DEF Counted
<1> QED
  BY <1>7, <1>8, <1>10, <1>11, <1>12, <1>14, Zenon DEF Advanced

-----------------------------------------------------------------------------
(* The graph of the active generation, as a question reads it.             *)

(* A list of edges of one node: finitely many, between symbols.            *)
ListOK(list, s) ==
    /\ list \in SUBSET Edge /\ IsFiniteSet(list)
    /\ \A e \in list : Neighbor(e, s) \in gen.symbols \cup {NoSymbol}

(* The edges of a node end in symbols of the generation.                   *)
LEMMA EdgesOfAre ==
    ASSUME GraphInv, NEW s, NEW dir, NEW relations
    PROVE  ListOK(EdgesOf(s, dir, relations), s)
<1> DEFINE E == EdgesOf(s, dir, relations)
<1>1. E \subseteq gen.edges
  BY DEF EdgesOf, OfRelations
<1>2. /\ gen.edges \in SUBSET Edge /\ IsFiniteSet(gen.edges)
      /\ gen.symbols = AllSymbols(gen.of)
      /\ gen.of \in [Sources -> Extract]
      /\ \A e \in gen.edges : e.source \in SymbolsOf(gen.of, e.file) \cup {NoSymbol}
      /\ \A e \in gen.edges : e.target \in gen.symbols \cup {NoSymbol}
  BY DEF GraphInv, GenerationOK, TargetsExist
<1>3. ASSUME NEW e \in gen.edges PROVE e.source \in gen.symbols \cup {NoSymbol}
  <2>1. e.file \in Sources
    BY <1>2 DEF Edge
  <2> QED
    BY <1>2, <2>1 DEF AllSymbols
<1>4. \A e \in E : Neighbor(e, s) \in gen.symbols \cup {NoSymbol}
  BY <1>1, <1>2, <1>3 DEF Neighbor
<1> HIDE DEF E
<1>5. IsFiniteSet(E)
  BY <1>1, <1>2, FS_Subset
<1>6. ListOK(E, s)
  BY <1>1, <1>2, <1>4, <1>5 DEF ListOK
<1> QED
  BY <1>6 DEF E

(* A confidence is a number.                                               *)
LEMMA ConfidenceIsInt ==
    \A c \in Confidence : c \in Int
<1> QED
  BY SMTT(60) DEF Confidence

(* The edges inferred from a name start in symbols of the generation.      *)
LEMMA InferredAre ==
    ASSUME GraphInv, NEW s \in gen.symbols, NEW relations
    PROVE  ListOK(InferredEdges(s, relations), s)
<1> DEFINE C == OfRelations({x \in gen.edges :
                    /\ x.source # s
                    /\ x.target = NoSymbol
                    /\ x.name \in {<<Last(s.qual)>>, s.qual}}, relations)
           Turned(e) == [e EXCEPT !.target = s, !.conf = Min({@, 7000})]
           g == [e \in C |-> Turned(e)]
           T == {g[e] : e \in C}
<1>1. InferredEdges(s, relations) = T
  BY DEF InferredEdges
<1>2. /\ C \subseteq gen.edges /\ \A e \in C : e.source # s
  BY DEF OfRelations
<1>3. /\ gen.edges \in SUBSET Edge /\ IsFiniteSet(gen.edges) /\ gen.symbols \in SUBSET Sym
      /\ gen.symbols = AllSymbols(gen.of)
      /\ \A e \in gen.edges : e.source \in SymbolsOf(gen.of, e.file) \cup {NoSymbol}
  BY DEF GraphInv, GenerationOK
<1> HIDE DEF C
<1>4. ASSUME NEW e \in C PROVE Turned(e) \in Edge /\ Neighbor(Turned(e), s) \in gen.symbols \cup {NoSymbol}
  <2> DEFINE less == Min({e.conf, 7000})
  <2>1. e \in Edge /\ e.source # s
    BY <1>2, <1>3
  <2>4. less \in Confidence
    <3>1. e.conf \in Confidence
      BY <2>1 DEF Edge
    <3>2. \A c \in Confidence : c \in Int
      BY ConfidenceIsInt
    <3>3. \A b \in Int : \A c \in Confidence : Min({c, b}) = IF c <= b THEN c ELSE b
      BY <3>2, OfTwo, Zenon
    <3>4. \A c \in Confidence : (IF c <= 7000 THEN c ELSE 7000) \in Confidence
      BY DEF Confidence
    <3>5. \E b \in Int : b = 7000
      OBVIOUS
    <3>6. PICK b \in Int : b = 7000
      BY <3>5
    <3>7. Min({e.conf, b}) = IF e.conf <= b THEN e.conf ELSE b
      BY <3>1, <3>3, Zenon
    <3>8. (IF e.conf <= b THEN e.conf ELSE b) \in Confidence
      BY <3>1, <3>4, <3>6
    <3>9. less = Min({e.conf, b})
      BY <3>6
    <3> HIDE DEF less
    <3> QED
      BY <3>7, <3>8, <3>9, Zenon
  <2>5. s \in Ends
    BY <1>3 DEF Ends
  <2>6. Turned(e) = [e EXCEPT !.target = s, !.conf = less]
    OBVIOUS
  <2> HIDE DEF less, Turned
  <2>7. Turned(e) \in Edge /\ Turned(e).source = e.source /\ Turned(e).target = s
    BY <2>1, <2>4, <2>5, <2>6 DEF Edge
  <2>8. Neighbor(Turned(e), s) = e.source
    BY <2>1, <2>7, Zenon DEF Neighbor
  <2>9. e.source \in gen.symbols \cup {NoSymbol}
    <3>1. e.file \in Sources /\ e.source \in SymbolsOf(gen.of, e.file) \cup {NoSymbol}
      BY <1>2, <1>3 DEF Edge
    <3> QED
      BY <1>3, <3>1 DEF AllSymbols
  <2> QED
    BY <2>7, <2>8, <2>9
<1>5. IsFiniteSet(C)
  BY <1>2, <1>3, FS_Subset
<1>6. IsFiniteSet(T)
  <2>1. DOMAIN g = C
    OBVIOUS
  <2> HIDE DEF g
  <2> QED
    BY <1>5, <2>1, ImageIsFinite
<1>7. \A e \in C : g[e] = Turned(e)
  OBVIOUS
<1> HIDE DEF g, Turned
<1>8. T \in SUBSET Edge /\ \A e \in T : Neighbor(e, s) \in gen.symbols \cup {NoSymbol}
  BY <1>4, <1>7
<1> HIDE DEF T
<1> QED
  BY <1>1, <1>6, <1>8 DEF ListOK

(* All lists of a node.                                                    *)
LEMMA ListsAre ==
    ASSUME GraphInv, NEW s \in gen.symbols, NEW q
    PROVE  /\ \A list \in EdgeLists(s, q) : ListOK(list, s)
           /\ ListOK(UNION EdgeLists(s, q), s)
<1>1. \A dir : ListOK(EdgesOf(s, dir, q.relations), s)
  BY EdgesOfAre
<1>2. ListOK(InferredEdges(s, q.relations), s)
  BY InferredAre
<1>3. \A list \in EdgeLists(s, q) :
          \/ list = InferredEdges(s, q.relations)
          \/ \E dir : list = EdgesOf(s, dir, q.relations)
  BY DEF EdgeLists
<1>4. \A list \in EdgeLists(s, q) : ListOK(list, s)
  BY <1>1, <1>2, <1>3, Zenon
<1>5. UNION EdgeLists(s, q) \subseteq gen.edges \cup InferredEdges(s, q.relations)
  <2>1. \A dir : EdgesOf(s, dir, q.relations) \subseteq gen.edges
    BY DEF EdgesOf, OfRelations
  <2> QED
    BY <1>3, <2>1
<1>6. IsFiniteSet(gen.edges \cup InferredEdges(s, q.relations))
  <2>1. IsFiniteSet(gen.edges)
    BY DEF GraphInv, GenerationOK
  <2>2. IsFiniteSet(InferredEdges(s, q.relations))
    BY <1>2 DEF ListOK
  <2> QED
    BY <2>1, <2>2, FS_Union
<1>7. IsFiniteSet(UNION EdgeLists(s, q))
  BY <1>5, <1>6, FS_Subset
<1>8. /\ UNION EdgeLists(s, q) \in SUBSET Edge
      /\ \A e \in UNION EdgeLists(s, q) : Neighbor(e, s) \in gen.symbols \cup {NoSymbol}
  BY <1>4 DEF ListOK
<1>9. ListOK(UNION EdgeLists(s, q), s)
  BY <1>7, <1>8, Zenon DEF ListOK
<1> QED
  BY <1>4, <1>9

(* What is shown of a list: all of it unless it is longer than the limit.  *)
LEMMA ShownIs ==
    ASSUME NEW E \in SUBSET Edge, IsFiniteSet(E), NEW limit \in Nat
    PROVE  /\ Shown(E, limit) \subseteq E
           /\ ~(Cardinality(E) > limit) => Shown(E, limit) = E
<1> DEFINE order == SqlOrder(E)
           m == IF Len(order) < limit THEN Len(order) ELSE limit
<1>1. Listing(order, E)
  BY SqlOrderIs
<1>2. Shown(E, limit) = {order[i] : i \in 1..m}
  BY DEF Shown
<1> HIDE DEF order
<1>3. /\ order \in Seq(E) /\ Len(order) = Cardinality(E) /\ Cardinality(E) \in Nat
      /\ \A x \in E : \E i \in 1..Cardinality(E) : order[i] = x
  BY <1>1, Zenon DEF Listing
<1>4. m \in Nat /\ m <= Len(order) /\ (~(Cardinality(E) > limit) => m = Cardinality(E))
  BY <1>3
<1> HIDE DEF m
<1>5. \A i \in 1..m : order[i] \in E
  BY <1>3, <1>4
<1> QED
  BY <1>2, <1>3, <1>4, <1>5

(* The neighbours of a node, as far as its lists are not cut.              *)
Neighborly(ns, s, q) ==
    /\ Len(ns) \in Nat /\ \A k \in 1..Len(ns) : ns[k] = NoSymbol \/ ns[k] \in Adjacent(s, q)
    /\ ~EdgesLeftOut(s, q) => \A x \in Adjacent(s, q) : \E k \in 1..Len(ns) : ns[k] = x

(* A node's neighbours are listed, and lead to symbols of the generation.  *)
LEMMA NeighborsAre ==
    ASSUME GraphAssumption, GraphInv, NEW s \in gen.symbols, NEW q, q.room \in Nat
    PROVE  /\ Neighborly(NeighborsInOrder(s, q), s, q)
           /\ Adjacent(s, q) \in SUBSET gen.symbols
<1> DEFINE L == EdgeLists(s, q)
           A == UNION L
           limit == EdgeLimit(q)
           E == EdgesShown(s, q)
           ns == NeighborsInOrder(s, q)
<1>1. (\A list \in L : ListOK(list, s)) /\ ListOK(A, s)
  BY ListsAre
<1>2. limit \in Nat
  BY DEF EdgeLimit
<1>3. E = UNION {Shown(list, limit) : list \in L}
  BY DEF EdgesShown
<1>4. \A list \in L : list \in SUBSET Edge /\ IsFiniteSet(list)
  BY <1>1, Zenon DEF ListOK
<1>5. EdgesLeftOut(s, q) <=> \E list \in L : Cardinality(list) > limit
  BY DEF EdgesLeftOut
<1>6. /\ A \in SUBSET Edge /\ IsFiniteSet(A)
      /\ \A e \in A : Neighbor(e, s) \in gen.symbols \cup {NoSymbol}
  BY <1>1, Zenon DEF ListOK
<1>7. Adjacent(s, q) = {Neighbor(e, s) : e \in A} \ {NoSymbol}
  BY DEF Adjacent
<1> HIDE DEF L, limit, ns
<1>8. \A list \in L : /\ Shown(list, limit) \subseteq list
                      /\ ~(Cardinality(list) > limit) => Shown(list, limit) = list
  BY <1>2, <1>4, ShownIs
<1>9. E \subseteq A /\ (~EdgesLeftOut(s, q) => E = A)
  BY <1>3, <1>5, <1>8
<1> HIDE DEF A, E
<1>10. E \in SUBSET Edge /\ IsFiniteSet(E)
  BY <1>6, <1>9, FS_Subset
<1>11. /\ Len(ns) \in Nat /\ DOMAIN ns = 1..Len(ns)
       /\ \A i \in DOMAIN ns : \E e \in E : ns[i] = Neighbor(e, s)
       /\ \A e \in E : \E i \in DOMAIN ns : ns[i] = Neighbor(e, s)
  BY <1>10, NeighborsIs DEF E, ns
<1>12. \A k \in 1..Len(ns) : ns[k] = NoSymbol \/ ns[k] \in Adjacent(s, q)
  BY <1>7, <1>9, <1>11
<1>13. ~EdgesLeftOut(s, q) => \A x \in Adjacent(s, q) : \E k \in 1..Len(ns) : ns[k] = x
  BY <1>7, <1>9, <1>11
<1>14. Adjacent(s, q) \in SUBSET gen.symbols
  BY <1>6, <1>7
<1> QED
  BY <1>11, <1>12, <1>13, <1>14, Zenon DEF Neighborly, ns

(* What the question reads of the generation.                              *)
LEMMA NetIs ==
    ASSUME GraphInv, NEW q
    PROVE  Net(q) \in [gen.symbols -> SUBSET gen.symbols]
<1>1. ASSUME NEW s \in gen.symbols PROVE Adjacent(s, q) \in SUBSET gen.symbols
  <2>1. ListOK(UNION EdgeLists(s, q), s)
    BY ListsAre
  <2> QED
    BY <2>1 DEF ListOK, Adjacent
<1> QED
  BY <1>1 DEF Net

(* The sets within reach obey their recursion.                             *)
LEMMA WithinIs ==
    ASSUME GraphInv, NEW q, q.depth \in Nat
    PROVE  Spheres(Balls(q), gen.symbols, Net(q), q.depth)
<1> DEFINE V == gen.symbols
           d == q.depth
           More(b) == b \cup UNION {Adjacent(s, q) : s \in b}
           step == [p \in (SUBSET V) \X (1..d) |-> More(p[1])]
<1>1. \A s \in V : Adjacent(s, q) \in SUBSET V
  <2>1. Net(q) \in [V -> SUBSET V]
    BY NetIs
  <2> QED
    BY <2>1 DEF Net
<1>2. \A b \in SUBSET V : More(b) \in SUBSET V
  BY <1>1
<1>3. step \in [(SUBSET V) \X (1..d) -> SUBSET V]
  BY <1>2
<1>4. \A k \in 1..d : \A b \in SUBSET V : step[<<b, k>>] = More(b)
  OBVIOUS
<1> HIDE DEF step, More
<1>5. ASSUME NEW r \in V
      PROVE  /\ Within(r, q) \in [0..d -> SUBSET V]
             /\ Within(r, q)[0] = {r}
             /\ \A k \in 1..d : Within(r, q)[k] = More(Within(r, q)[k - 1])
  <2> DEFINE Ball == CHOOSE Ball :
                        Ball = [k \in 0..d |-> IF k = 0 THEN {r} ELSE More(Ball[k - 1])]
  <2>1. Within(r, q) = Ball
    BY DEF Within, More
  <2>2. {r} \in SUBSET V
    OBVIOUS
  <2> HIDE DEF V, d
  <2>3. PICK f \in [0..d -> SUBSET V] : Obeys(f, d, {r}, step)
    BY <1>3, <2>2, RecursionExists DEF d
  <2>4. ASSUME NEW k \in 0..d PROVE f[k] = IF k = 0 THEN {r} ELSE More(f[k - 1])
    <3>1. f[k] = IF k = 0 THEN {r} ELSE step[<<f[k - 1], k>>]
      BY <2>3 DEF Obeys
    <3>2. k # 0 => k \in 1..d /\ f[k - 1] \in SUBSET V
      BY <2>3 DEF d
    <3> QED
      BY <1>4, <3>1, <3>2
  <2>5. f = [k \in 0..d |-> IF k = 0 THEN {r} ELSE More(f[k - 1])]
    <3>1. f = [k \in 0..d |-> f[k]]
      BY <2>3
    <3> QED
      BY <2>4, <3>1, Zenon
  <2>6. Ball = [k \in 0..d |-> IF k = 0 THEN {r} ELSE More(Ball[k - 1])]
    BY <2>5, Zenon
  <2> HIDE DEF Ball
  <2>7. \A k \in 0..d : Ball[k] = IF k = 0 THEN {r} ELSE More(Ball[k - 1])
    BY <2>6, Zenon
  <2>8. 0 \in 0..d /\ \A k \in 1..d : k \in 0..d /\ k # 0
    BY DEF d
  <2>9. Ball[0] = {r} /\ \A k \in 1..d : Ball[k] = More(Ball[k - 1])
    BY <2>7, <2>8, Zenon
  <2> DEFINE T == {k \in 0..d : Ball[k] \in SUBSET V}
  <2>10. 0 \in T
    BY <2>2, <2>8, <2>9
  <2>11. \A k \in 1..d : k - 1 \in T => k \in T
    BY <1>2, <2>8, <2>9
  <2>12. 0..d \subseteq T
    <3>1. d \in Nat
      BY DEF d
    <3> HIDE DEF T
    <3> QED
      BY <2>10, <2>11, <3>1, UpTo
  <2>13. Ball \in [0..d -> SUBSET V]
    <3>1. Ball = [k \in 0..d |-> Ball[k]]
      BY <2>6
    <3> QED
      BY <2>12, <3>1
  <2> QED
    BY <2>1, <2>9, <2>13, Zenon
<1>6. ASSUME NEW b \in SUBSET V PROVE More(b) = b \cup UNION {Net(q)[s] : s \in b}
  BY <1>6 DEF More, Net
<1>7. ASSUME NEW r \in V
      PROVE  /\ Balls(q)[r] \in [0..d -> SUBSET V]
             /\ Balls(q)[r][0] = {r}
             /\ \A k \in 1..d : Balls(q)[r][k] =
                    Balls(q)[r][k - 1] \cup UNION {Net(q)[s] : s \in Balls(q)[r][k - 1]}
  <2>1. Balls(q)[r] = Within(r, q)
    BY DEF Balls
  <2>2. \A k \in 1..d : k - 1 \in 0..d
    OBVIOUS
  <2>3. \A k \in 1..d : Within(r, q)[k - 1] \in SUBSET V
    BY <1>5, <2>2
  <2> HIDE DEF V, d
  <2>4. \A k \in 1..d : Within(r, q)[k] = More(Within(r, q)[k - 1])
    BY <1>5, Zenon
  <2>5. \A k \in 1..d : More(Within(r, q)[k - 1]) =
             Within(r, q)[k - 1] \cup UNION {Net(q)[s] : s \in Within(r, q)[k - 1]}
    BY <1>6, <2>3
  <2>6. \A k \in 1..d : Within(r, q)[k] =
             Within(r, q)[k - 1] \cup UNION {Net(q)[s] : s \in Within(r, q)[k - 1]}
    BY <2>4, <2>5, Zenon
  <2> QED
    BY <1>5, <2>1, <2>6, Zenon
<1> QED
  BY <1>7, Zenon DEF Spheres

-----------------------------------------------------------------------------
(* A walk from question to answer.                                         *)

(* Nothing is being asked.                                                 *)
LEMMA NoWalkIsOK ==
    ASSUME NEW V, NEW net, NEW balls
    PROVE  WalkOK(NoWalk, V, net, balls)
<1>1. NoWalk \in Walks(V)
  BY DEF NoWalk, Walks, Directions
<1>2. NoWalk.stage = "none"
  BY DEF NoWalk
<1> QED
  BY <1>1, <1>2 DEF WalkOK

(* A question starts with its targets and nothing found.                   *)
LEMMA StartIsOK ==
    ASSUME NEW V, NEW net, NEW balls, NEW ask \in {"trace", "impact", "file"},
           NEW dir \in Directions, NEW depth \in Nat, NEW max \in Nat \ {0},
           NEW relations \in SUBSET Nat, NEW targets \in Seq(V),
           ask = "trace" => Len(targets) <= 1, NEW u,
           u = [NoWalk EXCEPT !.stage = "asked", !.ask = ask, !.dir = dir, !.depth = depth,
                              !.max = max, !.relations = relations, !.targets = targets]
    PROVE  WalkOK(u, V, net, balls)
<1>1. /\ u.stage = "asked" /\ u.ask = ask /\ u.dir = dir /\ u.depth = depth /\ u.max = max
      /\ u.relations = relations /\ u.targets = targets /\ u.roots = {} /\ u.room = 0
      /\ u.queue = <<>> /\ u.seen = {} /\ u.nodes = <<>> /\ u.total = {} /\ u.omitted = 0
      /\ u.reached = 0 /\ u.left = FALSE
  BY DEF NoWalk
<1>2. u \in Walks(V)
  <2>1. NoWalk \in Walks(V)
    BY DEF NoWalk, Walks, Directions
  <2> QED
    BY <2>1 DEF Walks
<1>3. u.max > 0
  BY <1>1
<1>4. IsFiniteSet(u.total) /\ Cardinality(u.total) <= u.max
  <2>1. IsFiniteSet({}) /\ Cardinality({}) = 0
    BY FS_EmptySet
  <2>2. u.total = {} /\ u.max = max
    BY <1>1
  <2>3. IsFiniteSet(u.total) /\ Cardinality(u.total) = 0
    BY <2>1, <2>2, Zenon
  <2> QED
    BY <2>2, <2>3
<1>5. Fresh(u)
  BY <1>1 DEF Fresh
<1> QED
  BY <1>1, <1>2, <1>3, <1>4, <1>5 DEF WalkOK

(* Walks that are at the same place.                                       *)
Alike(u, q) ==
    /\ u.ask = q.ask /\ u.depth = q.depth /\ u.max = q.max /\ u.roots = q.roots
    /\ u.room = q.room /\ u.queue = q.queue /\ u.seen = q.seen /\ u.nodes = q.nodes
    /\ u.total = q.total

(* Where one is walking, so is the other.                                 *)
LEMMA WalkingAlike ==
    ASSUME NEW u, NEW q, Alike(u, q), NEW t, Walking(q, t)
    PROVE  Walking(u, t)
<1> DEFINE OK(roots, nodes, seen, room, queue, depth, total, max) ==
    /\ t \in roots /\ t \notin Range(nodes) /\ seen = {t} \cup Range(nodes)
    /\ \A i, j \in DOMAIN nodes : i # j => nodes[i] # nodes[j]
    /\ Len(nodes) <= room
    /\ \A i \in DOMAIN queue : queue[i].level <= depth
    /\ \A i, j \in DOMAIN queue : i <= j =>
          queue[i].level <= queue[j].level /\ queue[j].level <= queue[i].level + 1
    /\ \E before \in SUBSET total :
          total = before \cup Range(nodes) /\ Cardinality(before) + room <= max
<1>1. OK(q.roots, q.nodes, q.seen, q.room, q.queue, q.depth, q.total, q.max)
  BY Zenon DEF Walking
<1>2. OK(u.roots, u.nodes, u.seen, u.room, u.queue, u.depth, u.total, u.max)
  <2> HIDE DEF OK
  <2> QED
    BY <1>1, Zenon DEF Alike
<1> QED
  BY <1>2, Zenon DEF Walking

(* What is known of the exactness of walks at the same place.              *)
LEMMA ExactAlike ==
    ASSUME NEW u, NEW q, Alike(u, q), u.reached = q.reached, NEW t, NEW net, NEW balls,
           Exact(q, t, net, balls), Accounted(q, t, balls)
    PROVE  Exact(u, t, net, balls) /\ Accounted(u, t, balls)
<1> DEFINE Ex(roots, seen, queue, depth, total, reached) ==
        /\ \A i \in DOMAIN queue : Far(balls[t], queue[i].node, queue[i].level)
        /\ seen \subseteq balls[t][depth]
        /\ \A s \in seen : \A k \in 0..(depth - 1) :
              Far(balls[t], s, k) /\ ~(\E i \in DOMAIN queue : queue[i].node = s) =>
                 net[s] \subseteq seen
        /\ \A s \in seen : \A k \in 0..depth : Far(balls[t], s, k) =>
              /\ k <= reached
              /\ queue # <<>> => k <= queue[1].level + 1
           Ac(roots, seen, queue, depth, total, reached) ==
        /\ total \subseteq UNION {balls[r][depth] \ {r} : r \in roots}
        /\ \A r \in roots \ {t} :
              /\ (balls[r][depth] \ {r}) \subseteq total
              /\ \A s \in balls[r][depth] \ {r} : \A k \in 0..depth :
                    Far(balls[r], s, k) => k <= reached
        /\ reached <= depth
        /\ reached # 0 =>
              \E r \in roots : \E s \in balls[r][depth] \ {r} : Far(balls[r], s, reached)
<1>1. Ex(q.roots, q.seen, q.queue, q.depth, q.total, q.reached)
  BY Zenon DEF Exact, Held
<1>2. Ac(q.roots, q.seen, q.queue, q.depth, q.total, q.reached)
  BY Zenon DEF Accounted, Around
<1>3. Ex(u.roots, u.seen, u.queue, u.depth, u.total, u.reached)
  <2> HIDE DEF Ex
  <2> QED
    BY <1>1, Zenon DEF Alike
<1>4. Ac(u.roots, u.seen, u.queue, u.depth, u.total, u.reached)
  <2> HIDE DEF Ac
  <2> QED
    BY <1>2, Zenon DEF Alike
<1>5. Exact(u, t, net, balls)
  BY <1>3, Zenon DEF Exact, Held
<1>6. Accounted(u, t, balls)
  BY <1>4, Zenon DEF Accounted, Around
<1> QED
  BY <1>5, <1>6

(* An answer is the walk that ended.                                       *)
LEMMA AnswerIsOK ==
    ASSUME NEW V, NEW net, NEW balls, NEW q, WalkOK(q, V, net, balls), q.stage = "asked",
           q.queue = <<>>, q.targets = <<>>, NEW u, u = [q EXCEPT !.stage = "answered"]
    PROVE  WalkOK(u, V, net, balls)
<1>1. q \in Walks(V)
  BY DEF WalkOK
<1>2. /\ u \in Walks(V) /\ u.stage = "answered" /\ u.targets = q.targets
      /\ u.omitted = q.omitted /\ u.reached = q.reached /\ u.left = q.left
  BY <1>1 DEF Walks
<1>3. Alike(u, q)
  BY <1>1 DEF Walks, Alike
<1>4. u.max > 0 /\ IsFiniteSet(u.total) /\ Cardinality(u.total) <= u.max
  BY <1>3 DEF WalkOK, Alike
<1>5. CASE q.roots = {}
  <2>1. Fresh(q)
    BY <1>5 DEF WalkOK
  <2>2. Fresh(u)
    BY <1>2, <1>3, <2>1 DEF Fresh, Alike
  <2>3. u.roots = {}
    BY <1>3, <1>5 DEF Alike
  <2>4. u.stage # "none" /\ u.queue = <<>> /\ u.targets = <<>>
    BY <1>2, <1>3 DEF Alike
  <2> QED
    BY <1>2, <1>4, <2>2, <2>3, <2>4 DEF WalkOK
<1>6. CASE q.roots # {}
  <2>1. PICK t \in q.roots : Followed(q, t, net, balls)
    BY <1>6 DEF WalkOK, Begun
  <2>2. Walking(u, t)
    BY <1>3, <2>1, WalkingAlike DEF Followed
  <2>3. u.ask = "trace" => Alone(u, t)
    BY <1>2, <1>3, <2>1 DEF Followed, Alone, Alike
  <2>4. ~u.left /\ u.omitted = 0 => Exact(u, t, net, balls) /\ Accounted(u, t, balls)
    BY <1>2, <1>3, <2>1, ExactAlike DEF Followed
  <2>5. ~u.left /\ u.omitted > 0 /\ u.ask = "trace" => Filled(u, t, balls)
    <3>1. ASSUME Filled(q, t, balls) PROVE Filled(u, t, balls)
      BY <1>3, <3>1 DEF Filled, Alike
    <3> QED
      BY <1>2, <1>3, <2>1, <3>1 DEF Followed, Alike
  <2>6. Followed(u, t, net, balls)
    BY <2>2, <2>3, <2>4, <2>5, Zenon DEF Followed
  <2>7. u.roots # {} /\ Begun(u, net, balls)
    BY <1>3, <1>6, <2>6 DEF Begun, Alike
  <2>8. u.stage # "none" /\ u.queue = <<>> /\ u.targets = <<>>
    BY <1>2, <1>3 DEF Alike
  <2> QED
    BY <1>2, <1>4, <2>7, <2>8 DEF WalkOK
<1> QED
  BY <1>5, <1>6

(* A walk that ended has found all that is around its target.              *)
LEMMA AllIsFound ==
    ASSUME NEW V, NEW net \in [V -> SUBSET V], NEW q \in Walks(V), NEW balls, NEW t \in V,
           Spheres(balls, V, net, q.depth), Walking(q, t), Exact(q, t, net, balls),
           q.queue = <<>>
    PROVE  /\ balls[t][q.depth] \subseteq q.seen /\ Around(t, q, balls) \subseteq q.total
           /\ \A s \in Around(t, q, balls) : \A k \in 0..q.depth :
                 Far(balls[t], s, k) => k <= q.reached
<1>1. q.depth \in 0..q.depth
  BY WalkFields
<1>2. \A i \in DOMAIN q.queue : q.depth <= q.queue[i].level
  <2>1. DOMAIN q.queue = {}
    OBVIOUS
  <2> QED
    BY <2>1
<1>3. balls[t][q.depth] \subseteq q.seen
  BY <1>1, <1>2, LevelsSeen
<1>4. /\ q.seen = {t} \cup Range(q.nodes)
      /\ \E before \in SUBSET q.total : q.total = before \cup Range(q.nodes)
  BY Zenon DEF Walking
<1>5. Around(t, q, balls) \subseteq q.total
  BY <1>3, <1>4 DEF Around
<1>6. \A s \in q.seen : \A k \in 0..q.depth : Far(balls[t], s, k) => k <= q.reached
  BY Zenon DEF Exact
<1>7. \A s \in Around(t, q, balls) : s \in q.seen
  BY <1>3 DEF Around
<1> QED
  BY <1>3, <1>5, <1>6, <1>7, Zenon

(* The walk from the next target begins at it.                             *)
Turned(u, q, target, room) ==
    /\ u.stage = q.stage /\ u.ask = q.ask /\ u.depth = q.depth /\ u.max = q.max
    /\ u.targets = Tail(q.targets) /\ u.roots = q.roots \cup {target} /\ u.room = room
    /\ u.queue = <<[node |-> target, level |-> 0]>> /\ u.seen = {target} /\ u.nodes = <<>>
    /\ u.total = q.total /\ u.omitted = q.omitted /\ u.reached = q.reached /\ u.left = q.left

(* The next target is where the walk now starts.                          *)
LEMMA NextIsWalking ==
    ASSUME NEW V, NEW q \in Walks(V), NEW target \in V, NEW u, NEW room \in Nat,
           Turned(u, q, target, room), Cardinality(q.total) + room <= q.max
    PROVE  Walking(u, target)
<1>1. /\ u.depth = q.depth /\ u.max = q.max /\ u.roots = q.roots \cup {target} /\ u.room = room
      /\ u.queue = <<[node |-> target, level |-> 0]>> /\ u.seen = {target} /\ u.nodes = <<>>
      /\ u.total = q.total
  BY Zenon DEF Turned
<1>2. Range(u.nodes) = {} /\ DOMAIN u.nodes = {} /\ Len(u.nodes) = 0
  BY <1>1 DEF Range
<1>3. DOMAIN u.queue = {1} /\ u.queue[1].level = 0
  BY <1>1
<1>4. q.depth \in Nat
  BY WalkFields
<1>5. target \in u.roots /\ target \notin Range(u.nodes) /\ u.seen = {target} \cup Range(u.nodes)
  BY <1>1, <1>2
<1>6. \A i, j \in DOMAIN u.nodes : i # j => u.nodes[i] # u.nodes[j]
  BY <1>2
<1>7. Len(u.nodes) <= u.room
  BY <1>1, <1>2
<1>8. /\ \A i \in DOMAIN u.queue : u.queue[i].level <= u.depth
      /\ \A i, j \in DOMAIN u.queue : i <= j =>
            u.queue[i].level <= u.queue[j].level /\ u.queue[j].level <= u.queue[i].level + 1
  BY <1>1, <1>3, <1>4
<1>9. \E before \in SUBSET u.total :
          u.total = before \cup Range(u.nodes) /\ Cardinality(before) + u.room <= u.max
  <2>1. u.total = u.total \cup Range(u.nodes)
    BY <1>2
  <2>2. Cardinality(u.total) + u.room <= u.max
    BY <1>1
  <2> QED
    BY <2>1, <2>2, Zenon
<1> QED
  BY <1>5, <1>6, <1>7, <1>8, <1>9, Zenon DEF Walking

(* Nothing but the target has been seen, at distance zero.                *)
LEMMA NextIsExact ==
    ASSUME NEW V, NEW net \in [V -> SUBSET V], NEW balls, NEW q \in Walks(V), NEW target \in V,
           NEW u, NEW room \in Nat, Turned(u, q, target, room),
           Spheres(balls, V, net, q.depth)
    PROVE  Exact(u, target, net, balls)
<1>1. /\ u.depth = q.depth /\ u.seen = {target} /\ u.reached = q.reached
      /\ u.queue = <<[node |-> target, level |-> 0]>>
  BY Zenon DEF Turned
<1>2. /\ DOMAIN u.queue = {1} /\ u.queue[1].level = 0 /\ u.queue[1].node = target
      /\ u.queue # <<>>
  BY <1>1
<1>3. q.depth \in Nat /\ q.reached \in Nat
  BY WalkFields
<1> DEFINE B == balls[target]
           d == q.depth
<1>4. Graded(B, target, d)
  BY <1>3, BallsGrow
<1> HIDE DEF B, d
<1>5. 0 \in 0..d /\ d \in 0..d /\ d \in Nat
  BY <1>3 DEF d
<1>6. /\ Far(B, target, 0) /\ B[0] \subseteq B[d]
      /\ \A k \in 0..d : Far(B, target, k) => k = 0
  BY <1>4, <1>5, Zenon DEF Graded
<1>7. target \in B[d]
  BY <1>6 DEF Far
<1>8. Held(u, target)
  BY <1>2 DEF Held
<1>9. \A i \in DOMAIN u.queue : Far(B, u.queue[i].node, u.queue[i].level)
  BY <1>2, <1>6
<1>10. u.seen \subseteq B[u.depth]
  BY <1>1, <1>7 DEF d
<1>11. \A s \in u.seen : \A k \in 0..(u.depth - 1) :
          Far(B, s, k) /\ ~Held(u, s) => net[s] \subseteq u.seen
  BY <1>1, <1>8
<1>12. \A s \in u.seen : \A k \in 0..u.depth : Far(B, s, k) =>
          /\ k <= u.reached
          /\ u.queue # <<>> => k <= u.queue[1].level + 1
  <2> SUFFICES ASSUME NEW s \in u.seen, NEW k \in 0..u.depth, Far(B, s, k)
               PROVE  k <= u.reached /\ k <= u.queue[1].level + 1
    OBVIOUS
  <2>1. k = 0
    BY <1>1, <1>6 DEF d
  <2> QED
    BY <1>1, <1>2, <1>3, <2>1
<1> QED
  BY <1>9, <1>10, <1>11, <1>12, Zenon DEF Exact, B

(* The walk that ended has found what there was around its target.        *)
LEMMA NextIsAccounted ==
    ASSUME NEW V, NEW net \in [V -> SUBSET V], NEW balls, NEW q \in Walks(V), NEW target \in V,
           NEW u, NEW room \in Nat, Turned(u, q, target, room),
           Spheres(balls, V, net, q.depth), q.queue = <<>>,
           \/ q.roots = {} /\ q.total = {} /\ q.reached = 0
           \/ \E t \in q.roots : Walking(q, t) /\ Exact(q, t, net, balls) /\ Accounted(q, t, balls)
    PROVE  Accounted(u, target, balls)
<1>1. /\ u.depth = q.depth /\ u.roots = q.roots \cup {target} /\ u.reached = q.reached
      /\ u.total = q.total
  BY Zenon DEF Turned
<1>2. \A r : Around(r, u, balls) = Around(r, q, balls)
  BY <1>1 DEF Around
<1>3. q.depth \in Nat
  BY WalkFields
<1>4. CASE q.roots = {} /\ q.total = {} /\ q.reached = 0
  <2>1. u.total \subseteq UNION {Around(r, u, balls) : r \in u.roots}
    BY <1>1, <1>4
  <2>2. u.roots \ {target} = {}
    BY <1>1, <1>4
  <2>3. u.reached <= u.depth /\ u.reached = 0
    BY <1>1, <1>3, <1>4
  <2> QED
    BY <2>1, <2>2, <2>3 DEF Accounted
<1>5. ASSUME NEW t \in q.roots, Walking(q, t), Exact(q, t, net, balls), Accounted(q, t, balls)
      PROVE  Accounted(u, target, balls)
  <2>1. t \in V
    BY WalkFields
  <2>2. /\ Around(t, q, balls) \subseteq q.total
        /\ \A s \in Around(t, q, balls) : \A k \in 0..q.depth :
              Far(balls[t], s, k) => k <= q.reached
    BY <1>5, <2>1, AllIsFound
  <2>3. /\ q.total \subseteq UNION {Around(r, q, balls) : r \in q.roots}
        /\ \A r \in q.roots \ {t} :
              /\ Around(r, q, balls) \subseteq q.total
              /\ \A s \in Around(r, q, balls) : \A k \in 0..q.depth :
                    Far(balls[r], s, k) => k <= q.reached
        /\ q.reached <= q.depth
        /\ q.reached # 0 =>
              \E r \in q.roots : \E s \in Around(r, q, balls) : Far(balls[r], s, q.reached)
    BY <1>5, Zenon DEF Accounted
  <2>4. u.total \subseteq UNION {Around(r, u, balls) : r \in u.roots}
    BY <1>1, <1>2, <2>3
  <2>5. ASSUME NEW r \in u.roots \ {target}
        PROVE  /\ Around(r, u, balls) \subseteq u.total
               /\ \A s \in Around(r, u, balls) : \A k \in 0..u.depth :
                     Far(balls[r], s, k) => k <= u.reached
    <3>1. r \in q.roots
      BY <1>1
    <3>2. CASE r = t
      BY <1>1, <1>2, <2>2, <3>2
    <3>3. CASE r # t
      <4>1. /\ Around(r, q, balls) \subseteq q.total
            /\ \A s \in Around(r, q, balls) : \A k \in 0..q.depth :
                  Far(balls[r], s, k) => k <= q.reached
        BY <2>3, <3>1, <3>3
      <4> QED
        BY <1>1, <1>2, <4>1
    <3> QED
      BY <3>2, <3>3
  <2>6. u.reached <= u.depth
    BY <1>1, <2>3
  <2>7. u.reached # 0 =>
            \E r \in u.roots : \E s \in Around(r, u, balls) : Far(balls[r], s, u.reached)
    BY <1>1, <1>2, <2>3
  <2> QED
    BY <2>4, <2>5, <2>6, <2>7, Zenon DEF Accounted
<1> QED
  BY <1>4, <1>5

(* The next target of a question, if there is room for one more node.      *)
LEMMA NextIsOK ==
    ASSUME NEW V, NEW net \in [V -> SUBSET V], NEW balls, NEW q, WalkOK(q, V, net, balls),
           Spheres(balls, V, net, q.depth), q.stage = "asked", q.queue = <<>>,
           q.targets # <<>>, NEW room \in Int, room = q.max - Cardinality(q.total), room > 0,
           NEW target, target = Head(q.targets), NEW u,
           u = [q EXCEPT !.targets = Tail(@), !.roots = @ \cup {target}, !.room = room,
                         !.queue = <<[node |-> target, level |-> 0]>>,
                         !.seen = {target}, !.nodes = <<>>]
    PROVE  WalkOK(u, V, net, balls)
<1>1. q \in Walks(V)
  BY DEF WalkOK
<1>2. /\ q.max > 0 /\ IsFiniteSet(q.total) /\ Cardinality(q.total) <= q.max
      /\ IF q.roots = {} THEN Fresh(q) ELSE Begun(q, net, balls)
  BY DEF WalkOK
<1>3. target \in V /\ Tail(q.targets) \in Seq(V) /\ (Len(q.targets) <= 1 => Tail(q.targets) = <<>>)
  <2>1. q.targets \in Seq(V)
    BY <1>1, WalkFields
  <2> QED
    BY <2>1
<1>4. room \in Nat /\ Cardinality(q.total) \in Nat /\ q.max \in Nat
  <2>1. q.max \in Nat
    BY <1>1, WalkFields
  <2> QED
    BY <1>2, <2>1, FS_CardinalityType
<1>5. Cardinality(q.total) + room <= q.max
  BY <1>4
<1>6. u \in Walks(V) /\ Turned(u, q, target, room)
  <2> DEFINE queue == <<[node |-> target, level |-> 0]>>
             roots == q.roots \cup {target}
             rest  == Tail(q.targets)
             seen  == {target}
             nodes == <<>>
  <2>1. [node |-> target, level |-> 0] \in Items(V)
    BY <1>3 DEF Items
  <2>2. queue \in Seq(Items(V)) /\ nodes \in Seq(V) /\ seen \in SUBSET V
    BY <1>3, <2>1
  <2>3. q.roots \in SUBSET V
    BY <1>1, WalkFields
  <2>4. roots \in SUBSET V /\ rest \in Seq(V)
    BY <1>3, <2>3
  <2>5. u = [q EXCEPT !.targets = rest, !.roots = roots, !.room = room, !.queue = queue,
                      !.seen = seen, !.nodes = nodes]
    OBVIOUS
  <2> HIDE DEF queue, roots, rest, seen, nodes
  <2>6. u \in Walks(V)
    <3> DEFINE half == [q EXCEPT !.targets = rest, !.roots = roots, !.room = room]
    <3>1. half \in Walks(V)
      BY <1>1, <1>4, <2>4 DEF Walks
    <3>2. u = [half EXCEPT !.queue = queue, !.seen = seen, !.nodes = nodes]
      BY <1>1, <2>5 DEF Walks
    <3> HIDE DEF half
    <3> QED
      BY <2>2, <3>1, <3>2 DEF Walks
  <2>7. /\ u.stage = q.stage /\ u.ask = q.ask /\ u.depth = q.depth /\ u.max = q.max
        /\ u.targets = rest /\ u.roots = roots /\ u.room = room
        /\ u.queue = queue /\ u.seen = seen /\ u.nodes = nodes
        /\ u.total = q.total /\ u.omitted = q.omitted /\ u.reached = q.reached /\ u.left = q.left
    BY <1>1, <2>5 DEF Walks
  <2> QED
    BY <2>6, <2>7, Zenon DEF Turned, queue, roots, rest, seen, nodes
<1>7. /\ u.stage = q.stage /\ u.ask = q.ask /\ u.max = q.max /\ u.total = q.total
      /\ u.omitted = q.omitted /\ u.left = q.left /\ u.roots = q.roots \cup {target}
      /\ u.targets = Tail(q.targets) /\ u.room = room /\ u.nodes = <<>>
  BY <1>6, Zenon DEF Turned
<1>8. Walking(u, target)
  BY <1>1, <1>3, <1>4, <1>5, <1>6, NextIsWalking
<1>9. u.ask = "trace" => q.roots = {} /\ Fresh(q)
  <2>1. ASSUME q.ask = "trace", q.roots # {} PROVE FALSE
    <3>1. PICK t \in q.roots : Followed(q, t, net, balls)
      BY <1>2, <2>1 DEF Begun
    <3> QED
      BY <2>1, <3>1 DEF Followed, Alone
  <2> QED
    BY <1>2, <1>7, <2>1
<1>10. u.ask = "trace" => Alone(u, target)
  <2> SUFFICES ASSUME u.ask = "trace" PROVE Alone(u, target)
    OBVIOUS
  <2>1. q.roots = {} /\ q.total = {} /\ Len(q.targets) <= 1
    BY <1>7, <1>9 DEF Fresh
  <2>2. Cardinality(q.total) = 0
    BY <2>1, FS_EmptySet
  <2>3. u.room = u.max
    BY <1>4, <1>7, <2>2
  <2>4. u.roots = {target} /\ u.targets = <<>>
    BY <1>3, <1>7, <2>1
  <2>5. u.total = Range(u.nodes)
    BY <1>7, <2>1 DEF Range
  <2> QED
    BY <2>3, <2>4, <2>5 DEF Alone
<1>11. ASSUME ~u.left, u.omitted = 0
       PROVE  Exact(u, target, net, balls) /\ Accounted(u, target, balls)
  <2>1. \/ q.roots = {} /\ q.total = {} /\ q.reached = 0
        \/ \E t \in q.roots : Walking(q, t) /\ Exact(q, t, net, balls) /\ Accounted(q, t, balls)
    <3>1. CASE q.roots = {}
      BY <1>2, <3>1 DEF Fresh
    <3>2. CASE q.roots # {}
      <4>1. PICK t \in q.roots : Followed(q, t, net, balls)
        BY <1>2, <3>2 DEF Begun
      <4> QED
        BY <1>7, <1>11, <4>1 DEF Followed
    <3> QED
      BY <3>1, <3>2
  <2>2. Exact(u, target, net, balls)
    BY <1>1, <1>3, <1>4, <1>6, NextIsExact
  <2>3. Accounted(u, target, balls)
    BY <1>1, <1>3, <1>4, <1>6, <2>1, NextIsAccounted
  <2> QED
    BY <2>2, <2>3
<1>12. ~(u.omitted > 0 /\ u.ask = "trace")
  BY <1>7, <1>9 DEF Fresh
<1>13. Followed(u, target, net, balls)
  BY <1>8, <1>10, <1>11, <1>12, Zenon DEF Followed
<1>14. u.roots # {} /\ Begun(u, net, balls)
  BY <1>7, <1>13 DEF Begun
<1>15. u.max > 0 /\ IsFiniteSet(u.total) /\ Cardinality(u.total) <= u.max /\ u.stage = "asked"
  BY <1>2, <1>7
<1> QED
  BY <1>6, <1>14, <1>15 DEF WalkOK

(* Without room, the other targets are given up and counted as omitted.    *)
LEMMA GivenUpIsOK ==
    ASSUME NEW V, NEW net, NEW balls, NEW q, WalkOK(q, V, net, balls), q.stage = "asked",
           q.targets # <<>>, q.max - Cardinality(q.total) <= 0, NEW u,
           u = [q EXCEPT !.targets = <<>>, !.omitted = @ + 1]
    PROVE  WalkOK(u, V, net, balls)
<1>1. q \in Walks(V)
  BY DEF WalkOK
<1>2. /\ q.max > 0 /\ IsFiniteSet(q.total) /\ Cardinality(q.total) <= q.max
      /\ IF q.roots = {} THEN Fresh(q) ELSE Begun(q, net, balls)
  BY DEF WalkOK
<1>3. q.max \in Nat /\ q.omitted \in Nat
  BY <1>1, WalkFields
<1>4. q.roots # {}
  <2> SUFFICES ASSUME q.roots = {} PROVE FALSE
    OBVIOUS
  <2>1. q.total = {}
    BY <1>2 DEF Fresh
  <2>2. Cardinality(q.total) = 0
    BY <2>1, FS_EmptySet
  <2> QED
    BY <1>2, <1>3, <2>2
<1>5. PICK t \in q.roots : Followed(q, t, net, balls)
  BY <1>2, <1>4 DEF Begun
<1>6. q.ask # "trace"
  BY <1>5 DEF Followed, Alone
<1> DEFINE more == q.omitted + 1
<1>7. more \in Nat /\ more > 0 /\ u = [q EXCEPT !.targets = <<>>, !.omitted = more]
  BY <1>3
<1> HIDE DEF more
<1>8. u \in Walks(V) /\ u.omitted = more /\ u.stage = "asked" /\ u.ask = q.ask
  <2>1. <<>> \in Seq(V)
    OBVIOUS
  <2> QED
    BY <1>1, <1>7, <2>1 DEF Walks
<1>9. Alike(u, q)
  BY <1>1 DEF Walks, Alike
<1>10. Walking(u, t)
  BY <1>5, <1>9, WalkingAlike DEF Followed
<1>11. Followed(u, t, net, balls)
  BY <1>6, <1>7, <1>8, <1>10 DEF Followed
<1>12. u.roots # {} /\ Begun(u, net, balls)
  BY <1>4, <1>9, <1>11 DEF Begun, Alike
<1>13. u.max > 0 /\ IsFiniteSet(u.total) /\ Cardinality(u.total) <= u.max
  BY <1>2, <1>9 DEF Alike
<1> QED
  BY <1>8, <1>12, <1>13 DEF WalkOK

(* While a node is queued, a walk is going on.                             *)
LEMMA SomeIsTracked ==
    ASSUME NEW V, NEW net, NEW balls, NEW q, WalkOK(q, V, net, balls), q.queue # <<>>
    PROVE  /\ q \in Walks(V) /\ q.stage = "asked" /\ q.roots # {} /\ q.max > 0
           /\ IsFiniteSet(q.total) /\ Cardinality(q.total) <= q.max
           /\ \E t \in q.roots : Followed(q, t, net, balls)
<1>1. q \in Walks(V)
  BY DEF WalkOK
<1>2. q.stage = "asked"
  <2>1. q.stage # "none"
    BY DEF WalkOK, NoWalk
  <2>2. q.stage # "answered"
    BY DEF WalkOK
  <2>3. q.stage \in {"none", "asked", "answered"}
    BY <1>1 DEF Walks
  <2> QED
    BY <2>1, <2>2, <2>3
<1>3. /\ q.max > 0 /\ IsFiniteSet(q.total) /\ Cardinality(q.total) <= q.max
      /\ IF q.roots = {} THEN Fresh(q) ELSE Begun(q, net, balls)
  BY <1>2 DEF WalkOK
<1>4. q.roots # {}
  BY <1>3 DEF Fresh
<1>5. \E t \in q.roots : Followed(q, t, net, balls)
  BY <1>3, <1>4 DEF Begun
<1> QED
  BY <1>1, <1>2, <1>3, <1>4, <1>5

(* A turn of the loop.                                                     *)
LEMMA TurnIsOK ==
    ASSUME NEW V, IsFiniteSet(V), NEW net \in [V -> SUBSET V], NEW balls, NEW q,
           WalkOK(q, V, net, balls), Spheres(balls, V, net, q.depth), q.queue # <<>>,
           NEW u, NEW t \in q.roots, Followed(q, t, net, balls),
           u \in Walks(V), Advanced(u, q, t, net)
    PROVE  WalkOK(u, V, net, balls)
<1>1. q \in Walks(V) /\ q.stage = "asked" /\ q.roots # {} /\ q.max > 0
  BY SomeIsTracked
<1>6. t \in V
  BY <1>1, WalkFields
<1>8. Followed(u, t, net, balls)
  BY <1>1, <1>6, TurnIsTracked
<1>9. u.stage = "asked" /\ u.max = q.max /\ u.roots = q.roots
  BY <1>1 DEF Advanced, Moved
<1>10. IsFiniteSet(u.total)
  <2>1. u.total \in SUBSET V
    BY WalkFields
  <2> QED
    BY <2>1, FS_Subset
<1>11. Cardinality(u.total) <= u.max
  <2>1. Walking(u, t)
    BY <1>8 DEF Followed
  <2>2. /\ Cardinality(u.total \cup Range(u.nodes)) <= u.max
        /\ u.total = u.total \cup Range(u.nodes)
    BY <1>10, <2>1, TurnIsBounded
  <2> QED
    BY <2>2
<1>12. Begun(u, net, balls) /\ u.roots # {}
  BY <1>1, <1>8, <1>9 DEF Begun
<1> QED
  BY <1>1, <1>9, <1>10, <1>11, <1>12 DEF WalkOK

-----------------------------------------------------------------------------
(* The walk of the specification.                                          *)

(* The sets within reach of the walk, in a state and in the next.          *)
LEMMA BallsAre ==
    GraphInv /\ walk.depth \in Nat =>
        Spheres(Balls(walk), gen.symbols, Net(walk), walk.depth)
BY WithinIs

(* The same, for the state after a step.                                  *)
LEMMA BallsAfter ==
    (GraphInv /\ walk.depth \in Nat =>
        Spheres(Balls(walk), gen.symbols, Net(walk), walk.depth))'
BY BallsAre, PTL

(* The graph a question sees is that of the generation.                    *)
LEMMA NetStays ==
    ASSUME gen' = gen, walk'.dir = walk.dir, walk'.relations = walk.relations
    PROVE  Net(walk)' = Net(walk)
<1>1. ASSUME NEW s, NEW d PROVE EdgesOf(s, d, walk.relations)' = EdgesOf(s, d, walk.relations)
  BY DEF EdgesOf, OfRelations
<1>2. ASSUME NEW s PROVE InferredEdges(s, walk.relations)' = InferredEdges(s, walk.relations)
  <2> DEFINE C(edges, relations) ==
                OfRelations({x \in edges : /\ x.source # s
                                           /\ x.target = NoSymbol
                                           /\ x.name \in {<<Last(s.qual)>>, s.qual}}, relations)
             I(cs) == {[e EXCEPT !.target = s, !.conf = Min({@, 7000})] : e \in cs}
  <2>1. InferredEdges(s, walk.relations) = I(C(gen.edges, walk.relations))
    BY Zenon DEF InferredEdges
  <2>2. InferredEdges(s, walk.relations)' = I(C(gen'.edges, walk'.relations))
    BY Zenon DEF InferredEdges
  <2> HIDE DEF C, I
  <2> QED
    BY <2>1, <2>2
<1>3. ASSUME NEW s PROVE EdgeLists(s, walk)' = EdgeLists(s, walk)
  <2> DEFINE sides(dir) == IF dir = "both" THEN {"dependencies", "dependents"} ELSE {dir}
             found(E, dir) == {E[d] : d \in sides(dir)}
             more(I, dir) == IF Incoming(dir) \/ dir = "both" THEN {I} ELSE {}
  <2>1. EdgeLists(s, walk) = {EdgesOf(s, d, walk.relations) : d \in sides(walk.dir)}
                             \cup more(InferredEdges(s, walk.relations), walk.dir)
    BY Zenon DEF EdgeLists
  <2>2. EdgeLists(s, walk)' = {EdgesOf(s, d, walk.relations)' : d \in sides(walk'.dir)}
                              \cup more(InferredEdges(s, walk.relations)', walk'.dir)
    BY Zenon DEF EdgeLists
  <2>3. {EdgesOf(s, d, walk.relations)' : d \in sides(walk'.dir)} =
            {EdgesOf(s, d, walk.relations) : d \in sides(walk.dir)}
    <3> HIDE DEF sides
    <3> QED
      BY <1>1
  <2>4. more(InferredEdges(s, walk.relations)', walk'.dir) =
            more(InferredEdges(s, walk.relations), walk.dir)
    <3> HIDE DEF more
    <3> QED
      BY <1>2
  <2> QED
    BY <2>1, <2>2, <2>3, <2>4, Zenon
<1>4. ASSUME NEW s PROVE Adjacent(s, walk)' = Adjacent(s, walk)
  BY <1>3, Zenon DEF Adjacent
<1>5. Net(walk) = [s \in gen.symbols |-> Adjacent(s, walk)]
  BY DEF Net
<1>6. Net(walk)' = [s \in gen'.symbols |-> Adjacent(s, walk)']
  BY DEF Net
<1> QED
  BY <1>4, <1>5, <1>6

(* A step within a walk.                                                   *)
LEMMA WalkGoesOn ==
    ASSUME GraphInv, GraphInv', gen' = gen, walk.depth \in Nat, walk'.dir = walk.dir,
           walk'.relations = walk.relations, walk'.depth = walk.depth,
           WalkOK(walk', gen.symbols, Net(walk), Balls(walk))
    PROVE  WalkInv'
<1>1. Net(walk)' = Net(walk)
  BY NetStays
<1>2. Spheres(Balls(walk), gen.symbols, Net(walk), walk.depth)
  BY BallsAre
<1>3. Spheres(Balls(walk)', gen'.symbols, Net(walk)', walk'.depth)
  <2>1. walk'.depth \in Nat
    OBVIOUS
  <2> QED
    BY <2>1, BallsAfter
<1>4. Spheres(Balls(walk)', gen.symbols, Net(walk), walk.depth)
  BY <1>1, <1>3, Zenon
<1>5. \A r \in gen.symbols : Balls(walk)'[r] = Balls(walk)[r]
  BY <1>2, <1>4, SpheresAreUnique
<1>6. Balls(walk)' = Balls(walk)
  <2>1. Balls(walk) = [r \in gen.symbols |-> Balls(walk)[r]]
    BY DEF Balls
  <2>2. Balls(walk)' = [r \in gen.symbols |-> Balls(walk)'[r]]
    BY DEF Balls
  <2> QED
    BY <1>5, <2>1, <2>2
<1>7. WalkInv' <=> WalkOK(walk', gen'.symbols, Net(walk)', Balls(walk)')
  BY DEF WalkInv
<1>8. gen'.symbols = gen.symbols
  OBVIOUS
<1> QED
  BY <1>1, <1>6, <1>7, <1>8, Zenon

(* The symbols of a set, in the order of their files.                      *)
LEMMA FileOrderIs ==
    ASSUME GraphAssumption, GraphInv, NEW S \in SUBSET gen.symbols
    PROVE  Listing(InFileOrder(S), S)
<1>1. /\ gen.of \in [Sources -> Extract] /\ gen.symbols = AllSymbols(gen.of)
      /\ gen.symbols \in SUBSET Sym /\ IsFiniteSet(gen.symbols)
  <2>1. gen.of \in [Sources -> Extract] /\ gen.symbols = AllSymbols(gen.of)
    BY DEF GraphInv, GenerationOK
  <2> QED
    BY <2>1, AllSymbolsAre
<1>2. IsFiniteSet(S)
  BY <1>1, FS_Subset
<1>3. ASSUME NEW s \in S PROVE s.file \in Nat /\ Position(s) \in Nat
  <2>1. s \in gen.symbols /\ s.file \in Sources
    BY <1>1 DEF Sym
  <2>2. s \in SymbolsOf(gen.of, s.file)
    BY <1>1, <2>1, AllSymbolsAre
  <2> DEFINE names == gen.of[s.file].symbols
  <2>3. names \in Seq(Name \ {<<>>})
    <3>1. gen.of[s.file] \in Extract
      BY <1>1, <2>1
    <3> QED
      BY <3>1 DEF Extract
  <2>4. \E i \in DOMAIN names : names[i] = s.qual
    BY <2>2 DEF SymbolsOf, Symbol, Range
  <2>5. Position(s) \in DOMAIN names
    BY <2>4 DEF Position
  <2>6. Position(s) \in Nat
    <3> HIDE DEF names
    <3>1. DOMAIN names = 1..Len(names) /\ Len(names) \in Nat
      BY <2>3
    <3> QED
      BY <2>5, <3>1
  <2> QED
    BY <2>1, <2>6 DEF Sources
<1> DEFINE Sooner(x, y) == x.file < y.file \/ (x.file = y.file /\ Position(x) < Position(y))
           R == {p \in S \X S : Sooner(p[1], p[2])}
           a == [s \in S |-> s.file]
           b == [s \in S |-> Position(s)]
<1>4. InFileOrder(S) = Sorted(S, R)
  BY DEF InFileOrder, InOrder
<1>5. a \in [S -> Nat] /\ b \in [S -> Nat]
  BY <1>3
<1>6. \A x, y \in S : <<x, y>> \in R => a[x] < a[y] \/ (a[x] = a[y] /\ b[x] < b[y])
  OBVIOUS
<1> HIDE DEF a, b, R
<1>7. Listing(Sorted(S, R), S)
  BY <1>2, <1>5, <1>6, SortedByTwo
<1> QED
  BY <1>4, <1>7

(* The targets of a question.                                              *)
MatchesOK(value) ==
    /\ Matches(value) \in Seq(gen.symbols)
    /\ Cardinality(Named(value)) = 1 => Len(Matches(value)) = 1

(* A name that means one symbol has one target.                            *)
LEMMA MatchesAre ==
    ASSUME GraphAssumption, GraphInv, NEW value
    PROVE  MatchesOK(value)
<1> DEFINE N == Named(value)
           full == {s \in N : s.qual = value}
           A == InFileOrder(full)
           B == InFileOrder(N \ full)
<1>1. Matches(value) = A \o B
  BY DEF Matches
<1>2. N \subseteq gen.symbols /\ IsFiniteSet(gen.symbols)
  <2>1. gen.of \in [Sources -> Extract] /\ gen.symbols = AllSymbols(gen.of)
    BY DEF GraphInv, GenerationOK
  <2>2. IsFiniteSet(gen.symbols)
    BY <2>1, AllSymbolsAre
  <2> QED
    BY <2>2 DEF Named
<1>3. full \subseteq N
  OBVIOUS
<1> HIDE DEF N, full
<1>4. Listing(A, full) /\ Listing(B, N \ full)
  <2>1. full \in SUBSET gen.symbols /\ N \ full \in SUBSET gen.symbols
    BY <1>2, <1>3
  <2> QED
    BY <2>1, FileOrderIs
<1> HIDE DEF A, B
<1>5. /\ A \in Seq(full) /\ Len(A) = Cardinality(full)
      /\ B \in Seq(N \ full) /\ Len(B) = Cardinality(N \ full)
  BY <1>4, Zenon DEF Listing
<1>6. A \in Seq(gen.symbols) /\ B \in Seq(gen.symbols)
  BY <1>2, <1>3, <1>5
<1>7. A \o B \in Seq(gen.symbols) /\ Len(A \o B) = Len(A) + Len(B)
  BY <1>6
<1>8. Cardinality(N \ full) = Cardinality(N) - Cardinality(full)
  <2>1. IsFiniteSet(N) /\ N \cap full = full
    BY <1>2, <1>3, FS_Subset
  <2> QED
    BY <2>1, FS_Difference
<1>9. Cardinality(full) \in Nat /\ Cardinality(N) \in Nat
  <2>1. IsFiniteSet(N) /\ IsFiniteSet(full)
    BY <1>2, <1>3, FS_Subset
  <2> QED
    BY <2>1, FS_CardinalityType
<1> QED
  BY <1>1, <1>5, <1>7, <1>8, <1>9 DEF N, MatchesOK

(* A question starts its walk.                                             *)
LEMMA AskStep ==
    ASSUME GraphAssumption, GraphInv, AskGraph
    PROVE  WalkInv'
<1>1. UNCHANGED gen
  BY DEF AskGraph
<1>2. PICK question \in Questions :
          Trace(question) \/ ImpactOfSymbol(question) \/ ImpactOfFile(question)
  BY DEF AskGraph
<1> DEFINE V == gen.symbols
<1>3. \E targets \in Seq(V) :
          Start(question, targets) /\ (question.ask = "trace" => Len(targets) <= 1)
  <2>1. CASE Trace(question)
    <3>2. Start(question, Matches(question.value)) /\ Cardinality(Named(question.value)) = 1
      BY <2>1 DEF Trace
    <3>1. Matches(question.value) \in Seq(V) /\ Len(Matches(question.value)) = 1
      <4>1. MatchesOK(question.value)
        BY MatchesAre
      <4> QED
        BY <3>2, <4>1 DEF MatchesOK
    <3>3. Len(Matches(question.value)) <= 1
      BY <3>1
    <3> QED
      BY <3>1, <3>2, <3>3, Zenon
  <2>2. CASE ImpactOfSymbol(question)
    <3>1. Matches(question.value) \in Seq(V) /\ question.ask # "trace"
      <4>1. MatchesOK(question.value)
        BY MatchesAre
      <4> QED
        BY <2>2, <4>1 DEF MatchesOK, ImpactOfSymbol
    <3>2. Start(question, Matches(question.value))
      BY <2>2 DEF ImpactOfSymbol
    <3> QED
      BY <3>1, <3>2
  <2>3. CASE ImpactOfFile(question)
    <3> DEFINE S == {s \in gen.symbols : s.file = question.file}
    <3>1. Listing(InFileOrder(S), S)
      BY FileOrderIs
    <3>2. S \subseteq V
      OBVIOUS
    <3>3. Start(question, InFileOrder(S)) /\ question.ask # "trace"
      BY <2>3 DEF ImpactOfFile
    <3> HIDE DEF S
    <3>4. InFileOrder(S) \in Seq(S)
      BY <3>1, Zenon DEF Listing
    <3>5. InFileOrder(S) \in Seq(V)
      BY <3>2, <3>4
    <3> QED
      BY <3>3, <3>5
  <2> QED
    BY <1>2, <2>1, <2>2, <2>3
<1>4. PICK targets \in Seq(V) :
          Start(question, targets) /\ (question.ask = "trace" => Len(targets) <= 1)
  BY <1>3
<1> DEFINE ask == question.ask
           dir == question.dir
           depth == question.depth
           max == question.max
           relations == question.relations
<1>5. /\ ask \in {"trace", "impact", "file"} /\ dir \in Directions /\ depth \in Nat
      /\ max \in Nat \ {0} /\ relations \in SUBSET Nat
  BY DEF GraphAssumption
<1>6. walk' = [NoWalk EXCEPT !.stage = "asked", !.ask = ask, !.dir = dir, !.depth = depth,
                             !.max = max, !.relations = relations, !.targets = targets]
  BY <1>4 DEF Start
<1>7. ask = "trace" => Len(targets) <= 1
  BY <1>4
<1> HIDE DEF ask, dir, depth, max, relations
<1>8. \A net, balls : WalkOK(walk', V, net, balls)
  BY <1>5, <1>6, <1>7, StartIsOK
<1>9. V = gen'.symbols
  BY <1>1
<1>10. WalkOK(walk', gen'.symbols, Net(walk)', Balls(walk)')
  BY <1>8, <1>9, Zenon
<1> QED
  BY <1>10 DEF WalkInv

(* What a step within a walk knows of its state.                           *)
LEMMA WalkKnows ==
    ASSUME GraphAssumption, GraphInv, WalkInv
    PROVE  /\ walk \in Walks(gen.symbols) /\ walk.depth \in Nat
           /\ IsFiniteSet(gen.symbols) /\ NoSymbol \notin gen.symbols
           /\ Net(walk) \in [gen.symbols -> SUBSET gen.symbols]
           /\ Spheres(Balls(walk), gen.symbols, Net(walk), walk.depth)
           /\ WalkOK(walk, gen.symbols, Net(walk), Balls(walk))
<1>1. walk \in Walks(gen.symbols) /\ WalkOK(walk, gen.symbols, Net(walk), Balls(walk))
  BY DEF WalkInv, WalkOK
<1>2. walk.depth \in Nat
  BY <1>1, WalkFields
<1>3. gen.of \in [Sources -> Extract] /\ gen.symbols = AllSymbols(gen.of)
  BY DEF GraphInv, GenerationOK
<1>4. IsFiniteSet(gen.symbols) /\ NoSymbol \notin gen.symbols
  BY <1>3, AllSymbolsAre
<1>5. Net(walk) \in [gen.symbols -> SUBSET gen.symbols]
  BY NetIs
<1>6. Spheres(Balls(walk), gen.symbols, Net(walk), walk.depth)
  BY <1>2, BallsAre
<1> QED
  BY <1>1, <1>2, <1>4, <1>5, <1>6

(* The next target.                                                        *)
LEMMA NextTargetStep ==
    ASSUME GraphAssumption, GraphInv, GraphInv', WalkInv, NextTarget
    PROVE  WalkInv'
<1> DEFINE V == gen.symbols
           net == Net(walk)
           balls == Balls(walk)
           room == Room(walk)
           target == Head(walk.targets)
<1>1. /\ walk \in Walks(V) /\ walk.depth \in Nat /\ IsFiniteSet(V)
      /\ net \in [V -> SUBSET V] /\ Spheres(balls, V, net, walk.depth)
      /\ WalkOK(walk, V, net, balls)
  BY WalkKnows
<1>2. walk.stage = "asked" /\ walk.queue = <<>> /\ walk.targets # <<>> /\ gen' = gen
  BY DEF NextTarget
<1>3. walk' = IF room <= 0
              THEN [walk EXCEPT !.targets = <<>>, !.omitted = @ + 1]
              ELSE [walk EXCEPT !.targets = Tail(@), !.roots = @ \cup {target},
                                 !.room = room, !.queue = <<[node |-> target, level |-> 0]>>,
                                 !.seen = {target}, !.nodes = <<>>]
  BY DEF NextTarget
<1>4. room \in Int /\ room = walk.max - Cardinality(walk.total)
  <2>1. walk.max \in Nat /\ walk.total \in SUBSET V
    BY <1>1, WalkFields
  <2>2. Cardinality(walk.total) \in Nat
    BY <1>1, <2>1, FS_Subset, FS_CardinalityType
  <2> QED
    BY <2>1, <2>2 DEF Room
<1>5. /\ walk'.dir = walk.dir /\ walk'.relations = walk.relations /\ walk'.depth = walk.depth
  BY <1>1, <1>3 DEF Walks
<1> HIDE DEF V, net, balls, room
<1>6. WalkOK(walk', V, net, balls)
  <2>1. CASE room <= 0
    <3>1. walk.max - Cardinality(walk.total) <= 0
      BY <1>4, <2>1
    <3>2. walk' = [walk EXCEPT !.targets = <<>>, !.omitted = @ + 1]
      BY <1>3, <2>1
    <3> QED
      BY <1>1, <1>2, <3>1, <3>2, GivenUpIsOK
  <2>2. CASE room > 0
    <3>1. walk' = [walk EXCEPT !.targets = Tail(@), !.roots = @ \cup {target},
                                 !.room = room, !.queue = <<[node |-> target, level |-> 0]>>,
                                 !.seen = {target}, !.nodes = <<>>]
      BY <1>3, <1>4, <2>2
    <3>2. target = Head(walk.targets)
      OBVIOUS
    <3> HIDE DEF target
    <3> QED
      BY <1>1, <1>2, <1>4, <2>2, <3>1, <3>2, NextIsOK
  <2> QED
    BY <1>4, <2>1, <2>2
<1> QED
  BY <1>1, <1>2, <1>5, <1>6, WalkGoesOn DEF V, net, balls

(* A turn of the loop.                                                     *)
LEMMA VisitStep ==
    ASSUME GraphAssumption, GraphInv, GraphInv', WalkInv, Visit
    PROVE  WalkInv'
<1> DEFINE V == gen.symbols
           net == Net(walk)
           balls == Balls(walk)
           c == Head(walk.queue).node
           L == Head(walk.queue).level
           p == [walk EXCEPT !.queue = Tail(@)]
           ns == NeighborsInOrder(c, walk)
           cut == EdgesLeftOut(c, walk)
           u == Turn(walk, ns, cut)
<1>1. /\ walk \in Walks(V) /\ walk.depth \in Nat /\ IsFiniteSet(V) /\ NoSymbol \notin V
      /\ net \in [V -> SUBSET V] /\ Spheres(balls, V, net, walk.depth)
      /\ WalkOK(walk, V, net, balls)
  BY WalkKnows
<1>2. walk.queue # <<>> /\ gen' = gen
  BY DEF Visit
<1>3. /\ 1 \in DOMAIN walk.queue /\ Head(walk.queue) = walk.queue[1]
      /\ c = walk.queue[1].node /\ L = walk.queue[1].level /\ c \in V /\ L \in Nat
  <2>1. walk.queue \in Seq(Items(V)) /\ Len(walk.queue) \in Nat
    BY <1>1, WalkFields
  <2>2. 1 \in DOMAIN walk.queue /\ Head(walk.queue) = walk.queue[1]
    BY <1>2, <2>1
  <2>3. walk.queue[1].node \in V /\ walk.queue[1].level \in Nat
    BY <1>1, <2>2, WalkFields
  <2> QED
    BY <2>2, <2>3
<1>4. Neighborly(ns, c, walk)
  <2>1. walk.room \in Nat
    BY <1>1, WalkFields
  <2> QED
    BY <1>3, <2>1, NeighborsAre
<1>5. net[c] = Adjacent(c, walk)
  BY <1>3 DEF Net
<1>6. Offers(ns, cut, net[c])
  <2> HIDE DEF net, ns, c
  <2> QED
    BY <1>4, <1>5, Zenon DEF Neighborly, Offers, cut
<1>7. cut \in BOOLEAN
  BY DEF EdgesLeftOut
<1>14. walk' = IF TooDeep(L, walk.depth) THEN p ELSE u
  <2> DEFINE r == Expanded(p, ns, L)
             made == [r EXCEPT !.total = @ \cup Range(r.nodes), !.left = @ \/ cut]
  <2>1. walk' = IF TooDeep(L, walk.depth) THEN p ELSE made
    BY Zenon DEF Visit
  <2>2. L = walk.queue[1].level
    BY <1>3
  <2>3. made = u
    BY <2>2, Zenon DEF Turn
  <2> HIDE DEF made, u, p, L
  <2> QED
    BY <2>1, <2>3
<1> HIDE DEF V, net, balls, ns, cut
<1>8. TooDeep(L, walk.depth) <=> walk.queue[1].level >= walk.depth
  BY <1>3 DEF TooDeep
<1>9. PICK t \in walk.roots : Followed(walk, t, net, balls)
  BY <1>1, <1>2, SomeIsTracked
<1>10. Walking(walk, t)
  BY <1>9 DEF Followed
<1>11. walk' \in Walks(V) /\ Advanced(walk', walk, t, net)
  <2>1. CASE walk.queue[1].level >= walk.depth
    <3>1. walk' = p
      BY <1>8, <1>14, <2>1
    <3>2. p = [walk EXCEPT !.queue = Tail(@)]
      OBVIOUS
    <3> HIDE DEF p
    <3> QED
      BY <1>1, <1>2, <1>10, <2>1, <3>1, <3>2, DropAdvances
  <2>2. CASE walk.queue[1].level < walk.depth
    <3>1. ~TooDeep(L, walk.depth)
      <4>1. walk.queue[1].level \in Nat
        BY <1>3
      <4> QED
        BY <1>1, <1>8, <2>2, <4>1
    <3>3. Offers(ns, cut, net[walk.queue[1].node])
      BY <1>3, <1>6
    <3>5. u \in Walks(V) /\ Advanced(u, walk, t, net)
      BY <1>1, <1>2, <1>7, <1>10, <2>2, <3>3, TurnAdvances
    <3> HIDE DEF p, u, L
    <3>4. walk' = u
      BY <1>14, <3>1
    <3> QED
      BY <3>4, <3>5
  <2>3. walk.queue[1].level \in Nat
    BY <1>3
  <2> QED
    BY <1>1, <2>1, <2>2, <2>3
<1>12. walk'.dir = walk.dir /\ walk'.relations = walk.relations /\ walk'.depth = walk.depth
  BY <1>11, Zenon DEF Advanced, Moved
<1>13. WalkOK(walk', V, net, balls)
  BY <1>1, <1>2, <1>9, <1>11, TurnIsOK
<1> QED
  BY <1>1, <1>2, <1>12, <1>13, WalkGoesOn DEF V, net, balls

(* What is asked keeps its walk sound, whatever step is taken.             *)
LEMMA WalkStart == ASSUME GraphInit PROVE WalkInv
BY NoWalkIsOK DEF GraphInit, WalkInv

(* No step loses track of the walk.                                       *)
LEMMA WalkStep ==
    ASSUME GraphAssumption, GraphInv, GraphInv', WalkInv, [GraphNext]_graphVars
    PROVE  WalkInv'
<1>1. ASSUME walk' = NoWalk PROVE WalkInv'
  <2>1. WalkOK(NoWalk, gen'.symbols, Net(walk)', Balls(walk)')
    BY NoWalkIsOK
  <2>2. WalkOK(walk', gen'.symbols, Net(walk)', Balls(walk)')
    BY <1>1, <2>1, Zenon
  <2> QED
    BY <2>2 DEF WalkInv
<1>2. walk.stage = "none" => walk = NoWalk
  BY DEF WalkInv, WalkOK
<1>3. ASSUME NEW full \in BOOLEAN, BuildGraph(full) PROVE WalkInv'
  BY <1>1, <1>2, <1>3 DEF BuildGraph
<1>4. ASSUME NEW f \in Sources, Change(f) PROVE WalkInv'
  BY <1>1, <1>2, <1>4 DEF Change
<1>5. CASE AskGraph
  BY <1>5, AskStep
<1>6. CASE NextTarget
  BY <1>6, NextTargetStep
<1>7. CASE Visit
  BY <1>7, VisitStep
<1>8. CASE Answer
  <2>1. /\ walk \in Walks(gen.symbols) /\ walk.depth \in Nat
        /\ WalkOK(walk, gen.symbols, Net(walk), Balls(walk))
    BY WalkKnows
  <2>2. /\ walk.stage = "asked" /\ walk.queue = <<>> /\ walk.targets = <<>> /\ gen' = gen
        /\ walk' = [walk EXCEPT !.stage = "answered"]
    BY <1>8 DEF Answer
  <2>3. WalkOK(walk', gen.symbols, Net(walk), Balls(walk))
    BY <2>1, <2>2, AnswerIsOK
  <2>4. walk'.dir = walk.dir /\ walk'.relations = walk.relations /\ walk'.depth = walk.depth
    BY <2>1, <2>2 DEF Walks
  <2> QED
    BY <2>1, <2>2, <2>3, <2>4, WalkGoesOn
<1>9. CASE Forget
  BY <1>1, <1>9 DEF Forget
<1>10. CASE UNCHANGED graphVars
  <2>1. gen' = gen /\ walk' = walk
    BY <1>10 DEF graphVars
  <2>2. walk.depth \in Nat /\ WalkOK(walk, gen.symbols, Net(walk), Balls(walk))
    BY WalkKnows
  <2>3. WalkOK(walk', gen.symbols, Net(walk), Balls(walk))
    BY <2>1, <2>2
  <2> QED
    BY <2>1, <2>2, <2>3, WalkGoesOn
<1> QED
  BY <1>3, <1>4, <1>5, <1>6, <1>7, <1>8, <1>9, <1>10, Zenon DEF GraphNext

(* The graph and the walk on it, in every state.                           *)
THEOREM GraphAndWalk ==
    ASSUME GraphAssumption PROVE GraphSpec => [](GraphInv /\ WalkInv)
<1>1. GraphInit => GraphInv /\ WalkInv
  BY GraphStart, WalkStart
<1>2. GraphInv /\ WalkInv /\ [GraphNext]_graphVars => (GraphInv /\ WalkInv)'
  BY GraphStep, WalkStep
<1> QED
  BY <1>1, <1>2, PTL DEF GraphSpec

(* The type and the bound of a question follow.                            *)
LEMMA GraphIsTyped ==
    ASSUME GraphAssumption, GraphInv, WalkInv
    PROVE  GraphTypeOK
<1>1. changes \in 0..MaxChanges
  BY DEF GraphInv
<1>2. gen.symbols \subseteq
          {Symbol(f, q) : f \in Sources, q \in UNION {Range(gen.of[g].symbols) : g \in Sources}}
  <2>1. gen.symbols = AllSymbols(gen.of)
    BY DEF GraphInv, GenerationOK
  <2> QED
    BY <2>1 DEF AllSymbols, SymbolsOf
<1>3. walk \in Walks(gen.symbols) /\ WalkOK(walk, gen.symbols, Net(walk), Balls(walk))
  BY WalkKnows
<1>4. walk.total \subseteq gen.symbols
  BY <1>3, WalkFields
<1>5. Cardinality(walk.total) <= walk.max
  <2>1. CASE walk.stage = "none"
    <3>1. walk.total = {} /\ walk.max = 0
      BY <1>3, <2>1 DEF WalkOK, NoWalk
    <3>2. Cardinality(walk.total) = 0
      BY <3>1, FS_EmptySet
    <3> QED
      BY <3>1, <3>2
  <2>2. CASE walk.stage # "none"
    BY <1>3, <2>2 DEF WalkOK
  <2> QED
    BY <2>1, <2>2
<1> QED
  BY <1>1, <1>2, <1>4, <1>5 DEF GraphTypeOK

(* The distance of a symbol within reach.                                  *)
LEMMA DistanceIs ==
    ASSUME GraphAssumption, GraphInv, WalkInv, NEW r \in gen.symbols,
           NEW s \in Balls(walk)[r][walk.depth]
    PROVE  /\ Distance(r, s, walk) \in 0..walk.depth
           /\ Far(Balls(walk)[r], s, Distance(r, s, walk))
           /\ \A k \in 0..walk.depth : Far(Balls(walk)[r], s, k) => k = Distance(r, s, walk)
<1> DEFINE V == gen.symbols
           balls == Balls(walk)
           d == walk.depth
           B == balls[r]
           D == Distance(r, s, walk)
<1>1. d \in Nat /\ Net(walk) \in [V -> SUBSET V] /\ Spheres(balls, V, Net(walk), d)
  BY WalkKnows
<1>2. Graded(B, r, d)
  BY <1>1, BallsGrow
<1>3. B = Within(r, walk)
  BY DEF Balls
<1>4. D = CHOOSE k \in 0..d : Far(B, s, k)
  BY <1>3, Zenon DEF Distance, Far
<1> HIDE DEF B, d, balls, D
<1>5. d \in 0..d /\ s \in B[d]
  BY <1>1 DEF B, d, balls
<1>6. \E k \in 0..d : Far(B, s, k)
  BY <1>2, <1>5, Zenon DEF Graded
<1>7. D \in 0..d /\ Far(B, s, D)
  BY <1>4, <1>6, Zenon
<1>8. \A k \in 0..d : Far(B, s, k) => k = D
  BY <1>2, <1>7, Zenon DEF Graded
<1> QED
  BY <1>7, <1>8, Zenon DEF B, d, balls, D

(* The largest of a set of integers.                                       *)
LEMMA MaxIs ==
    ASSUME NEW S \in SUBSET Int, NEW m \in S, \A y \in S : m >= y
    PROVE  Max(S) = m
<1>1. Max(S) \in S /\ \A y \in S : Max(S) >= y
  <2>1. \E x \in S : \A y \in S : x >= y
    OBVIOUS
  <2> QED
    BY <2>1, Zenon DEF Max
<1>2. m >= Max(S) /\ Max(S) >= m /\ m \in Int /\ Max(S) \in Int
  BY <1>1
<1> QED
  BY <1>2

(* An answer that leaves nothing out.                                      *)
LEMMA AnswersAreExact ==
    ASSUME GraphAssumption, GraphInv, WalkInv
    PROVE  AnswerIsExact
<1> DEFINE V == gen.symbols
           net == Net(walk)
           balls == Balls(walk)
           d == walk.depth
<1>1. /\ walk \in Walks(V) /\ d \in Nat /\ net \in [V -> SUBSET V]
      /\ Spheres(balls, V, net, d) /\ WalkOK(walk, V, net, balls)
  BY WalkKnows
<1>2. SUFFICES ASSUME walk.stage = "answered", walk.omitted = 0, ~walk.left
               PROVE  /\ walk.total = UNION {Within(t, walk)[d] \ {t} : t \in walk.roots}
                      /\ walk.reached = Max({0} \cup UNION {{Distance(t, s, walk) :
                             s \in Within(t, walk)[d] \ {t}} : t \in walk.roots})
  BY DEF AnswerIsExact
<1>3. walk.roots \subseteq V /\ walk.reached \in Nat
  BY <1>1, WalkFields
<1>4. \A t \in walk.roots : Around(t, walk, balls) = Within(t, walk)[d] \ {t}
  BY <1>3 DEF Around, Balls
<1> DEFINE around(t) == Within(t, walk)[d] \ {t}
           S == {0} \cup UNION {{Distance(t, s, walk) : s \in around(t)} : t \in walk.roots}
<1>5. \A t \in walk.roots : \A s \in around(t) :
          /\ Distance(t, s, walk) \in 0..d /\ Far(balls[t], s, Distance(t, s, walk))
          /\ \A k \in 0..d : Far(balls[t], s, k) => k = Distance(t, s, walk)
  <2> TAKE t \in walk.roots
  <2> TAKE s \in around(t)
  <2>1. t \in gen.symbols /\ s \in Balls(walk)[t][walk.depth]
    BY <1>3, <1>4 DEF Around
  <2> QED
    BY <2>1, DistanceIs
<1> HIDE DEF V, net, balls, d
<1>6. /\ walk.queue = <<>> /\ walk.stage # "none"
      /\ IF walk.roots = {} THEN Fresh(walk) ELSE Begun(walk, net, balls)
  BY <1>1, <1>2 DEF WalkOK
<1>7. CASE walk.roots = {}
  <2>1. walk.total = {} /\ walk.reached = 0
    BY <1>6, <1>7 DEF Fresh
  <2>2. S = {0}
    BY <1>7
  <2>3. Max(S) = 0
    <3> HIDE DEF S
    <3> QED
      BY <2>2, MaxIs
  <2> QED
    BY <1>7, <2>1, <2>3
<1>8. CASE walk.roots # {}
  <2>1. PICK t \in walk.roots : Followed(walk, t, net, balls)
    BY <1>6, <1>8 DEF Begun
  <2>2. Walking(walk, t) /\ Exact(walk, t, net, balls) /\ Accounted(walk, t, balls)
    BY <1>2, <2>1 DEF Followed
  <2>3. t \in V
    BY <1>3
  <2>4. /\ Around(t, walk, balls) \subseteq walk.total
        /\ \A s \in Around(t, walk, balls) : \A k \in 0..walk.depth :
              Far(balls[t], s, k) => k <= walk.reached
    <3>1. Spheres(balls, V, net, walk.depth)
      BY <1>1 DEF d
    <3> QED
      BY <1>1, <1>6, <2>2, <2>3, <3>1, AllIsFound
  <2>5. /\ walk.total \subseteq UNION {Around(r, walk, balls) : r \in walk.roots}
        /\ \A r \in walk.roots \ {t} :
              /\ Around(r, walk, balls) \subseteq walk.total
              /\ \A s \in Around(r, walk, balls) : \A k \in 0..walk.depth :
                    Far(balls[r], s, k) => k <= walk.reached
        /\ walk.reached <= walk.depth
        /\ walk.reached # 0 =>
              \E r \in walk.roots : \E s \in Around(r, walk, balls) :
                  Far(balls[r], s, walk.reached)
    BY <2>2, Zenon DEF Accounted
  <2>6. \A r \in walk.roots :
           /\ around(r) \subseteq walk.total
           /\ \A s \in around(r) : \A k \in 0..d : Far(balls[r], s, k) => k <= walk.reached
    <3> TAKE r \in walk.roots
    <3>1. /\ Around(r, walk, balls) \subseteq walk.total
          /\ \A s \in Around(r, walk, balls) : \A k \in 0..walk.depth :
                Far(balls[r], s, k) => k <= walk.reached
      <4>1. CASE r = t
        BY <2>4, <4>1
      <4>2. CASE r # t
        BY <2>5, <4>2
      <4> QED
        BY <4>1, <4>2
    <3>2. Around(r, walk, balls) = around(r)
      BY <1>4
    <3> HIDE DEF around
    <3> QED
      BY <3>1, <3>2 DEF d
  <2>7. \A s \in walk.total : \E r \in walk.roots : s \in around(r)
    BY <1>4, <2>5
  <2>8. walk.total = UNION {around(r) : r \in walk.roots}
    <3> HIDE DEF around
    <3> QED
      BY <2>6, <2>7
  <2>9. walk.reached # 0 => \E r \in walk.roots : \E s \in around(r) :
            walk.reached = Distance(r, s, walk)
    <3> SUFFICES ASSUME walk.reached # 0
                 PROVE  \E r \in walk.roots : \E s \in around(r) :
                            walk.reached = Distance(r, s, walk)
      OBVIOUS
    <3>4. PICK r \in walk.roots : \E s \in Around(r, walk, balls) : Far(balls[r], s, walk.reached)
      BY <2>5
    <3>1. PICK s \in Around(r, walk, balls) : Far(balls[r], s, walk.reached)
      BY <3>4
    <3>2. s \in around(r)
      BY <1>4
    <3>3. walk.reached \in 0..d
      BY <1>1, <1>3, <2>5 DEF d
    <3> HIDE DEF around
    <3> QED
      BY <1>5, <3>1, <3>2, <3>3, Zenon
  <2> HIDE DEF around
  <2>10. walk.reached \in S
    BY <2>9
  <2>11. S \in SUBSET Int
    BY <1>5
  <2>12. \A y \in S : walk.reached >= y
    <3> TAKE y \in S
    <3>1. CASE y = 0
      BY <1>3, <3>1
    <3>2. ASSUME NEW r \in walk.roots, NEW s \in around(r), y = Distance(r, s, walk)
          PROVE  walk.reached >= y
      <4>1. y \in 0..d /\ Far(balls[r], s, y)
        BY <1>5, <3>2
      <4>2. y <= walk.reached
        BY <2>6, <4>1
      <4> QED
        BY <1>3, <4>1, <4>2
    <3> QED
      BY <3>1, <3>2
  <2> HIDE DEF S
  <2>13. walk.reached = Max(S)
    BY <2>10, <2>11, <2>12, MaxIs
  <2> QED
    BY <2>8, <2>13 DEF S, around
<1> QED
  BY <1>7, <1>8

(* A trace that leaves something out.                                      *)
LEMMA NearestAreFirst ==
    ASSUME GraphAssumption, GraphInv, WalkInv
    PROVE  NearestFirst
<1> DEFINE V == gen.symbols
           net == Net(walk)
           balls == Balls(walk)
           d == walk.depth
<1>1. /\ walk \in Walks(V) /\ d \in Nat /\ net \in [V -> SUBSET V]
      /\ Spheres(balls, V, net, d) /\ WalkOK(walk, V, net, balls)
  BY WalkKnows
<1>2. SUFFICES ASSUME walk.stage = "answered", walk.ask = "trace", walk.omitted > 0,
                      ~walk.left, NEW t \in walk.roots
               PROVE  /\ Cardinality(walk.total) = walk.max
                      /\ \A s \in walk.total, other \in Within(t, walk)[d] \ (walk.total \cup {t}) :
                            Distance(t, s, walk) <= Distance(t, other, walk)
  BY DEF NearestFirst
<1>3. /\ walk.stage # "none" /\ IsFiniteSet(walk.total)
      /\ IF walk.roots = {} THEN Fresh(walk) ELSE Begun(walk, net, balls)
  BY <1>1, <1>2 DEF WalkOK
<1>4. PICK r \in walk.roots : Followed(walk, r, net, balls)
  BY <1>2, <1>3 DEF Begun
<1>5. Walking(walk, r) /\ Alone(walk, r) /\ Filled(walk, r, balls)
  BY <1>2, <1>4 DEF Followed
<1>6. r = t /\ walk.total = Range(walk.nodes) /\ walk.room = walk.max
  BY <1>5 DEF Alone
<1>7. t \in V /\ balls[t] = Within(t, walk)
  <2>1. t \in V
    BY <1>1, WalkFields
  <2> QED
    BY <2>1 DEF Balls
<1>8. walk.seen = {t} \cup walk.total
  BY <1>5, <1>6 DEF Walking
<1>9. PICK m \in 0..d :
          /\ \A s \in walk.seen : \A k \in 0..d : Far(balls[t], s, k) => k <= m
          /\ \A s \in balls[t][d] \ walk.seen : \A k \in 0..d : Far(balls[t], s, k) => m <= k
  BY <1>5, <1>6 DEF Filled
<1>10. walk.seen \subseteq balls[t][d] /\ Len(walk.nodes) = walk.room
  BY <1>5, <1>6 DEF Filled
<1>11. \A s \in balls[t][d] :
          Distance(t, s, walk) \in 0..d /\ Far(balls[t], s, Distance(t, s, walk))
  BY <1>7, DistanceIs
<1>12. Cardinality(walk.total) = walk.max
  <2>1. Cardinality(Range(walk.nodes)) = Len(walk.nodes)
    BY <1>1, <1>3, <1>5, TurnIsBounded
  <2> QED
    BY <1>6, <1>10, <2>1
<1> HIDE DEF V, net, balls
<1>13. ASSUME NEW s \in walk.total, NEW other \in Within(t, walk)[d] \ (walk.total \cup {t})
       PROVE  Distance(t, s, walk) <= Distance(t, other, walk)
  <2>1. s \in walk.seen /\ s \in balls[t][d]
    BY <1>8, <1>10
  <2>2. other \in balls[t][d] \ walk.seen
    BY <1>7, <1>8
  <2>3. Distance(t, s, walk) <= m /\ Distance(t, s, walk) \in 0..d
    BY <1>9, <1>11, <2>1
  <2>4. m <= Distance(t, other, walk) /\ Distance(t, other, walk) \in 0..d
    BY <1>9, <1>11, <2>2
  <2> QED
    BY <1>1, <2>3, <2>4
<1> QED
  BY <1>12, <1>13

(* In every state the graph of the active generation ends in its symbols,  *)
(* leaves nothing unresolved that is clear, and a question stays within    *)
(* its bound, however files were edited and generations built.             *)
THEOREM GraphStaysSound ==
    ASSUME GraphAssumption PROVE GraphSpec => []GraphIsSound
<1>1. GraphInv /\ WalkInv => GraphIsSound
  BY GraphIsTyped DEF GraphIsSound, GraphInv
<1> QED
  BY <1>1, GraphAndWalk, PTL

(* An answer without omissions holds exactly what is within its depth and  *)
(* the largest distance; a trace with omissions holds what is nearest.     *)
THEOREM WalkStaysExact ==
    ASSUME GraphAssumption PROVE GraphSpec => []WalkIsExact
<1>1. GraphInv /\ WalkInv => WalkIsExact
  BY AnswersAreExact, NearestAreFirst DEF WalkIsExact
<1> QED
  BY <1>1, GraphAndWalk, PTL
=============================================================================
