--------------------------- MODULE ImportSession ---------------------------
(***************************************************************************)
(* Import sessions: the upload queue of the web page, the upload request   *)
(* it sends several of at once, the session rows and counters they share,  *)
(* and the import of a local folder.                                       *)
(*                                                                         *)
(* One request is one transaction that reads before it writes.  On SQLite  *)
(* its reads take no lock until its first INSERT, which locks the database *)
(* until the commit; on PostgreSQL it sees what is committed whenever it   *)
(* reads, and an UPDATE writes the values computed from what it read, to   *)
(* the changed columns only.                                               *)
(***************************************************************************)
EXTENDS Integers, Sequences, FiniteSets, Lists

CONSTANTS
    Files,          \* contents, told apart by their checksum
    Batches,        \* the batches dropped on the page: sequences of contents
    Folder,         \* the candidates found in a local folder, in order
    Backends,       \* "sqlite", "postgres"
    Plans,          \* bound on what happens: the batches dropped, whether
                    \* the folder is imported, how ingestion may end
    Width,          \* uploads the page sends at once (8)
    MaxFailures     \* bound on the failing requests

(* Session 0 is the one of the folder; session b that of batch b.          *)
FolderSession == 0
BatchIds == DOMAIN Batches
SessionIds == {FolderSession} \cup BatchIds
NoSession == -1

Uploads == UNION {{b} \X DOMAIN Batches[b] : b \in BatchIds}
Importer == <<FolderSession, 0>>    \* the folder import, as a transaction
NoOne == <<NoSession, 0>>           \* nobody, as the holder of the lock

FileOf(u) == Batches[u[1]][u[2]]

Candidates == {<<FolderSession, i>> : i \in DOMAIN Folder}
Origins == Uploads \cup Candidates

ASSUME ImportAssumption ==
    /\ Batches \in Seq(Seq(Files) \ {<<>>})
    /\ Folder \in Seq([kind : {"excluded", "file", "vanished"}, file : Files])
    /\ Backends \subseteq {"sqlite", "postgres"}
    /\ Plans \subseteq [batches : SUBSET BatchIds, folder : BOOLEAN,
                      results : SUBSET {"ready", "failed"}]
    /\ Width \in Nat \ {0} /\ MaxFailures \in Nat

VARIABLES
    backend,    \* the database of this deployment
    plan,       \* the plan of this behaviour
    docs,       \* committed documents
    sessions,   \* committed session rows
    items,      \* committed session items, counted by session and outcome
    lock,       \* the transaction that holds SQLite's write lock
    request,    \* per upload: where its request is, and what it has read
    folder,     \* the folder import and its uncommitted rows
    shown,      \* per upload: its state in the page's queue
    queue,      \* the page's queue of one collection
    loop,       \* processCollectionQueue: the loop that empties the queue
    failures    \* requests that failed so far

database == <<docs, sessions, items, lock>>
page == <<shown, queue, loop>>
vars == <<backend, plan, database, request, folder, page, failures>>

Counters == {"attempted", "created", "deduplicated", "skipped", "failed", "queued_jobs"}
ItemStatuses == {"created", "deduplicated", "skipped", "failed"}
SessionStatuses == {"absent", "running", "completed", "completed_with_errors"}

Zero == [c \in Counters |-> 0]
NoItems == [st \in ItemStatuses |-> 0]
NoRow == [status |-> "absent", discovered |-> 0, count |-> Zero]
NewSession(n) == [status |-> "running", discovered |-> n, count |-> Zero]

Doc == [origin : Origins, file : Files, status : {"pending", "ready", "failed"}]

(* Mutant: only published documents count as known.                        *)
KnownPublished(f, rows) == {d \in rows : d.file = f /\ d.status = "ready"}

Known(f, rows) == {d \in rows : d.file = f}

(* get_by_collection_and_checksum: a document that has not failed, if any. *)
Preferred(f, rows) ==
    LET alive == {d \in Known(f, rows) : d.status # "failed"} IN
    IF alive # {} THEN alive ELSE Known(f, rows)

(* register of a known document: unless READY it is ingested again.        *)
Reregister(d, rows) ==
    IF d.status = "ready" THEN rows
    ELSE (rows \ {d}) \cup {[d EXCEPT !.status = "pending"]}

NewDoc(origin, f) == [origin |-> origin, file |-> f, status |-> "pending"]

(* The counters an item of a status changes, by one each.                  *)
Increments(status) ==
    {"attempted", status} \cup (IF status = "created" THEN {"queued_jobs"} ELSE {})

(* What increment_counters writes over count, from what it read.           *)
Incremented(count, read, status) ==
    [c \in Counters |-> IF c \in Increments(status) THEN read[c] + 1 ELSE count[c]]

(* finalize_session: the status follows the failed counter.                *)
Finalized(row) ==
    [row EXCEPT !.status = IF row.count["failed"] > 0 THEN "completed_with_errors"
                           ELSE "completed"]

(* _maybe_auto_finalize: when as many were attempted as were announced.    *)
AutoFinalized(row) ==
    IF row.status = "running" /\ row.discovered > 0
       /\ row.count["attempted"] >= row.discovered
    THEN Finalized(row) ELSE row

-----------------------------------------------------------------------------
(* The lock of SQLite.  PostgreSQL lets writers of other rows proceed.     *)
(* Mutant: SQLite's writers do not wait for one another either.            *)
CanAlwaysWrite(t) == TRUE

CanWrite(t) == backend = "sqlite" => lock \in {NoOne, t}
Locked(t) == IF backend = "sqlite" THEN t ELSE NoOne
Released(t) == IF lock = t THEN NoOne ELSE lock

Fail == failures < MaxFailures /\ failures' = failures + 1

At(u, pc) == request[u].pc = pc

(***************************************************************************)
(* The page.  enqueueUploadBatch starts a session for the batch, which may *)
(* fail, adds the batch to the queue and calls processCollectionQueue,     *)
(* which returns at once when the loop already runs: the new session is    *)
(* then known to nobody.                                                   *)
(***************************************************************************)
ItemsOf(b) == [i \in DOMAIN Batches[b] |-> <<b, i>>]

EnqueueUploadBatch(b) ==
    /\ b \in plan.batches /\ \A u \in Uploads : u[1] = b => shown[u] = "new"
    /\ \/ /\ CanWrite(NoOne)
          /\ sessions' = [sessions EXCEPT ![b] = NewSession(Len(Batches[b]))]
          /\ UNCHANGED failures
       \/ Fail /\ UNCHANGED sessions
    /\ shown' = [u \in Uploads |-> IF u[1] = b THEN "queued" ELSE shown[u]]
    /\ queue' = queue \o ItemsOf(b)
    /\ loop' = IF loop.stage # "idle" THEN loop
               ELSE [stage |-> "uploading", initial |-> ItemsOf(b),
                     session |-> IF sessions'[b].status = "absent" THEN NoSession ELSE b]
    /\ UNCHANGED <<backend, plan, docs, items, lock, request, folder>>

Lesser(m, n) == IF m <= n THEN m ELSE n
Prefix(s) == SubSeq(s, 1, Lesser(Width, Len(s)))
Queued(u) == shown[u] = "queued"

(* Mutant: only the batch the loop was called with.                        *)
WaveOfInitial == Prefix(loop.initial)

(* The uploads of the next turn: the batch the loop was called with, then  *)
(* whatever else is queued.                                                *)
Wave == IF loop.initial # <<>> THEN Prefix(loop.initial)
        ELSE Prefix(Filter(queue, Queued))

InWave(u) == \E i \in DOMAIN Wave : Wave[i] = u

TurnOver == loop.stage = "uploading" /\ \A u \in Uploads : shown[u] # "uploading"

NextTurn ==
    /\ TurnOver /\ Wave # <<>>
    /\ shown' = [u \in Uploads |-> IF InWave(u) THEN "uploading" ELSE shown[u]]
    /\ request' = [u \in Uploads |->
                     IF InWave(u) THEN [request[u] EXCEPT !.pc = "arrived", !.session = loop.session]
                     ELSE request[u]]
    /\ loop' = [loop EXCEPT !.initial = SubSeq(@, Lesser(Width, Len(@)) + 1, Len(@))]
    /\ UNCHANGED <<backend, plan, database, folder, queue, failures>>

(* Nothing is left: the loop stops looking, and awaits finalizeImportSession. *)
EndLoop ==
    /\ TurnOver /\ Wave = <<>>
    /\ loop' = IF loop.session = NoSession
               THEN [loop EXCEPT !.stage = "idle"] ELSE [loop EXCEPT !.stage = "finalizing"]
    /\ UNCHANGED <<backend, plan, database, request, folder, shown, queue, failures>>

(* A failure of this request is caught and ignored.                        *)
FinalizeImportSession ==
    /\ loop.stage = "finalizing"
    /\ \/ /\ CanWrite(NoOne)
          /\ sessions' = [sessions EXCEPT ![loop.session] = Finalized(@)]
          /\ UNCHANGED failures
       \/ Fail /\ UNCHANGED sessions
    /\ loop' = [loop EXCEPT !.stage = "idle", !.session = NoSession]
    /\ UNCHANGED <<backend, plan, docs, items, lock, request, folder, shown, queue>>

(* The answer reaches the page, or never does though the server goes on.   *)
Receive(u) ==
    /\ shown[u] = "uploading"
    /\ \/ At(u, "answered") /\ shown' = [shown EXCEPT ![u] = "done"] /\ UNCHANGED failures
       \/ At(u, "failed") /\ shown' = [shown EXCEPT ![u] = "error"] /\ UNCHANGED failures
       \/ Fail /\ shown' = [shown EXCEPT ![u] = "error"]
    /\ queue' = IF shown'[u] = "done" THEN Filter(queue, LAMBDA v : v # u) ELSE queue
    /\ UNCHANGED <<backend, plan, database, request, folder, loop>>

-----------------------------------------------------------------------------
(***************************************************************************)
(* The upload request.                                                     *)
(***************************************************************************)
UploadUnchanged == UNCHANGED <<backend, plan, folder, page>>

(* upload_document looks the content up; a known one is not registered.    *)
Lookup(u) ==
    /\ At(u, "arrived")
    /\ request' = [request EXCEPT ![u].pc = IF Known(FileOf(u), docs) # {} THEN "known" ELSE "unknown"]
    /\ UNCHANGED <<database, failures>> /\ UploadUnchanged

(* register looks it up again, after the file was stored.                  *)
Register(u) ==
    /\ At(u, "unknown")
    /\ request' = [request EXCEPT ![u].pc =
                     IF Known(FileOf(u), docs) # {} THEN "again" ELSE "new"]
    /\ UNCHANGED <<database, failures>> /\ UploadUnchanged

(* The rows are inserted and the counters of the session read: from here   *)
(* SQLite is locked.                                                       *)
ReadCounters(u) ==
    /\ request[u].pc \in {"known", "again", "new"} /\ CanWrite(u)
    /\ lock' = Locked(u)
    /\ request' = [request EXCEPT
         ![u].outcome = IF request[u].pc = "new" THEN "created" ELSE "deduplicated",
         ![u].again = request[u].pc = "again",
         ![u].read = IF request[u].session = NoSession THEN Zero
                     ELSE sessions[request[u].session].count,
         ![u].pc = "counted"]
    /\ UNCHANGED <<docs, sessions, items, failures>> /\ UploadUnchanged

(* The counters are written, the session finalizes itself if that was all, *)
(* and the request commits.  The UPDATE holds the row until the commit.    *)
Commit(u) ==
    LET r == request[u] IN
    /\ At(u, "counted")
    /\ IF r.outcome = "created" THEN docs' = docs \cup {NewDoc(u, FileOf(u))}
       ELSE IF r.again THEN \E d \in Preferred(FileOf(u), docs) : docs' = Reregister(d, docs)
       ELSE UNCHANGED docs
    /\ IF r.session = NoSession THEN UNCHANGED <<sessions, items>>
       ELSE /\ items' = [items EXCEPT ![r.session][r.outcome] = @ + 1]
            /\ sessions' = [sessions EXCEPT ![r.session] =
                 AutoFinalized([@ EXCEPT !.count = Incremented(sessions[r.session].count, r.read,
                                                               r.outcome)])]
    /\ lock' = Released(u)
    /\ request' = [request EXCEPT ![u].pc = "answered"]
    /\ UNCHANGED failures /\ UploadUnchanged

(* An exception rolls everything back; the item is recorded nowhere.       *)
Rollback(u) ==
    /\ request[u].pc \in {"arrived", "unknown", "known", "again", "new", "counted"} /\ Fail
    /\ lock' = Released(u)
    /\ request' = [request EXCEPT ![u].pc = "failed"]
    /\ UNCHANGED <<docs, sessions, items>> /\ UploadUnchanged

-----------------------------------------------------------------------------
(***************************************************************************)
(* import_local_folder: one transaction over all candidates.  It sees its  *)
(* own rows and what others committed.                                     *)
(***************************************************************************)
FolderUnchanged == UNCHANGED <<backend, plan, request, page, failures>>

StartFolder ==
    /\ folder.pc = "idle" /\ plan.folder /\ CanWrite(Importer)
    /\ lock' = Locked(Importer)
    /\ folder' = [folder EXCEPT !.pc = "running"]
    /\ UNCHANGED <<docs, sessions, items>> /\ FolderUnchanged

(* Mutant: the files seen in this import are not remembered.               *)
SeenNever(f) == FALSE

Seen(f) == \E d \in folder.created : d.file = f

Recorded(status) ==
    [folder EXCEPT !.next = @ + 1, !.items[status] = @ + 1,
                   !.count = Incremented(@, @, status)]

(* A READY document, or one this import registered, is a duplicate; any    *)
(* other is registered, which also ingests a known one again.              *)
ImportCandidate ==
    LET i == folder.next
        c == Folder[i]
        known == Preferred(c.file, docs) IN
    /\ folder.pc = "running" /\ i \in DOMAIN Folder
    /\ \/ c.kind = "excluded" /\ folder' = Recorded("skipped")
       \/ c.kind = "vanished" /\ folder' = Recorded("failed")
       \/ /\ c.kind = "file"
          /\ \/ /\ Seen(c.file) \/ \E d \in known : d.status = "ready"
                /\ folder' = Recorded("deduplicated")
             \/ /\ ~Seen(c.file)
                /\ \/ known = {} \/ \E d \in known : d.status # "ready"
                /\ folder' = [Recorded("created") EXCEPT
                                !.created = @ \cup {NewDoc(<<FolderSession, i>>, c.file)},
                                !.fresh = IF known = {} THEN @ \cup {c.file} ELSE @]
    /\ UNCHANGED database /\ FolderUnchanged

CommitFolder ==
    /\ folder.pc = "running" /\ folder.next > Len(Folder)
    /\ docs' = {IF d.status # "ready" /\ Seen(d.file) THEN [d EXCEPT !.status = "pending"] ELSE d
                  : d \in docs} \cup {d \in folder.created : d.file \in folder.fresh}
    /\ items' = [items EXCEPT ![FolderSession] = folder.items]
    /\ sessions' = [sessions EXCEPT ![FolderSession] =
                      Finalized([NewSession(Len(Folder)) EXCEPT !.count = folder.count])]
    /\ lock' = Released(Importer)
    /\ folder' = [folder EXCEPT !.pc = "done"]
    /\ FolderUnchanged

RollbackFolder ==
    /\ folder.pc = "running" /\ Fail
    /\ lock' = Released(Importer)
    /\ folder' = [folder EXCEPT !.pc = "failed"]
    /\ UNCHANGED <<backend, plan, docs, sessions, items, request, page>>

(* The pipeline publishes a document, or fails on it.                      *)
Ingest ==
    \E d \in docs, result \in plan.results :
        /\ d.status = "pending" /\ CanWrite(NoOne)
        /\ docs' = (docs \ {d}) \cup {[d EXCEPT !.status = result]}
        /\ UNCHANGED <<backend, plan, sessions, items, lock, request, folder, page, failures>>

-----------------------------------------------------------------------------
Init ==
    /\ backend \in Backends /\ plan \in Plans
    /\ items = [s \in SessionIds |-> NoItems]
    /\ docs = {} /\ lock = NoOne /\ queue = <<>> /\ failures = 0
    /\ sessions = [s \in SessionIds |-> NoRow]
    /\ request = [u \in Uploads |-> [pc |-> "idle", session |-> NoSession, outcome |-> "created",
                                     again |-> FALSE, read |-> Zero]]
    /\ folder = [pc |-> "idle", next |-> 1, created |-> {}, fresh |-> {}, items |-> NoItems,
                 count |-> Zero]
    /\ shown = [u \in Uploads |-> "new"]
    /\ loop = [stage |-> "idle", session |-> NoSession, initial |-> <<>>]

Serve(u) == Lookup(u) \/ Register(u) \/ ReadCounters(u) \/ Commit(u)
ImportFolder == StartFolder \/ ImportCandidate \/ CommitFolder

Next ==
    \/ \E b \in BatchIds : EnqueueUploadBatch(b)
    \/ NextTurn \/ EndLoop \/ FinalizeImportSession
    \/ \E u \in Uploads : Receive(u) \/ Serve(u) \/ Rollback(u)
    \/ ImportFolder \/ RollbackFolder \/ Ingest

(* Requests that were sent are served and their answers shown, and the     *)
(* page's loop runs on; nobody has to drop a batch or import a folder.     *)
(* A waiting writer gets SQLite's lock sooner or later (timeout=30).       *)
Fairness ==
    /\ WF_vars(NextTurn) /\ WF_vars(EndLoop) /\ SF_vars(FinalizeImportSession)
    /\ \A u \in Uploads : /\ WF_vars(Lookup(u)) /\ WF_vars(Register(u)) /\ WF_vars(Commit(u))
                          /\ SF_vars(ReadCounters(u)) /\ WF_vars(Receive(u))
    /\ WF_vars(ImportCandidate) /\ WF_vars(CommitFolder)

Spec == Init /\ [][Next]_vars /\ Fairness

-----------------------------------------------------------------------------
(* Every variable has the values the code gives it.                        *)
TypeOK ==
    /\ backend \in Backends /\ plan \in Plans
    /\ docs \subseteq Doc
    /\ items \in [SessionIds -> [ItemStatuses -> Nat]]
    /\ sessions \in [SessionIds -> [status : SessionStatuses, discovered : Nat,
                                     count : [Counters -> Nat]]]
    /\ lock \in Uploads \cup {Importer, NoOne}
    /\ request \in [Uploads -> [pc : {"idle", "arrived", "unknown", "known", "again", "new",
                                      "counted", "answered", "failed"},
                                session : BatchIds \cup {NoSession},
                                outcome : {"created", "deduplicated"}, again : BOOLEAN,
                                read : [Counters -> Nat]]]
    /\ folder \in [pc : {"idle", "running", "done", "failed"}, next : Nat,
                   created : SUBSET Doc, fresh : SUBSET Files, items : [ItemStatuses -> Nat],
                   count : [Counters -> Nat]]
    /\ shown \in [Uploads -> {"new", "queued", "uploading", "done", "error"}]
    /\ queue \in Seq(Uploads)
    /\ loop \in [stage : {"idle", "uploading", "finalizing"},
                 session : BatchIds \cup {NoSession}, initial : Seq(Uploads)]
    /\ failures \in 0..MaxFailures

Listed(rows) == rows["created"] + rows["deduplicated"] + rows["skipped"] + rows["failed"]

(* A counter of a session is never ahead of the items the session lists:   *)
(* concurrent uploads may lose an increment, never invent one.             *)
CountersNeverAhead ==
    \A s \in SessionIds :
        /\ sessions[s].count["attempted"] <= Listed(items[s])
        /\ \A st \in ItemStatuses : sessions[s].count[st] <= items[s][st]

(* On SQLite the lock that the item's INSERT takes keeps the counters      *)
(* exact, however many uploads of the session are on their way.            *)
CountersExactOnSQLite ==
    backend = "sqlite" =>
        \A s \in SessionIds :
            /\ sessions[s].count["attempted"] = Listed(items[s])
            /\ \A st \in ItemStatuses : sessions[s].count[st] = items[s][st]

(* The counters of record_upload_item under concurrent uploads.            *)
CountersAreSound == CountersNeverAhead /\ CountersExactOnSQLite

(* The report of an imported folder adds up: every candidate found is      *)
(* attempted once, under one of the four outcomes, and the session says    *)
(* completed_with_errors exactly if some candidate failed.                 *)
FolderTotalsAddUp ==
    LET row == sessions[FolderSession] n == row.count IN
    row.status # "absent" =>
        /\ row.discovered = n["attempted"] /\ n["attempted"] = Listed(n)
        /\ items[FolderSession] = [st \in ItemStatuses |-> n[st]]
        /\ row.status = "completed_with_errors"
             <=> \E i \in DOMAIN Folder : Folder[i].kind = "vanished"

(* One folder import registers a content once, however many copies of it   *)
(* the folder has.                                                         *)
FolderRegistersOnce ==
    \A d, e \in {x \in docs : x.origin \in Candidates} : d.file = e.file => d = e

(* Every row has the values the code gives it, and import_local_folder,    *)
(* one transaction beside all uploads, reports and registers each          *)
(* candidate once.                                                         *)
FolderIsSound == TypeOK /\ FolderTotalsAddUp /\ FolderRegistersOnce

(* A session that completes without the page asking for it has recorded    *)
(* at least as many items as were announced for it.                        *)
SelfCompletedIsFull ==
    [][\A s \in BatchIds :
         sessions[s].status = "running" /\ sessions'[s].status # "running"
           /\ loop'.stage = loop.stage
         => Listed(items'[s]) >= sessions[s].discovered]_vars

(* An upload that is still queued in the page when a document of its       *)
(* content exists never adds a second one: duplicates only come from       *)
(* requests on their way together.                                         *)
LaterCopiesAreRecognized ==
    \A u \in Uploads :
        [](shown[u] = "queued" /\ (\E d \in docs : d.file = FileOf(u))
           => [](\A d \in docs : d.origin # u))

(* The loop that empties the queue comes to an end, and with it the        *)
(* session it was started with is closed, unless a request failed.         *)
LoopClosesItsSession ==
    \A b \in BatchIds :
        loop.session = b ~> \/ loop.session # b /\ sessions[b].status = "completed"
                            \/ failures > 0

(* A file that is queued while the loop uploads is uploaded in the end.    *)
QueuedIsUploaded ==
    \A u \in Uploads :
        shown[u] = "queued" /\ loop.stage = "uploading" ~> shown[u] \notin {"new", "queued"}

(* The page's loop and the uploads it sends come to an end together: every *)
(* queued file is sent, and the session is closed by the upload that fills *)
(* it or by the loop, never too early by the one and, barring failures,    *)
(* never left to the other (_maybe_auto_finalize, processCollectionQueue). *)
UploadsComplete == SelfCompletedIsFull /\ LoopClosesItsSession /\ QueuedIsUploaded

=============================================================================
