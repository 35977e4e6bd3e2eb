------------------------------ MODULE PageProofs ------------------------------
(***************************************************************************)
(* The two pages, for any batches, folder, chats, questions, width of the  *)
(* page's turns and number of failing requests: the counters of an import  *)
(* session are never ahead of the items it lists and on SQLite exact, a    *)
(* folder's report adds up, a file that was stored is recognized when it   *)
(* is sent again, and the thread of a chat shows the pairs that were       *)
(* stored.                                                                 *)
(***************************************************************************)
EXTENDS ImportSession, ChatPage, ListTheorems

(* Counters against the rows they count.                                   *)
NotAhead(count, rows) ==
    /\ count["attempted"] <= Listed(rows)
    /\ \A st \in ItemStatuses : count[st] <= rows[st]

Exact(count, rows) ==
    /\ count["attempted"] = Listed(rows)
    /\ \A st \in ItemStatuses : count[st] = rows[st]

CountType == [Counters -> Nat]
RowsType == [ItemStatuses -> Nat]
RowType == [status : SessionStatuses, discovered : Nat, count : CountType]
Answerable == BatchIds \cup {NoSession}
RequestType == [pc : {"idle", "arrived", "unknown", "known", "again", "new",
                      "counted", "answered", "failed"},
                session : Answerable, outcome : {"created", "deduplicated"},
                again : BOOLEAN, read : CountType]

Counts(r) == r.pc = "counted" /\ r.session # NoSession

(* The fields of the two records; what the others hold does not matter.    *)
Shapes ==
    /\ loop = [stage |-> loop.stage, session |-> loop.session, initial |-> loop.initial]
    /\ folder = [pc |-> folder.pc, next |-> folder.next, created |-> folder.created,
                 fresh |-> folder.fresh, items |-> folder.items, count |-> folder.count]
    /\ DOMAIN shown = Uploads

(* The values of what the counters depend on.                              *)
Values ==
    /\ backend \in Backends
    /\ items \in [SessionIds -> RowsType]
    /\ sessions \in [SessionIds -> RowType]
    /\ request \in [Uploads -> RequestType]
    /\ folder.items \in RowsType /\ folder.count \in CountType
    /\ loop.session \in Answerable

(* A batch that was not dropped yet is known to nobody.                    *)
Untouched ==
    \A b \in BatchIds :
        shown[<<b, 1>>] = "new" =>
            /\ items[b] = NoItems /\ loop.session # b
            /\ \A u \in Uploads : request[u].session # b

(* What a request has read is not ahead of the items; on SQLite it is what *)
(* the session still has, because the request holds the lock.              *)
ReadsBehind ==
    \A u \in Uploads :
        Counts(request[u]) => NotAhead(request[u].read, items[request[u].session])

ReadsCurrent ==
    backend = "sqlite" =>
        \A u \in Uploads :
            request[u].pc = "counted" =>
                /\ lock = u
                /\ Counts(request[u]) => request[u].read = sessions[request[u].session].count

SessionsBehind == \A s \in SessionIds : NotAhead(sessions[s].count, items[s])
SessionsExact ==
    backend = "sqlite" => \A s \in SessionIds : Exact(sessions[s].count, items[s])
FolderExact == Exact(folder.count, folder.items)

(* The inductive invariant: the two properties and why they stay true.     *)
CountersInv ==
    /\ Values /\ Untouched /\ ReadsBehind /\ ReadsCurrent
    /\ SessionsBehind /\ SessionsExact /\ FolderExact

-----------------------------------------------------------------------------
(* A first upload exists in every batch, and the folder's session is none  *)
(* of the batches'.                                                        *)
LEMMA BatchFacts ==
    /\ \A b \in BatchIds : b \in SessionIds /\ <<b, 1>> \in Uploads /\ b # FolderSession
    /\ FolderSession \in SessionIds
    /\ NoSession \notin SessionIds
    /\ \A u \in Uploads : u # NoOne /\ u # Importer /\ u[1] \in BatchIds
<1>1. Batches \in Seq(Seq(Files) \ {<<>>})
  BY ImportAssumption
<1>2. BatchIds = 1..Len(Batches) /\ Len(Batches) \in Nat
  BY <1>1 DEF BatchIds
<1>3. ASSUME NEW b \in BatchIds
      PROVE  b \in SessionIds /\ <<b, 1>> \in Uploads /\ b # FolderSession
  <2>1. Batches[b] \in Seq(Files) /\ Batches[b] # <<>>
    BY <1>1, <1>2
  <2>2. Len(Batches[b]) \in Nat \ {0} /\ DOMAIN Batches[b] = 1..Len(Batches[b])
    BY <2>1
  <2>3. <<b, 1>> \in {b} \X DOMAIN Batches[b]
    BY <2>2
  <2>4. QED
    BY <2>3, <1>2 DEF Uploads, SessionIds, FolderSession
<1>4. ASSUME NEW u \in Uploads
      PROVE  u # NoOne /\ u # Importer /\ u[1] \in BatchIds
  <2>1. PICK b \in BatchIds : u \in {b} \X DOMAIN Batches[b]
    BY DEF Uploads
  <2>2. u[1] = b
    BY <2>1
  <2>3. NoOne[1] = NoSession /\ Importer[1] = FolderSession
    BY DEF NoOne, Importer
  <2>4. b # NoSession /\ b # FolderSession
    BY <1>2 DEF NoSession, FolderSession
  <2>5. QED
    BY <2>1, <2>2, <2>3, <2>4
<1>5. NoSession \notin SessionIds /\ FolderSession \in SessionIds
  BY <1>2 DEF SessionIds, NoSession, FolderSession
<1>6. QED
  BY <1>3, <1>4, <1>5

(* One more row, and counters raised from values that were not ahead.      *)
LEMMA IncrementStaysBehind ==
    ASSUME NEW count \in CountType, NEW read \in CountType, NEW rows \in RowsType,
           NEW st \in ItemStatuses, NotAhead(count, rows), NotAhead(read, rows)
    PROVE  /\ NotAhead(Incremented(count, read, st), [rows EXCEPT ![st] = @ + 1])
           /\ Incremented(count, read, st) \in CountType
           /\ [rows EXCEPT ![st] = @ + 1] \in RowsType
<1> DEFINE more == [rows EXCEPT ![st] = @ + 1]
           new == Incremented(count, read, st)
<1>1. more \in RowsType /\ more[st] = rows[st] + 1
      /\ \A t \in ItemStatuses : t # st => more[t] = rows[t]
  BY DEF RowsType
<1>2. Listed(more) = Listed(rows) + 1
  BY <1>1 DEF RowsType, ItemStatuses, Listed
<1>3. "attempted" \in Counters /\ "attempted" \notin ItemStatuses /\ ItemStatuses \subseteq Counters
  BY DEF Counters, ItemStatuses
<1>4. new \in CountType
  BY DEF CountType, Incremented
<1>5. new["attempted"] = read["attempted"] + 1 /\ new[st] = read[st] + 1
  BY <1>3 DEF Incremented, Increments
<1>6. \A t \in ItemStatuses : t # st => new[t] = count[t]
  BY <1>3 DEF Incremented, Increments, ItemStatuses
<1>7. new["attempted"] <= Listed(more)
  BY <1>2, <1>3, <1>5 DEF NotAhead, CountType, Listed, RowsType, ItemStatuses
<1>8. \A t \in ItemStatuses : new[t] <= more[t]
  BY <1>1, <1>3, <1>5, <1>6 DEF NotAhead, CountType, RowsType
<1>9. QED
  BY <1>1, <1>4, <1>7, <1>8 DEF NotAhead

(* One more row, and counters raised from exact values.                    *)
LEMMA IncrementStaysExact ==
    ASSUME NEW count \in CountType, NEW rows \in RowsType,
           NEW st \in ItemStatuses, Exact(count, rows)
    PROVE  /\ Exact(Incremented(count, count, st), [rows EXCEPT ![st] = @ + 1])
           /\ Incremented(count, count, st) \in CountType
           /\ [rows EXCEPT ![st] = @ + 1] \in RowsType
<1> DEFINE more == [rows EXCEPT ![st] = @ + 1]
           new == Incremented(count, count, st)
<1>1. more \in RowsType /\ more[st] = rows[st] + 1
      /\ \A t \in ItemStatuses : t # st => more[t] = rows[t]
  BY DEF RowsType
<1>2. Listed(more) = Listed(rows) + 1
  BY <1>1 DEF RowsType, ItemStatuses, Listed
<1>3. "attempted" \in Counters /\ "attempted" \notin ItemStatuses /\ ItemStatuses \subseteq Counters
  BY DEF Counters, ItemStatuses
<1>4. new \in CountType
  BY DEF CountType, Incremented
<1>5. new["attempted"] = count["attempted"] + 1 /\ new[st] = count[st] + 1
  BY <1>3 DEF Incremented, Increments
<1>6. \A t \in ItemStatuses : t # st => new[t] = count[t]
  BY <1>3 DEF Incremented, Increments, ItemStatuses
<1>7. QED
  BY <1>1, <1>2, <1>4, <1>5, <1>6 DEF Exact

(* Finalizing a session leaves its counters alone.                         *)
LEMMA FinalizingKeepsCounts ==
    ASSUME NEW row \in RowType
    PROVE  /\ Finalized(row) \in RowType /\ Finalized(row).count = row.count
           /\ AutoFinalized(row) \in RowType /\ AutoFinalized(row).count = row.count
<1>1. Finalized(row) \in RowType /\ Finalized(row).count = row.count
  BY DEF Finalized, RowType, SessionStatuses
<1>2. QED
  BY <1>1 DEF AutoFinalized

(* A row that reads nothing ahead of more rows.                            *)
LEMMA MoreRowsStayAhead ==
    ASSUME NEW count \in CountType, NEW rows \in RowsType, NEW st \in ItemStatuses,
           NotAhead(count, rows)
    PROVE  NotAhead(count, [rows EXCEPT ![st] = @ + 1])
<1> DEFINE more == [rows EXCEPT ![st] = @ + 1]
<1>1. more \in RowsType /\ more[st] = rows[st] + 1
      /\ \A t \in ItemStatuses : t # st => more[t] = rows[t]
  BY DEF RowsType
<1>2. Listed(more) = Listed(rows) + 1 /\ Listed(rows) \in Nat
  BY <1>1 DEF RowsType, ItemStatuses, Listed
<1>3. count["attempted"] \in Nat /\ \A t \in ItemStatuses : count[t] \in Nat
  BY DEF CountType, Counters, ItemStatuses
<1>4. \A t \in ItemStatuses : rows[t] \in Nat
  BY DEF RowsType
<1>5. \A t \in ItemStatuses : count[t] <= more[t]
  BY <1>1, <1>3, <1>4 DEF NotAhead
<1>6. QED
  BY <1>2, <1>3, <1>5 DEF NotAhead

-----------------------------------------------------------------------------
(* No step gives a record other fields.                                    *)
LEMMA StepKeepsShapes == Shapes /\ [Next]_vars => Shapes'
<1> SUFFICES ASSUME Shapes, [Next]_vars PROVE Shapes'
  OBVIOUS
<1>1. DOMAIN shown' = Uploads
  BY DEF Shapes, Next, EnqueueUploadBatch, NextTurn, EndLoop, FinalizeImportSession, Receive,
     Serve, Lookup, Register, ReadCounters, Commit, Rollback, ImportFolder, StartFolder,
     ImportCandidate, CommitFolder, RollbackFolder, Ingest, vars, page, database,
     UploadUnchanged, FolderUnchanged
<1>2. loop' = [stage |-> loop'.stage, session |-> loop'.session, initial |-> loop'.initial]
  <2>1. CASE loop' = loop
    BY <2>1 DEF Shapes
  <2>2. ASSUME NEW b \in BatchIds, EnqueueUploadBatch(b), loop' # loop
        PROVE  loop' = [stage |-> loop'.stage, session |-> loop'.session,
                        initial |-> loop'.initial]
    BY <2>2 DEF EnqueueUploadBatch
  <2>3. CASE NextTurn
    BY <2>3 DEF NextTurn, Shapes
  <2>4. CASE EndLoop
    BY <2>4 DEF EndLoop, Shapes
  <2>5. CASE FinalizeImportSession
    BY <2>5 DEF FinalizeImportSession, Shapes
  <2>6. loop' # loop =>
          NextTurn \/ EndLoop \/ FinalizeImportSession \/ \E b \in BatchIds : EnqueueUploadBatch(b)
    BY DEF Next, Receive, Serve, Lookup, Register, ReadCounters, Commit, Rollback, ImportFolder,
       StartFolder, ImportCandidate, CommitFolder, RollbackFolder, Ingest, vars, page,
       UploadUnchanged, FolderUnchanged
  <2>7. QED
    BY <2>1, <2>2, <2>3, <2>4, <2>5, <2>6
<1>3. folder' = [pc |-> folder'.pc, next |-> folder'.next, created |-> folder'.created,
                 fresh |-> folder'.fresh, items |-> folder'.items, count |-> folder'.count]
  <2>1. CASE folder' = folder
    BY <2>1 DEF Shapes
  <2>2. CASE folder' # folder
    BY <2>2 DEF Shapes, Next, EnqueueUploadBatch, NextTurn, EndLoop, FinalizeImportSession,
     Receive, Serve, Lookup, Register, ReadCounters, Commit, Rollback, ImportFolder, StartFolder,
     ImportCandidate, Recorded, CommitFolder, RollbackFolder, Ingest, vars, page, database,
     UploadUnchanged, FolderUnchanged
  <2>3. QED
    BY <2>1, <2>2
<1>4. QED
  BY <1>1, <1>2, <1>3 DEF Shapes

(* A step that leaves sessions and items alone and lets no request begin   *)
(* to count.                                                               *)
LEMMA QuietStep ==
    ASSUME CountersInv,
           backend' = backend, items' = items, sessions' = sessions,
           request' \in [Uploads -> RequestType],
           \A u \in Uploads :
               /\ request'[u].pc = "counted" => request'[u] = request[u]
               /\ request'[u].session \in {request[u].session, loop.session}
               /\ shown'[u] = "new" => shown[u] = "new"
               /\ request'[u].pc = "counted" /\ backend = "sqlite" /\ lock = u => lock' = u,
           loop'.session \in {loop.session, NoSession},
           folder'.items \in RowsType, folder'.count \in CountType,
           Exact(folder'.count, folder'.items)
    PROVE  CountersInv'
<1>1. Values'
  BY DEF CountersInv, Values, Answerable
<1>2. Untouched'
  BY BatchFacts DEF CountersInv, Untouched
<1>3. ReadsBehind'
  BY DEF CountersInv, ReadsBehind, Counts
<1>4. ReadsCurrent'
  BY DEF CountersInv, ReadsCurrent, Counts
<1>5. SessionsBehind' /\ SessionsExact'
  BY DEF CountersInv, SessionsBehind, SessionsExact
<1>6. QED
  BY <1>1, <1>2, <1>3, <1>4, <1>5 DEF CountersInv, FolderExact

(* A new deployment has no rows and no requests.                           *)
LEMMA InitCounters == Init => Shapes /\ CountersInv
<1> SUFFICES ASSUME Init PROVE Shapes /\ CountersInv
  OBVIOUS
<1>1. Zero \in CountType /\ NoItems \in RowsType
  BY DEF Zero, CountType, NoItems, RowsType
<1>2. NotAhead(Zero, NoItems) /\ Exact(Zero, NoItems)
  BY DEF NotAhead, Exact, Zero, NoItems, Counters, ItemStatuses, Listed
<1>3. NoRow \in RowType /\ NoRow.count = Zero
  BY <1>1 DEF NoRow, RowType, SessionStatuses
<1>4. sessions \in [SessionIds -> RowType]
  BY <1>3 DEF Init
<1>5. items \in [SessionIds -> RowsType]
  BY <1>1 DEF Init
<1>6. request \in [Uploads -> RequestType]
  BY <1>1 DEF Init, RequestType, Answerable
<1>7. Values
  BY <1>1, <1>4, <1>5, <1>6 DEF Init, Values, Answerable
<1>8. \A u \in Uploads : request[u].pc = "idle" /\ request[u].session = NoSession
  BY DEF Init
<1>9. \A b \in BatchIds : b # NoSession /\ b \in SessionIds
  BY BatchFacts
<1>10. Untouched
  BY <1>8, <1>9 DEF Untouched, Init
<1>11. ReadsBehind /\ ReadsCurrent
  BY <1>8 DEF ReadsBehind, ReadsCurrent, Counts
<1>12. \A s \in SessionIds : sessions[s].count = Zero /\ items[s] = NoItems
  BY <1>3 DEF Init
<1>13. SessionsBehind /\ SessionsExact
  BY <1>2, <1>12 DEF SessionsBehind, SessionsExact
<1>14. FolderExact
  BY <1>2 DEF FolderExact, Init
<1>15. Shapes
  BY DEF Shapes, Init
<1>16. QED
  BY <1>7, <1>10, <1>11, <1>13, <1>14, <1>15 DEF CountersInv

(* The session of a batch is created when nobody knows the batch yet.      *)
LEMMA EnqueueKeepsCounters ==
    ASSUME CountersInv, NEW b \in BatchIds, EnqueueUploadBatch(b)
    PROVE  CountersInv'
<1>1. <<b, 1>> \in Uploads /\ <<b, 1>>[1] = b /\ b \in SessionIds
  BY BatchFacts
<1>2. shown[<<b, 1>>] = "new"
  BY <1>1 DEF EnqueueUploadBatch
<1>3. items[b] = NoItems /\ \A u \in Uploads : request[u].session # b
  BY <1>2 DEF CountersInv, Untouched
<1>4. /\ backend' = backend /\ items' = items /\ lock' = lock
      /\ request' = request /\ folder' = folder
      /\ shown' = [u \in Uploads |-> IF u[1] = b THEN "queued" ELSE shown[u]]
  BY DEF EnqueueUploadBatch
<1>5. CASE sessions' = sessions
  <2>1. loop'.session \in {loop.session, NoSession, b}
    BY DEF EnqueueUploadBatch
  <2>2. Values'
    BY <1>4, <1>5, <2>1 DEF CountersInv, Values, Answerable
  <2>3. Untouched'
    <3> SUFFICES ASSUME NEW c \in BatchIds, shown'[<<c, 1>>] = "new"
                 PROVE  /\ items'[c] = NoItems /\ loop'.session # c
                        /\ \A u \in Uploads : request'[u].session # c
      BY DEF Untouched
    <3>1. c # b /\ shown[<<c, 1>>] = "new"
      BY <1>4, BatchFacts
    <3>2. c # NoSession
      BY BatchFacts
    <3>3. QED
      BY <1>4, <2>1, <3>1, <3>2 DEF CountersInv, Untouched
  <2>4. QED
    BY <1>4, <1>5, <2>2, <2>3 DEF CountersInv, ReadsBehind, ReadsCurrent, SessionsBehind,
       SessionsExact, FolderExact
<1>6. CASE /\ CanWrite(NoOne)
           /\ sessions' = [sessions EXCEPT ![b] = NewSession(Len(Batches[b]))]
  <2> DEFINE row == NewSession(Len(Batches[b]))
  <2>1. row \in RowType /\ row.count = Zero
    <3>1. Len(Batches[b]) \in Nat
      BY ImportAssumption DEF BatchIds
    <3>2. Zero \in CountType
      BY DEF Zero, CountType
    <3>3. QED
      BY <3>1, <3>2 DEF NewSession, RowType, SessionStatuses
  <2> HIDE DEF row
  <2>2. sessions \in [SessionIds -> RowType]
    BY DEF CountersInv, Values
  <2>3. /\ sessions' \in [SessionIds -> RowType] /\ sessions'[b] = row
        /\ \A s \in SessionIds : s # b => sessions'[s] = sessions[s]
    BY <1>1, <1>6, <2>1, <2>2 DEF row
  <2>4. loop'.session \in {loop.session, NoSession, b}
    BY DEF EnqueueUploadBatch
  <2>5. Values'
    BY <1>4, <2>3, <2>4 DEF CountersInv, Values, Answerable
  <2>6. Untouched'
    <3> SUFFICES ASSUME NEW c \in BatchIds, shown'[<<c, 1>>] = "new"
                 PROVE  /\ items'[c] = NoItems /\ loop'.session # c
                        /\ \A u \in Uploads : request'[u].session # c
      BY DEF Untouched
    <3>1. c # b /\ shown[<<c, 1>>] = "new"
      BY <1>4, BatchFacts
    <3>2. c # NoSession
      BY BatchFacts
    <3>3. QED
      BY <1>4, <2>4, <3>1, <3>2 DEF CountersInv, Untouched
  <2>7. ReadsBehind'
    BY <1>4 DEF CountersInv, ReadsBehind
  <2>8. ReadsCurrent'
    <3> SUFFICES ASSUME backend = "sqlite", NEW u \in Uploads, request[u].pc = "counted"
                 PROVE  FALSE
      BY <1>4 DEF ReadsCurrent
    <3>1. lock = u
      BY DEF CountersInv, ReadsCurrent
    <3>2. lock = NoOne
      BY <1>6 DEF CanWrite
    <3>3. QED
      BY <3>1, <3>2, BatchFacts
  <2>9. NotAhead(Zero, NoItems) /\ Exact(Zero, NoItems)
    BY DEF NotAhead, Exact, Zero, NoItems, Counters, ItemStatuses, Listed
  <2>10. SessionsBehind'
    BY <1>3, <1>4, <2>1, <2>3, <2>9 DEF CountersInv, SessionsBehind
  <2>11. SessionsExact'
    BY <1>3, <1>4, <2>1, <2>3, <2>9 DEF CountersInv, SessionsExact
  <2>12. QED
    BY <1>4, <2>5, <2>6, <2>7, <2>8, <2>10, <2>11 DEF CountersInv, FolderExact
<1>7. QED
  BY <1>5, <1>6 DEF EnqueueUploadBatch

(* Finalizing changes the status of a session only.                        *)
LEMMA FinalizeKeepsCounters ==
    ASSUME CountersInv, FinalizeImportSession
    PROVE  CountersInv'
<1>1. /\ backend' = backend /\ items' = items /\ lock' = lock
      /\ request' = request /\ folder' = folder /\ shown' = shown
  BY DEF FinalizeImportSession
<1>2. loop'.session = NoSession
  BY DEF FinalizeImportSession
<1>3. sessions \in [SessionIds -> RowType]
  BY DEF CountersInv, Values
<1>4. /\ sessions' \in [SessionIds -> RowType]
      /\ \A s \in SessionIds : sessions'[s].count = sessions[s].count
  <2>1. CASE sessions' = sessions
    BY <1>3, <2>1
  <2>2. CASE sessions' = [sessions EXCEPT ![loop.session] = Finalized(@)]
    BY <1>3, <2>2, FinalizingKeepsCounts
  <2>3. QED
    BY <2>1, <2>2 DEF FinalizeImportSession
<1>5. \A u \in Uploads :
         Counts(request[u]) => sessions'[request[u].session].count
                                = sessions[request[u].session].count
  BY <1>4, BatchFacts DEF CountersInv, Values, Counts, RequestType, Answerable, SessionIds
<1>6. Values'
  BY <1>1, <1>2, <1>4 DEF CountersInv, Values, Answerable
<1>7. Untouched'
  BY <1>1, <1>2, BatchFacts DEF CountersInv, Untouched
<1>8. ReadsBehind' /\ ReadsCurrent'
  BY <1>1, <1>5 DEF CountersInv, ReadsBehind, ReadsCurrent
<1>9. SessionsBehind' /\ SessionsExact'
  BY <1>1, <1>4 DEF CountersInv, SessionsBehind, SessionsExact
<1>10. QED
  BY <1>1, <1>6, <1>7, <1>8, <1>9 DEF CountersInv, FolderExact

(* A request reads the counters as they are; on SQLite it locks them.      *)
LEMMA ReadKeepsCounters ==
    ASSUME CountersInv, NEW v \in Uploads, ReadCounters(v)
    PROVE  CountersInv'
<1> DEFINE read == IF request[v].session = NoSession THEN Zero
                   ELSE sessions[request[v].session].count
<1>1. /\ backend' = backend /\ items' = items /\ sessions' = sessions
      /\ folder' = folder /\ shown' = shown /\ loop' = loop
      /\ lock' = Locked(v) /\ CanWrite(v)
  BY DEF ReadCounters, UploadUnchanged, page
<1>2. request \in [Uploads -> RequestType] /\ sessions \in [SessionIds -> RowType]
  BY DEF CountersInv, Values
<1>3. request[v].session \in Answerable
  BY <1>2 DEF RequestType
<1>4. read \in CountType
  BY <1>2, <1>3 DEF Zero, CountType, RowType, Answerable, SessionIds
<1> HIDE DEF read
<1>5. /\ request' \in [Uploads -> RequestType]
      /\ request'[v].pc = "counted" /\ request'[v].read = read
      /\ request'[v].session = request[v].session
      /\ \A u \in Uploads : u # v => request'[u] = request[u]
  <2> DEFINE out == IF request[v].pc = "new" THEN "created" ELSE "deduplicated"
             ag == request[v].pc = "again"
             new == [request[v] EXCEPT !.outcome = out, !.again = ag, !.read = read,
                                       !.pc = "counted"]
  <2>1. request' = [request EXCEPT ![v] = new]
    BY <1>2 DEF ReadCounters, read
  <2>2. out \in {"created", "deduplicated"} /\ ag \in BOOLEAN
    OBVIOUS
  <2> HIDE DEF out, ag
  <2>3. new \in RequestType /\ new.pc = "counted" /\ new.read = read
        /\ new.session = request[v].session
    BY <1>2, <1>4, <2>2 DEF RequestType
  <2> HIDE DEF new
  <2>4. QED
    BY <1>2, <2>1, <2>3
<1>6. Values'
  BY <1>1, <1>5 DEF CountersInv, Values
<1>7. Untouched'
  BY <1>1, <1>5 DEF CountersInv, Untouched
<1>8. Counts(request'[v]) => /\ read = sessions[request[v].session].count
                            /\ NotAhead(read, items[request[v].session])
  BY <1>3, <1>5 DEF Counts, read, CountersInv, SessionsBehind, Answerable, SessionIds
<1>9. ReadsBehind'
  BY <1>1, <1>5, <1>8 DEF CountersInv, ReadsBehind, Counts
<1>10. ReadsCurrent'
  <2> SUFFICES ASSUME backend = "sqlite", NEW u \in Uploads, request'[u].pc = "counted"
               PROVE  /\ lock' = u
                      /\ Counts(request'[u]) =>
                           request'[u].read = sessions[request'[u].session].count
    BY <1>1 DEF ReadsCurrent
  <2>1. CASE u = v
    BY <2>1, <1>1, <1>5, <1>8 DEF Locked
  <2>2. CASE u # v
    <3>1. request[u].pc = "counted" /\ lock = u
      BY <2>2, <1>5 DEF CountersInv, ReadsCurrent
    <3>2. lock \in {NoOne, v}
      BY <1>1 DEF CanWrite
    <3>3. QED
      BY <2>2, <3>1, <3>2, BatchFacts
  <2>3. QED
    BY <2>1, <2>2
<1>11. QED
  BY <1>1, <1>6, <1>7, <1>9, <1>10 DEF CountersInv, SessionsBehind, SessionsExact, FolderExact

(* An upload's commit: one more item, and counters written from its reads. *)
LEMMA CommitKeepsCounters ==
    ASSUME CountersInv, NEW v \in Uploads, Commit(v)
    PROVE  CountersInv'
<1> DEFINE s == request[v].session
           st == request[v].outcome
           read == request[v].read
           new == Incremented(sessions[s].count, read, st)
           rows == [items[s] EXCEPT ![st] = @ + 1]
           row == AutoFinalized([sessions[s] EXCEPT !.count = new])
<1>1. /\ backend' = backend /\ folder' = folder /\ shown' = shown /\ loop' = loop
      /\ lock' = Released(v) /\ request[v].pc = "counted"
      /\ request' = [request EXCEPT ![v].pc = "answered"]
  BY DEF Commit, UploadUnchanged, page, At
<1>2. /\ request \in [Uploads -> RequestType] /\ sessions \in [SessionIds -> RowType]
      /\ items \in [SessionIds -> RowsType]
  BY DEF CountersInv, Values
<1>3. /\ request' \in [Uploads -> RequestType] /\ request'[v].pc = "answered"
      /\ \A u \in Uploads : u # v => request'[u] = request[u]
      /\ \A u \in Uploads : request'[u].session = request[u].session
  <2>1. [request[v] EXCEPT !.pc = "answered"] \in RequestType
        /\ [request[v] EXCEPT !.pc = "answered"].session = request[v].session
    BY <1>2 DEF RequestType
  <2>2. QED
    BY <1>1, <1>2, <2>1
<1>4. \A u \in Uploads : u # v /\ lock = u => lock' = u
  BY <1>1 DEF Released
<1>5. CASE s = NoSession
  <2>1. sessions' = sessions /\ items' = items
    BY <1>5 DEF Commit
  <2>2. \A u \in Uploads :
           /\ request'[u].pc = "counted" => request'[u] = request[u]
           /\ request'[u].session \in {request[u].session, loop.session}
           /\ shown'[u] = "new" => shown[u] = "new"
           /\ request'[u].pc = "counted" /\ backend = "sqlite" /\ lock = u => lock' = u
    BY <1>1, <1>3, <1>4
  <2>3. /\ loop'.session \in {loop.session, NoSession}
        /\ folder'.items \in RowsType /\ folder'.count \in CountType
        /\ Exact(folder'.count, folder'.items)
    BY <1>1 DEF CountersInv, Values, FolderExact
  <2>4. QED
    BY <1>1, <1>3, <2>1, <2>2, <2>3, QuietStep
<1>6. CASE s # NoSession
  <2>1. s \in BatchIds /\ s \in SessionIds /\ st \in ItemStatuses /\ read \in CountType
    BY <1>2, <1>6, BatchFacts DEF RequestType, Answerable, ItemStatuses
  <2>2. /\ items' = [items EXCEPT ![s][st] = @ + 1]
        /\ sessions' = [sessions EXCEPT ![s] =
             AutoFinalized([@ EXCEPT !.count = Incremented(sessions[s].count, read, st)])]
    BY <1>6 DEF Commit
  <2>3. Counts(request[v])
    BY <1>1, <1>6 DEF Counts
  <2>4. NotAhead(read, items[s]) /\ NotAhead(sessions[s].count, items[s])
    BY <2>1, <2>3 DEF CountersInv, ReadsBehind, SessionsBehind
  <2>5. sessions[s].count \in CountType /\ items[s] \in RowsType
    BY <1>2, <2>1 DEF RowType
  <2>6. NotAhead(new, rows) /\ new \in CountType /\ rows \in RowsType
    BY <2>1, <2>4, <2>5, IncrementStaysBehind
  <2>7. backend = "sqlite" => Exact(new, rows)
    <3> SUFFICES ASSUME backend = "sqlite" PROVE Exact(new, rows)
      OBVIOUS
    <3>1. read = sessions[s].count
      BY <1>1, <2>3 DEF CountersInv, ReadsCurrent
    <3>2. Exact(sessions[s].count, items[s])
      BY <2>1 DEF CountersInv, SessionsExact
    <3>3. QED
      BY <3>1, <3>2, <2>1, <2>5, IncrementStaysExact
  <2>8. row \in RowType /\ row.count = new
    <3> DEFINE raised == [sessions[s] EXCEPT !.count = new]
    <3> HIDE DEF new
    <3>1. raised \in RowType /\ raised.count = new
      BY <1>2, <2>1, <2>6 DEF RowType
    <3> HIDE DEF raised
    <3>2. AutoFinalized(raised) \in RowType /\ AutoFinalized(raised).count = raised.count
      BY <3>1, FinalizingKeepsCounts
    <3>3. QED
      BY <3>1, <3>2 DEF raised
  <2>9. /\ sessions' \in [SessionIds -> RowType] /\ sessions'[s].count = new
        /\ \A t \in SessionIds : t # s => sessions'[t] = sessions[t]
    <3>1. sessions' = [sessions EXCEPT ![s] = row]
      BY <1>2, <2>1, <2>2
    <3> HIDE DEF row, new
    <3>2. QED
      BY <1>2, <2>1, <2>8, <3>1
  <2>10. /\ items' \in [SessionIds -> RowsType] /\ items'[s] = rows
         /\ \A t \in SessionIds : t # s => items'[t] = items[t]
    <3>1. items' = [items EXCEPT ![s] = rows]
      BY <1>2, <2>1, <2>2
    <3> HIDE DEF rows
    <3>2. QED
      BY <1>2, <2>1, <2>6, <3>1
  <2> HIDE DEF new, rows, row
  <2>11. Values'
    BY <1>1, <1>3, <2>9, <2>10 DEF CountersInv, Values
  <2>12. Untouched'
    <3> SUFFICES ASSUME NEW b \in BatchIds, shown[<<b, 1>>] = "new"
                 PROVE  /\ items'[b] = NoItems /\ loop.session # b
                        /\ \A u \in Uploads : request'[u].session # b
      BY <1>1 DEF Untouched
    <3>1. /\ items[b] = NoItems /\ loop.session # b
          /\ \A u \in Uploads : request[u].session # b
      BY DEF CountersInv, Untouched
    <3>2. s # b /\ b \in SessionIds
      BY <3>1, BatchFacts
    <3>3. QED
      BY <1>3, <2>10, <3>1, <3>2
  <2>13. ReadsBehind'
    <3> SUFFICES ASSUME NEW u \in Uploads, Counts(request'[u])
                 PROVE  NotAhead(request'[u].read, items'[request'[u].session])
      BY DEF ReadsBehind
    <3>1. u # v /\ request'[u] = request[u]
      BY <1>3 DEF Counts
    <3>2. request[u].read \in CountType /\ request[u].session \in SessionIds
      BY <1>2, <3>1, BatchFacts DEF RequestType, Answerable, Counts
    <3>3. NotAhead(request[u].read, items[request[u].session])
      BY <3>1 DEF CountersInv, ReadsBehind
    <3>4. request[u].session = s => NotAhead(request[u].read, rows)
      BY <2>1, <2>5, <3>2, <3>3, MoreRowsStayAhead DEF rows
    <3>5. QED
      BY <2>10, <3>1, <3>2, <3>3, <3>4
  <2>14. ReadsCurrent'
    <3> SUFFICES ASSUME backend = "sqlite", NEW u \in Uploads, request'[u].pc = "counted"
                 PROVE  FALSE
      BY <1>1 DEF ReadsCurrent
    <3>1. u # v /\ request[u].pc = "counted"
      BY <1>3
    <3>2. lock = u /\ lock = v
      BY <1>1, <3>1 DEF CountersInv, ReadsCurrent
    <3>3. QED
      BY <3>1, <3>2
  <2>15. SessionsBehind' /\ SessionsExact'
    BY <1>1, <2>6, <2>7, <2>9, <2>10 DEF CountersInv, SessionsBehind, SessionsExact
  <2>16. QED
    BY <1>1, <2>11, <2>12, <2>13, <2>14, <2>15 DEF CountersInv, FolderExact
<1>7. QED
  BY <1>5, <1>6

(* The folder's session appears with the counters of its own items.        *)
LEMMA CommitFolderKeepsCounters ==
    ASSUME Shapes, CountersInv, CommitFolder
    PROVE  CountersInv'
<1> DEFINE fresh == [NewSession(Len(Folder)) EXCEPT !.count = folder.count]
           row == Finalized(fresh)
<1>1. /\ backend' = backend /\ request' = request /\ shown' = shown /\ loop' = loop
      /\ lock' = Released(Importer)
      /\ sessions' = [sessions EXCEPT ![FolderSession] = row]
      /\ items' = [items EXCEPT ![FolderSession] = folder.items]
      /\ folder' = [folder EXCEPT !.pc = "done"]
  BY DEF CommitFolder, FolderUnchanged, page
<1>2. /\ request \in [Uploads -> RequestType] /\ sessions \in [SessionIds -> RowType]
      /\ items \in [SessionIds -> RowsType]
      /\ folder.items \in RowsType /\ folder.count \in CountType
      /\ Exact(folder.count, folder.items)
  BY DEF CountersInv, Values, FolderExact
<1>3. row \in RowType /\ row.count = folder.count
  <2>1. Len(Folder) \in Nat
    BY ImportAssumption
  <2>2. fresh \in RowType /\ fresh.count = folder.count
    BY <1>2, <2>1 DEF NewSession, RowType, SessionStatuses
  <2> HIDE DEF fresh
  <2>3. QED
    BY <2>2, FinalizingKeepsCounts
<1> HIDE DEF row
<1>4. /\ sessions' \in [SessionIds -> RowType] /\ items' \in [SessionIds -> RowsType]
      /\ sessions'[FolderSession] = row /\ items'[FolderSession] = folder.items
      /\ \A t \in SessionIds : t # FolderSession =>
            sessions'[t] = sessions[t] /\ items'[t] = items[t]
  BY <1>1, <1>2, <1>3, BatchFacts
<1>5. NotAhead(folder.count, folder.items)
  <2>1. \A t \in ItemStatuses : folder.items[t] \in Nat /\ folder.count[t] = folder.items[t]
    BY <1>2 DEF RowsType, Exact
  <2>2. Listed(folder.items) \in Nat
    BY <1>2 DEF RowsType, Listed, ItemStatuses
  <2>3. QED
    BY <1>2, <2>1, <2>2 DEF Exact, NotAhead
<1>6. folder'.items = folder.items /\ folder'.count = folder.count
  BY <1>1
<1>7. \A u \in Uploads : Counts(request[u]) =>
        request[u].session \in SessionIds /\ request[u].session # FolderSession
  BY <1>2, BatchFacts DEF RequestType, Answerable, Counts
<1>8. Values'
  BY <1>1, <1>2, <1>4, <1>6 DEF CountersInv, Values
<1>9. Untouched'
  BY <1>1, <1>4, BatchFacts DEF CountersInv, Untouched
<1>10. ReadsBehind'
  BY <1>1, <1>4, <1>7 DEF CountersInv, ReadsBehind
<1>11. ReadsCurrent'
  <2>1. \A u \in Uploads : lock = u => lock' = u
    BY <1>1, BatchFacts DEF Released
  <2>2. QED
    BY <1>1, <1>4, <1>7, <2>1 DEF CountersInv, ReadsCurrent
<1>12. SessionsBehind' /\ SessionsExact'
  BY <1>1, <1>2, <1>3, <1>4, <1>5 DEF CountersInv, SessionsBehind, SessionsExact
<1>13. QED
  BY <1>2, <1>6, <1>8, <1>9, <1>10, <1>11, <1>12 DEF CountersInv, FolderExact

(* The page: turns, the end of the loop, and answers.                      *)
LEMMA PageKeepsCounters ==
    ASSUME Shapes, CountersInv, NextTurn \/ EndLoop \/ \E u \in Uploads : Receive(u)
    PROVE  CountersInv'
<1>1. /\ backend' = backend /\ items' = items /\ sessions' = sessions
      /\ lock' = lock /\ folder' = folder
  BY DEF NextTurn, EndLoop, Receive, database
<1>2. /\ request \in [Uploads -> RequestType] /\ loop.session \in Answerable
      /\ folder.items \in RowsType /\ folder.count \in CountType
      /\ Exact(folder.count, folder.items)
  BY DEF CountersInv, Values, FolderExact
<1>3. CASE NextTurn
  <2>1. request' = [u \in Uploads |->
                      IF InWave(u)
                      THEN [request[u] EXCEPT !.pc = "arrived", !.session = loop.session]
                      ELSE request[u]]
    BY <1>3 DEF NextTurn
  <2>2. \A u \in Uploads :
           LET sent == [request[u] EXCEPT !.pc = "arrived", !.session = loop.session] IN
           sent \in RequestType /\ sent.pc = "arrived" /\ sent.session = loop.session
    BY <1>2 DEF RequestType
  <2>3. /\ request' \in [Uploads -> RequestType]
        /\ \A u \in Uploads : /\ request'[u].pc = "counted" => request'[u] = request[u]
                              /\ request'[u].session \in {request[u].session, loop.session}
    BY <1>2, <2>1, <2>2
  <2>4. \A u \in Uploads : shown'[u] = "new" => shown[u] = "new"
    BY <1>3 DEF NextTurn
  <2>5. loop'.session = loop.session
    BY <1>3 DEF NextTurn, Shapes
  <2>6. QED
    BY <1>1, <1>2, <2>3, <2>4, <2>5, QuietStep
<1>4. CASE EndLoop
  <2>1. request' = request /\ shown' = shown /\ loop'.session \in {loop.session, NoSession}
    BY <1>4 DEF EndLoop
  <2>2. QED
    BY <1>1, <1>2, <2>1, QuietStep
<1>5. CASE \E v \in Uploads : Receive(v)
  <2>1. PICK v \in Uploads : Receive(v)
    BY <1>5
  <2>2. request' = request /\ loop' = loop
    BY <2>1 DEF Receive
  <2>3. shown' = [shown EXCEPT ![v] = "done"] \/ shown' = [shown EXCEPT ![v] = "error"]
    BY <2>1 DEF Receive
  <2>4. \A u \in Uploads : shown'[u] = "new" => shown[u] = "new"
    BY <2>3 DEF Shapes
  <2>5. QED
    BY <1>1, <1>2, <2>2, <2>4, QuietStep
<1>6. QED
  BY <1>3, <1>4, <1>5

(* The lookups of a request, and its failure.                              *)
LEMMA RequestKeepsCounters ==
    ASSUME CountersInv, NEW v \in Uploads, Lookup(v) \/ Register(v) \/ Rollback(v)
    PROVE  CountersInv'
<1>1. /\ backend' = backend /\ items' = items /\ sessions' = sessions
      /\ folder' = folder /\ shown' = shown /\ loop' = loop
  BY DEF Lookup, Register, Rollback, UploadUnchanged, page, database
<1>2. /\ request \in [Uploads -> RequestType]
      /\ folder.items \in RowsType /\ folder.count \in CountType
      /\ Exact(folder.count, folder.items)
  BY DEF CountersInv, Values, FolderExact
<1>3. \E pc \in {"known", "unknown", "again", "new", "failed"} :
         request' = [request EXCEPT ![v].pc = pc]
  BY DEF Lookup, Register, Rollback
<1>4. PICK pc \in {"known", "unknown", "again", "new", "failed"} :
         request' = [request EXCEPT ![v].pc = pc]
  BY <1>3
<1>5. [request[v] EXCEPT !.pc = pc] \in RequestType
      /\ [request[v] EXCEPT !.pc = pc].pc = pc
      /\ [request[v] EXCEPT !.pc = pc].session = request[v].session
  BY <1>2 DEF RequestType
<1>6. /\ request' \in [Uploads -> RequestType]
      /\ \A u \in Uploads : u # v => request'[u] = request[u]
      /\ request'[v].pc # "counted" /\ request'[v].session = request[v].session
  BY <1>2, <1>4, <1>5
<1>7. \A u \in Uploads : u # v /\ lock = u => lock' = u
  BY DEF Lookup, Register, Rollback, Released, database
<1>8. \A u \in Uploads :
        /\ request'[u].pc = "counted" => request'[u] = request[u]
        /\ request'[u].session \in {request[u].session, loop.session}
        /\ shown'[u] = "new" => shown[u] = "new"
        /\ request'[u].pc = "counted" /\ backend = "sqlite" /\ lock = u => lock' = u
  BY <1>1, <1>6, <1>7
<1>9. QED
  BY <1>1, <1>2, <1>6, <1>8, QuietStep

(* The folder import before its commit, its failure, and ingestion.        *)
LEMMA FolderKeepsCounters ==
    ASSUME Shapes, CountersInv, StartFolder \/ ImportCandidate \/ RollbackFolder \/ Ingest
    PROVE  CountersInv'
<1>1. /\ backend' = backend /\ items' = items /\ sessions' = sessions
      /\ request' = request /\ shown' = shown /\ loop' = loop
  BY DEF StartFolder, ImportCandidate, RollbackFolder, Ingest, FolderUnchanged, page, database
<1>2. /\ request \in [Uploads -> RequestType]
      /\ folder.items \in RowsType /\ folder.count \in CountType
      /\ Exact(folder.count, folder.items)
  BY DEF CountersInv, Values, FolderExact
<1>3. \A u \in Uploads : backend = "sqlite" /\ lock = u => lock' = u
  <2>1. CASE StartFolder
    <3>1. backend = "sqlite" => lock \in {NoOne, Importer}
      BY <2>1 DEF StartFolder, CanWrite
    <3>2. QED
      BY <3>1, BatchFacts
  <2>2. CASE ImportCandidate \/ Ingest
    BY <2>2 DEF ImportCandidate, Ingest, database
  <2>3. CASE RollbackFolder
    BY <2>3, BatchFacts DEF RollbackFolder, Released
  <2>4. QED
    BY <2>1, <2>2, <2>3
<1>4. folder'.items \in RowsType /\ folder'.count \in CountType
      /\ Exact(folder'.count, folder'.items)
  <2>1. CASE StartFolder \/ RollbackFolder \/ Ingest
    <3>1. folder'.items = folder.items /\ folder'.count = folder.count
      BY <2>1 DEF StartFolder, RollbackFolder, Ingest, Shapes
    <3>2. QED
      BY <1>2, <3>1
  <2>2. CASE ImportCandidate
    <3>1. PICK st \in ItemStatuses :
             /\ folder'.items = [folder.items EXCEPT ![st] = @ + 1]
             /\ folder'.count = Incremented(folder.count, folder.count, st)
      <4>1. ASSUME NEW st \in ItemStatuses
            PROVE  /\ Recorded(st).items = [folder.items EXCEPT ![st] = @ + 1]
                   /\ Recorded(st).count = Incremented(folder.count, folder.count, st)
        <5>1. Recorded(st) = [folder EXCEPT !.next = @ + 1,
                                !.items = [folder.items EXCEPT ![st] = @ + 1],
                                !.count = Incremented(folder.count, folder.count, st)]
          BY DEF Recorded
        <5>2. QED
          BY <5>1 DEF Shapes
      <4>2. \/ \E st \in ItemStatuses : folder' = Recorded(st)
            \/ /\ folder'.items = Recorded("created").items
               /\ folder'.count = Recorded("created").count
        <5>1. CASE folder' \in {Recorded("skipped"), Recorded("failed"), Recorded("deduplicated")}
          BY <5>1 DEF ItemStatuses
        <5>2. CASE \E new, fresh : folder' = [Recorded("created") EXCEPT !.created = new,
                                                                       !.fresh = fresh]
          BY <5>2 DEF Recorded, Shapes
        <5>3. QED
          BY <2>2, <5>1, <5>2 DEF ImportCandidate
      <4>3. "created" \in ItemStatuses
        BY DEF ItemStatuses
      <4>4. QED
        BY <4>1, <4>2, <4>3
    <3>2. QED
      BY <1>2, <3>1, IncrementStaysExact
  <2>3. QED
    BY <2>1, <2>2
<1>5. QED
  BY <1>1, <1>2, <1>3, <1>4, QuietStep

(* Every step keeps the invariant.                                         *)
LEMMA StepKeepsCounters == Shapes /\ CountersInv /\ [Next]_vars => CountersInv'
<1> SUFFICES ASSUME Shapes, CountersInv, [Next]_vars PROVE CountersInv'
  OBVIOUS
<1>1. CASE Next
  BY <1>1, EnqueueKeepsCounters, PageKeepsCounters, FinalizeKeepsCounters,
     RequestKeepsCounters, ReadKeepsCounters, CommitKeepsCounters,
     CommitFolderKeepsCounters, FolderKeepsCounters DEF Next, Serve, ImportFolder
<1>2. CASE UNCHANGED vars
  <2>1. /\ backend' = backend /\ items' = items /\ sessions' = sessions /\ lock' = lock
        /\ request' = request /\ shown' = shown /\ loop' = loop /\ folder' = folder
    BY <1>2 DEF vars, database, page
  <2>2. /\ request \in [Uploads -> RequestType]
        /\ folder.items \in RowsType /\ folder.count \in CountType
        /\ Exact(folder.count, folder.items)
    BY DEF CountersInv, Values, FolderExact
  <2>3. QED
    BY <2>1, <2>2, QuietStep
<1>3. QED
  BY <1>1, <1>2

(* Lost increments are the only thing concurrency can do to a counter.     *)
THEOREM NeverAhead == Spec => []CountersNeverAhead
<1>1. CountersInv => CountersNeverAhead
  BY DEF CountersInv, SessionsBehind, NotAhead, CountersNeverAhead
<1>2. QED
  BY InitCounters, StepKeepsShapes, StepKeepsCounters, <1>1, PTL DEF Spec

(* On SQLite no increment is lost either.                                  *)
THEOREM ExactOnSQLite == Spec => []CountersExactOnSQLite
<1>1. CountersInv => CountersExactOnSQLite
  BY DEF CountersInv, SessionsExact, Exact, CountersExactOnSQLite
<1>2. QED
  BY InitCounters, StepKeepsShapes, StepKeepsCounters, <1>1, PTL DEF Spec

(* Together: concurrent uploads make no counter wrong but by the           *)
(* increments that PostgreSQL may lose (record_upload_item).               *)
THEOREM CountersSound == Spec => []CountersAreSound
  BY NeverAhead, ExactOnSQLite, PTL DEF CountersAreSound

(* A session completes by itself only when its counter of attempts, which  *)
(* is never ahead, has reached the number announced.                       *)
THEOREM SelfCompletionIsFull == Spec => SelfCompletedIsFull
<1>1. ASSUME Shapes, CountersInv, CountersInv', [Next]_vars, NEW s \in BatchIds,
             sessions[s].status = "running", sessions'[s].status # "running",
             loop'.stage = loop.stage
      PROVE  Listed(items'[s]) >= sessions[s].discovered
  <2>1. s \in SessionIds /\ s # FolderSession /\ <<s, 1>> \in Uploads /\ <<s, 1>>[1] = s
    BY BatchFacts
  <2>2. sessions \in [SessionIds -> RowType] /\ sessions' \in [SessionIds -> RowType]
    BY <1>1 DEF CountersInv, Values
  <2>3. ~UNCHANGED sessions
    BY <1>1
  <2>4. PICK v \in Uploads : Commit(v) /\ request[v].session = s
    <3>1. ~FinalizeImportSession
      BY <1>1 DEF FinalizeImportSession, Shapes
    <3>2. ~CommitFolder
      <4> SUFFICES ASSUME CommitFolder PROVE FALSE
        OBVIOUS
      <4>1. sessions'[s] = sessions[s]
        BY <2>1, <2>2 DEF CommitFolder
      <4>2. QED
        BY <4>1, <1>1
    <3>3. ASSUME NEW b \in BatchIds, EnqueueUploadBatch(b) PROVE FALSE
      <4>1. sessions' = [sessions EXCEPT ![b] = NewSession(Len(Batches[b]))]
        BY <2>3, <3>3 DEF EnqueueUploadBatch
      <4>2. sessions'[s] = sessions[s] \/ sessions'[s].status = "running"
        BY <2>1, <2>2, <4>1 DEF NewSession
      <4>3. QED
        BY <4>2, <1>1
    <3>4. \E v \in Uploads : Commit(v)
      BY <1>1, <2>3, <3>1, <3>2, <3>3 DEF Next, Serve, ImportFolder, NextTurn, EndLoop, Receive,
         Lookup, Register, ReadCounters, Rollback, StartFolder, ImportCandidate, RollbackFolder,
         Ingest, vars, database
    <3>5. PICK v \in Uploads : Commit(v)
      BY <3>4
    <3>6. request[v].session # s => sessions'[s] = sessions[s]
      BY <2>1, <2>2, <3>5 DEF Commit
    <3>7. QED
      BY <1>1, <3>5, <3>6
  <2> DEFINE counted == [sessions[s] EXCEPT !.count =
                           Incremented(sessions[s].count, request[v].read, request[v].outcome)]
  <2>5. sessions' = [sessions EXCEPT ![s] = AutoFinalized(counted)]
    BY <2>1, <2>2, <2>4, BatchFacts DEF Commit
  <2>6. counted.status = "running" /\ counted.discovered = sessions[s].discovered
    BY <1>1, <2>1, <2>2 DEF RowType
  <2>7. sessions'[s] = AutoFinalized(counted)
    BY <2>1, <2>2, <2>5
  <2> HIDE DEF counted
  <2>8. /\ AutoFinalized(counted) = Finalized(counted)
        /\ counted.count["attempted"] >= counted.discovered
    BY <1>1, <2>6, <2>7 DEF AutoFinalized
  <2>9. sessions'[s].count = counted.count
    BY <2>7, <2>8 DEF Finalized
  <2>10. sessions'[s].count["attempted"] <= Listed(items'[s])
    BY <1>1, <2>1 DEF CountersInv, SessionsBehind, NotAhead
  <2>11. /\ sessions'[s].count["attempted"] \in Nat /\ sessions[s].discovered \in Nat
         /\ Listed(items'[s]) \in Nat
    BY <1>1, <2>1, <2>2 DEF CountersInv, Values, RowType, CountType, Counters, RowsType,
       ItemStatuses, Listed
  <2>12. QED
    BY <2>6, <2>8, <2>9, <2>10, <2>11
<1>2. Shapes /\ CountersInv /\ CountersInv' /\ [Next]_vars =>
        (\A s \in BatchIds :
           sessions[s].status = "running" /\ sessions'[s].status # "running"
             /\ loop'.stage = loop.stage
           => Listed(items'[s]) >= sessions[s].discovered)
  BY <1>1
<1>3. QED
  BY InitCounters, StepKeepsShapes, StepKeepsCounters, <1>2, PTL DEF Spec, SelfCompletedIsFull

DocType == [origin : Origins, file : Files, status : {"pending", "ready", "failed"}]
FolderType == [pc : {"idle", "running", "done", "failed"}, next : Nat, created : SUBSET DocType,
               fresh : SUBSET Files, items : RowsType, count : CountType]
LoopType == [stage : {"idle", "uploading", "finalizing"}, session : Answerable,
             initial : Seq(Uploads)]

(* The values of the other variables.                                      *)
OtherValues ==
    /\ plan \in Plans /\ docs \subseteq DocType
    /\ lock \in Uploads \cup {Importer, NoOne}
    /\ folder \in FolderType
    /\ shown \in [Uploads -> {"new", "queued", "uploading", "done", "error"}]
    /\ queue \in Seq(Uploads) /\ loop \in LoopType
    /\ failures \in 0..MaxFailures

(* Every upload has a content, and is no candidate of the folder.          *)
LEMMA UploadFacts ==
    ASSUME NEW u \in Uploads
    PROVE  FileOf(u) \in Files /\ u \in Origins /\ u \notin Candidates
<1>1. Batches \in Seq(Seq(Files) \ {<<>>})
  BY ImportAssumption
<1>2. PICK b \in BatchIds : u \in {b} \X DOMAIN Batches[b]
  BY DEF Uploads
<1>3. u[1] = b /\ u[2] \in DOMAIN Batches[b]
  BY <1>2
<1>4. Batches[b] \in Seq(Files)
  BY <1>1, <1>2 DEF BatchIds
<1>5. FileOf(u) \in Files
  BY <1>3, <1>4 DEF FileOf
<1>6. u \notin Candidates
  <2>1. ASSUME NEW i \in DOMAIN Folder, u = <<FolderSession, i>> PROVE FALSE
    <3>1. u[1] = FolderSession
      BY <2>1
    <3>2. QED
      BY <1>2, <1>3, <3>1, BatchFacts
  <2>2. QED
    BY <2>1 DEF Candidates
<1>7. QED
  BY <1>5, <1>6 DEF Origins

(* What an upload inserts and what a known document becomes are documents. *)
LEMMA DocFacts ==
    /\ \A o \in Origins, f \in Files : NewDoc(o, f) \in DocType
    /\ \A d \in DocType, st \in {"pending", "ready", "failed"} :
          /\ [d EXCEPT !.status = st] \in DocType
          /\ [d EXCEPT !.status = st].origin = d.origin
          /\ [d EXCEPT !.status = st].file = d.file
          /\ [d EXCEPT !.status = st].status = st
  BY DEF NewDoc, DocType

(* The documents only change by an upload's commit, by the folder's, and   *)
(* by ingestion.                                                           *)
LEMMA DocsChange ==
    ASSUME [Next]_vars
    PROVE  \/ docs' = docs \/ CommitFolder \/ Ingest
           \/ \E u \in Uploads : /\ Commit(u) /\ request[u].outcome = "created"
                                 /\ docs' = docs \cup {NewDoc(u, FileOf(u))}
           \/ \E d \in docs : docs' = (docs \ {d}) \cup {[d EXCEPT !.status = "pending"]}
<1>1. docs' = docs \/ CommitFolder \/ Ingest \/ \E u \in Uploads : Commit(u)
  BY DEF Next, EnqueueUploadBatch, NextTurn, EndLoop, FinalizeImportSession, Receive,
     Serve, Lookup, Register, ReadCounters, Rollback, ImportFolder, StartFolder,
     ImportCandidate, RollbackFolder, vars, database
<1>2. ASSUME NEW u \in Uploads, Commit(u)
      PROVE  \/ docs' = docs
             \/ request[u].outcome = "created" /\ docs' = docs \cup {NewDoc(u, FileOf(u))}
             \/ \E d \in docs : docs' = (docs \ {d}) \cup {[d EXCEPT !.status = "pending"]}
  <2>1. \/ docs' = docs
        \/ request[u].outcome = "created" /\ docs' = docs \cup {NewDoc(u, FileOf(u))}
        \/ \E d \in Preferred(FileOf(u), docs) : docs' = Reregister(d, docs)
    BY <1>2 DEF Commit
  <2>2. Preferred(FileOf(u), docs) \subseteq docs
    BY DEF Preferred, Known
  <2>3. QED
    BY <2>1, <2>2 DEF Reregister
<1>3. QED
  BY <1>1, <1>2

(* A candidate is recorded once, under one status, and registered only     *)
(* when this import has not registered its content yet.                    *)
LEMMA CandidateStep ==
    ASSUME OtherValues, ImportCandidate
    PROVE  LET i == folder.next IN
           /\ i \in DOMAIN Folder /\ folder'.next = i + 1
           /\ folder.pc = "running" /\ folder'.pc = "running"
           /\ \E st \in ItemStatuses :
                /\ folder'.items = [folder.items EXCEPT ![st] = @ + 1]
                /\ folder'.count = Incremented(folder.count, folder.count, st)
                /\ st = "failed" <=> Folder[i].kind = "vanished"
           /\ \/ folder'.created = folder.created
              \/ /\ ~Seen(Folder[i].file)
                 /\ folder'.created = folder.created
                                        \cup {NewDoc(<<FolderSession, i>>, Folder[i].file)}
           /\ folder'.fresh \in {folder.fresh, folder.fresh \cup {Folder[i].file}}
           /\ folder' \in FolderType
<1> DEFINE i == folder.next
           c == Folder[i]
           doc == NewDoc(<<FolderSession, i>>, c.file)
           known == Preferred(c.file, docs)
           fresh == IF known = {} THEN folder.fresh \cup {c.file} ELSE folder.fresh
<1>1. folder \in FolderType
  BY DEF OtherValues
<1>2. folder.pc = "running" /\ i \in DOMAIN Folder
  BY DEF ImportCandidate
<1>3. c.kind \in {"excluded", "file", "vanished"} /\ c.file \in Files /\ i \in Nat
  <2>1. Folder \in Seq([kind : {"excluded", "file", "vanished"}, file : Files])
    BY ImportAssumption
  <2>2. c \in [kind : {"excluded", "file", "vanished"}, file : Files]
    <3> DEFINE kinds == [kind : {"excluded", "file", "vanished"}, file : Files]
    <3> HIDE DEF kinds
    <3>1. Folder \in Seq(kinds)
      BY <2>1 DEF kinds
    <3>2. \A j \in DOMAIN Folder : Folder[j] \in kinds
      BY <3>1
    <3>3. QED
      BY <1>2, <3>2 DEF kinds
  <2>3. i \in Nat
    BY <1>1 DEF FolderType
  <2> HIDE DEF c, i
  <2>4. QED
    BY <2>2, <2>3
<1>4. doc \in DocType
  BY <1>2, <1>3, DocFacts DEF Origins, Candidates
<1>5. fresh \in SUBSET Files
  BY <1>1, <1>3 DEF FolderType
<1>6. ASSUME NEW st \in ItemStatuses
      PROVE  /\ Recorded(st) = [pc |-> folder.pc, next |-> i + 1, created |-> folder.created,
                                fresh |-> folder.fresh,
                                items |-> [folder.items EXCEPT ![st] = @ + 1],
                                count |-> Incremented(folder.count, folder.count, st)]
             /\ [folder.items EXCEPT ![st] = @ + 1] \in RowsType
             /\ Incremented(folder.count, folder.count, st) \in CountType
  <2>1. folder.items \in RowsType /\ folder.count \in CountType
    BY <1>1 DEF FolderType
  <2>2. [folder.items EXCEPT ![st] = @ + 1] \in RowsType
    BY <2>1 DEF RowsType
  <2>3. Incremented(folder.count, folder.count, st) \in CountType
    BY <2>1 DEF CountType, Incremented
  <2>4. folder = [pc |-> folder.pc, next |-> i, created |-> folder.created,
                  fresh |-> folder.fresh, items |-> folder.items, count |-> folder.count]
    BY <1>1 DEF FolderType
  <2> DEFINE rows == [folder.items EXCEPT ![st] = @ + 1]
             count == Incremented(folder.count, folder.count, st)
  <2>5. Recorded(st) = [folder EXCEPT !.next = i + 1, !.items = rows, !.count = count]
    BY DEF Recorded
  <2> HIDE DEF rows, count
  <2>6. Recorded(st) = [pc |-> folder.pc, next |-> i + 1, created |-> folder.created,
                        fresh |-> folder.fresh, items |-> rows, count |-> count]
    BY <2>4, <2>5
  <2>7. QED
    BY <2>2, <2>3, <2>6 DEF rows, count
<1>7. \/ c.kind = "excluded" /\ folder' = Recorded("skipped")
      \/ c.kind = "vanished" /\ folder' = Recorded("failed")
      \/ c.kind = "file" /\ folder' = Recorded("deduplicated")
      \/ /\ c.kind = "file" /\ ~Seen(c.file)
         /\ folder' = [Recorded("created") EXCEPT !.created = @ \cup {doc},
                         !.fresh = IF known = {} THEN @ \cup {c.file} ELSE @]
  BY DEF ImportCandidate
<1> HIDE DEF doc, known, c, fresh
<1>8. ASSUME NEW st \in ItemStatuses, folder' = Recorded(st),
             st = "failed" <=> c.kind = "vanished"
      PROVE  /\ folder'.next = i + 1 /\ folder'.pc = "running"
             /\ folder'.items = [folder.items EXCEPT ![st] = @ + 1]
             /\ folder'.count = Incremented(folder.count, folder.count, st)
             /\ folder'.created = folder.created /\ folder'.fresh = folder.fresh
             /\ folder' \in FolderType
  BY <1>1, <1>2, <1>3, <1>6, <1>8 DEF FolderType
<1>9. ASSUME c.kind = "file",
             folder' = [Recorded("created") EXCEPT !.created = @ \cup {doc},
                          !.fresh = IF known = {} THEN @ \cup {c.file} ELSE @]
      PROVE  /\ folder'.next = i + 1 /\ folder'.pc = "running"
             /\ folder'.items = [folder.items EXCEPT !["created"] = @ + 1]
             /\ folder'.count = Incremented(folder.count, folder.count, "created")
             /\ folder'.created = folder.created \cup {doc}
             /\ folder'.fresh = fresh
             /\ folder' \in FolderType
  <2>1. "created" \in ItemStatuses
    BY DEF ItemStatuses
  <2>2. folder' = [pc |-> folder.pc, next |-> i + 1, created |-> folder.created \cup {doc},
                   fresh |-> fresh,
                   items |-> [folder.items EXCEPT !["created"] = @ + 1],
                   count |-> Incremented(folder.count, folder.count, "created")]
    <3> DEFINE rows == [folder.items EXCEPT !["created"] = @ + 1]
               count == Incremented(folder.count, folder.count, "created")
    <3>1. Recorded("created") = [pc |-> folder.pc, next |-> i + 1, created |-> folder.created,
                                 fresh |-> folder.fresh, items |-> rows, count |-> count]
      BY <1>6, <2>1
    <3> HIDE DEF rows, count
    <3>2. folder' = [pc |-> folder.pc, next |-> i + 1, created |-> folder.created \cup {doc},
                     fresh |-> fresh, items |-> rows, count |-> count]
      <4> DEFINE r == [pc |-> folder.pc, next |-> i + 1, created |-> folder.created,
                       fresh |-> folder.fresh, items |-> rows, count |-> count]
      <4>1. folder' = [r EXCEPT !.created = @ \cup {doc},
                          !.fresh = IF known = {} THEN @ \cup {c.file} ELSE @]
        BY <1>9, <3>1
      <4>2. folder' = [r EXCEPT !.created = r.created \cup {doc},
                          !.fresh = IF known = {} THEN r.fresh \cup {c.file} ELSE r.fresh]
        BY <4>1
      <4>3. folder' = [r EXCEPT !.created = folder.created \cup {doc}, !.fresh = fresh]
        BY <4>2 DEF fresh
      <4>4. QED
        BY <4>3
    <3>3. QED
      BY <3>2 DEF rows, count
  <2>3. QED
    BY <1>1, <1>2, <1>3, <1>4, <1>5, <1>6, <2>1, <2>2 DEF FolderType
<1>11. CASE \E st \in ItemStatuses :
              folder' = Recorded(st) /\ (st = "failed" <=> c.kind = "vanished")
  <2>1. PICK st \in ItemStatuses :
              folder' = Recorded(st) /\ (st = "failed" <=> c.kind = "vanished")
    BY <1>11
  <2>2. QED
    BY <1>2, <1>8, <2>1 DEF c
<1>12. CASE /\ c.kind = "file" /\ ~Seen(c.file)
            /\ folder' = [Recorded("created") EXCEPT !.created = @ \cup {doc},
                            !.fresh = IF known = {} THEN @ \cup {c.file} ELSE @]
  <2>1. "created" \in ItemStatuses /\ ("created" = "failed" <=> c.kind = "vanished")
    BY <1>12 DEF ItemStatuses
  <2>2. fresh \in {folder.fresh, folder.fresh \cup {c.file}}
    BY DEF fresh
  <2>3. QED
    BY <1>2, <1>9, <1>12, <2>1, <2>2 DEF c, doc
<1>13. QED
  BY <1>7, <1>11, <1>12 DEF ItemStatuses

(* No step gives a variable another value than the code's.                 *)
LEMMA StepKeepsOtherValues ==
    ASSUME Values, OtherValues, [Next]_vars
    PROVE  OtherValues'
<1>1. /\ plan \in Plans /\ docs \subseteq DocType
      /\ lock \in Uploads \cup {Importer, NoOne}
      /\ folder \in FolderType
      /\ shown \in [Uploads -> {"new", "queued", "uploading", "done", "error"}]
      /\ queue \in Seq(Uploads) /\ loop \in LoopType
      /\ failures \in 0..MaxFailures
      /\ folder.items \in RowsType /\ folder.count \in CountType
  BY DEF OtherValues, FolderType
<1>2. plan' = plan
  BY DEF Next, EnqueueUploadBatch, NextTurn, EndLoop, FinalizeImportSession, Receive,
     Serve, Lookup, Register, ReadCounters, Commit, Rollback, ImportFolder, StartFolder,
     ImportCandidate, CommitFolder, RollbackFolder, Ingest, vars,
     UploadUnchanged, FolderUnchanged
<1>3. docs' \subseteq DocType
  <2>1. CASE docs' = docs
    BY <1>1, <2>1
  <2>2. CASE CommitFolder
    <3>1. folder.created \subseteq DocType
      BY <1>1 DEF FolderType
    <3>2. \A d \in docs : (IF d.status # "ready" /\ Seen(d.file)
                           THEN [d EXCEPT !.status = "pending"] ELSE d) \in DocType
      BY <1>1, DocFacts
    <3>3. QED
      BY <2>2, <3>1, <3>2 DEF CommitFolder
  <2>3. CASE Ingest
    <3>1. PICK d \in docs, result \in plan.results :
             docs' = (docs \ {d}) \cup {[d EXCEPT !.status = result]}
      BY <2>3 DEF Ingest
    <3>2. result \in {"ready", "failed"}
      BY <1>1, ImportAssumption
    <3>3. [d EXCEPT !.status = result] \in DocType
      BY <1>1, <3>2, DocFacts
    <3>4. QED
      BY <1>1, <3>1, <3>3
  <2>4. ASSUME NEW u \in Uploads, docs' = docs \cup {NewDoc(u, FileOf(u))}
        PROVE  docs' \subseteq DocType
    BY <1>1, <2>4, UploadFacts, DocFacts
  <2>5. ASSUME NEW d \in docs, docs' = (docs \ {d}) \cup {[d EXCEPT !.status = "pending"]}
        PROVE  docs' \subseteq DocType
    BY <1>1, <2>5, DocFacts
  <2>6. QED
    BY <2>1, <2>2, <2>3, <2>4, <2>5, DocsChange
<1>4. lock' \in Uploads \cup {Importer, NoOne}
  BY <1>1 DEF Next, EnqueueUploadBatch, NextTurn, EndLoop, FinalizeImportSession, Receive,
     Serve, Lookup, Register, ReadCounters, Commit, Rollback, ImportFolder, StartFolder,
     ImportCandidate, CommitFolder, RollbackFolder, Ingest, vars, database,
     UploadUnchanged, FolderUnchanged, Locked, Released
<1>5. folder' \in FolderType
  <2>1. CASE folder' = folder
    BY <1>1, <2>1
  <2>2. CASE ImportCandidate
    BY <2>2, CandidateStep
  <2>3. ASSUME NEW pc \in {"running", "done", "failed"}, folder' = [folder EXCEPT !.pc = pc]
        PROVE  folder' \in FolderType
    BY <1>1, <2>3 DEF FolderType
  <2>4. folder' = folder \/ ImportCandidate \/ StartFolder \/ CommitFolder \/ RollbackFolder
    BY DEF Next, EnqueueUploadBatch, NextTurn, EndLoop, FinalizeImportSession, Receive,
     Serve, Lookup, Register, ReadCounters, Commit, Rollback, ImportFolder, Ingest, vars,
     UploadUnchanged
  <2>5. QED
    BY <2>1, <2>2, <2>3, <2>4 DEF StartFolder, CommitFolder, RollbackFolder
<1>6. shown' \in [Uploads -> {"new", "queued", "uploading", "done", "error"}]
  <2>1. CASE shown' = shown
    BY <1>1, <2>1
  <2>2. ASSUME NEW b \in BatchIds, EnqueueUploadBatch(b)
        PROVE  shown' \in [Uploads -> {"new", "queued", "uploading", "done", "error"}]
    BY <1>1, <2>2 DEF EnqueueUploadBatch
  <2>3. CASE NextTurn
    BY <1>1, <2>3 DEF NextTurn
  <2>4. ASSUME NEW u \in Uploads, Receive(u)
        PROVE  shown' \in [Uploads -> {"new", "queued", "uploading", "done", "error"}]
    <3>1. shown' = [shown EXCEPT ![u] = "done"] \/ shown' = [shown EXCEPT ![u] = "error"]
      BY <2>4 DEF Receive
    <3>2. QED
      BY <1>1, <3>1
  <2>5. \/ shown' = shown \/ NextTurn
        \/ \E b \in BatchIds : EnqueueUploadBatch(b)
        \/ \E u \in Uploads : Receive(u)
    BY DEF Next, EndLoop, FinalizeImportSession, Serve, Lookup, Register, ReadCounters, Commit,
     Rollback, ImportFolder, StartFolder, ImportCandidate, CommitFolder, RollbackFolder, Ingest,
     vars, page, UploadUnchanged, FolderUnchanged
  <2>6. QED
    BY <2>1, <2>2, <2>3, <2>4, <2>5
<1>7. \A b \in BatchIds : ItemsOf(b) \in Seq(Uploads)
  <2> SUFFICES ASSUME NEW b \in BatchIds PROVE ItemsOf(b) \in Seq(Uploads)
    OBVIOUS
  <2>1. Batches \in Seq(Seq(Files) \ {<<>>})
    BY ImportAssumption
  <2>2. Batches[b] \in Seq(Files)
    BY <2>1 DEF BatchIds
  <2>3. Len(Batches[b]) \in Nat /\ DOMAIN Batches[b] = 1..Len(Batches[b])
    BY <2>2
  <2>4. \A i \in DOMAIN Batches[b] : <<b, i>> \in Uploads
    BY DEF Uploads
  <2>5. QED
    BY <2>3, <2>4 DEF ItemsOf
<1>8. queue' \in Seq(Uploads)
  <2>1. CASE queue' = queue
    BY <1>1, <2>1
  <2>2. ASSUME NEW b \in BatchIds, EnqueueUploadBatch(b)
        PROVE  queue' \in Seq(Uploads)
    BY <1>1, <1>7, <2>2 DEF EnqueueUploadBatch
  <2>3. ASSUME NEW u \in Uploads, queue' = Filter(queue, LAMBDA v : v # u)
        PROVE  queue' \in Seq(Uploads)
    <3>1. {i \in DOMAIN queue : queue[i] # u} \in SUBSET (DOMAIN queue)
      OBVIOUS
    <3>2. Places(queue, {i \in DOMAIN queue : queue[i] # u}) \in Seq(Uploads)
      BY <1>1, <3>1, PlacesOf
    <3>3. QED
      BY <2>3, <3>2 DEF Filter
  <2>4. \/ queue' = queue
        \/ \E b \in BatchIds : EnqueueUploadBatch(b)
        \/ \E u \in Uploads : queue' = Filter(queue, LAMBDA v : v # u)
    BY DEF Next, NextTurn, Receive, EndLoop, FinalizeImportSession, Serve, Lookup, Register,
     ReadCounters, Commit, Rollback, ImportFolder, StartFolder, ImportCandidate, CommitFolder,
     RollbackFolder, Ingest, vars, page, UploadUnchanged, FolderUnchanged
  <2>5. QED
    BY <2>1, <2>2, <2>3, <2>4
<1>9. loop' \in LoopType
  <2>1. CASE loop' = loop
    BY <1>1, <2>1
  <2>2. ASSUME NEW b \in BatchIds, EnqueueUploadBatch(b), loop' # loop
        PROVE  loop' \in LoopType
    <3>1. \E s \in {NoSession, b} :
             loop' = [stage |-> "uploading", initial |-> ItemsOf(b), session |-> s]
      BY <2>2 DEF EnqueueUploadBatch
    <3>2. QED
      BY <1>7, <3>1 DEF LoopType, Answerable
  <2>3. CASE NextTurn
    <3>1. loop.initial \in Seq(Uploads)
      BY <1>1 DEF LoopType
    <3>2. Lesser(Width, Len(loop.initial)) \in Nat
      BY <3>1, ImportAssumption DEF Lesser
    <3>3. SubSeq(loop.initial, Lesser(Width, Len(loop.initial)) + 1, Len(loop.initial)) \in Seq(Uploads)
      BY <3>1, <3>2
    <3>4. loop' = [loop EXCEPT !.initial = SubSeq(loop.initial, Lesser(Width, Len(loop.initial)) + 1,
                                                  Len(loop.initial))]
      BY <2>3 DEF NextTurn
    <3>5. QED
      BY <1>1, <3>3, <3>4 DEF LoopType
  <2>4. CASE EndLoop
    BY <1>1, <2>4 DEF EndLoop, LoopType
  <2>5. CASE FinalizeImportSession
    BY <1>1, <2>5 DEF FinalizeImportSession, LoopType, Answerable
  <2>6. loop' # loop =>
          NextTurn \/ EndLoop \/ FinalizeImportSession \/ \E b \in BatchIds : EnqueueUploadBatch(b)
    BY DEF Next, Receive, Serve, Lookup, Register, ReadCounters, Commit, Rollback, ImportFolder,
       StartFolder, ImportCandidate, CommitFolder, RollbackFolder, Ingest, vars, page,
       UploadUnchanged, FolderUnchanged
  <2>7. QED
    BY <2>1, <2>2, <2>3, <2>4, <2>5, <2>6
<1>10. failures' \in 0..MaxFailures
  <2>1. failures' = failures \/ Fail
    BY DEF Next, EnqueueUploadBatch, NextTurn, EndLoop, FinalizeImportSession, Receive,
     Serve, Lookup, Register, ReadCounters, Commit, Rollback, ImportFolder, StartFolder,
     ImportCandidate, CommitFolder, RollbackFolder, Ingest, vars,
     UploadUnchanged, FolderUnchanged
  <2>2. MaxFailures \in Nat
    BY ImportAssumption
  <2>3. QED
    BY <1>1, <2>1, <2>2 DEF Fail
<1>11. QED
  BY <1>1, <1>2, <1>3, <1>4, <1>5, <1>6, <1>8, <1>9, <1>10 DEF OtherValues

(* The values of every variable, in one invariant.                         *)
LEMMA TypesInvariant == Spec => [](CountersInv /\ OtherValues)
<1>1. Init => OtherValues
  <2> SUFFICES ASSUME Init PROVE OtherValues
    OBVIOUS
  <2>1. Zero \in CountType /\ NoItems \in RowsType
    BY DEF Zero, CountType, NoItems, RowsType
  <2>2. folder \in FolderType
    BY <2>1 DEF Init, FolderType
  <2>3. loop \in LoopType
    BY DEF Init, LoopType, Answerable
  <2>4. MaxFailures \in Nat
    BY ImportAssumption
  <2>5. QED
    BY <2>2, <2>3, <2>4 DEF Init, OtherValues
<1>2. CountersInv => Values
  BY DEF CountersInv
<1>3. CountersInv /\ OtherValues /\ [Next]_vars => OtherValues'
  BY <1>2, StepKeepsOtherValues
<1>4. QED
  BY <1>1, <1>3, InitCounters, StepKeepsShapes, StepKeepsCounters, PTL DEF Spec

(* Together they are the type invariant.                                   *)
LEMMA TypesAreTypeOK == CountersInv /\ OtherValues => TypeOK
  BY DEF CountersInv, Values, OtherValues, TypeOK, FolderType, LoopType, RowType, CountType,
     RowsType, RequestType, Answerable, DocType, Doc

(* The import has attempted the candidates before the next one, and failed *)
(* on those that vanished.                                                 *)
FolderTally ==
    /\ folder.next \in 1..(Len(Folder) + 1)
    /\ folder.count["attempted"] + 1 = folder.next
    /\ folder.count["failed"] > 0
         <=> \E i \in DOMAIN Folder : i < folder.next /\ Folder[i].kind = "vanished"

(* Its session is committed with what it counted, or is not there.         *)
FolderReport ==
    IF folder.pc = "done"
    THEN /\ sessions[FolderSession]
              = Finalized([NewSession(Len(Folder)) EXCEPT !.count = folder.count])
         /\ items[FolderSession] = folder.items
         /\ folder.next = Len(Folder) + 1
    ELSE sessions[FolderSession].status = "absent"

(* It registers a content once; nobody sees that before it commits.        *)
FolderCreates ==
    /\ \A d \in folder.created : d.origin \in Candidates
    /\ \A d, e \in folder.created : d.file = e.file => d = e
    /\ folder.pc # "done" => \A d \in docs : d.origin \notin Candidates

FolderInv == FolderTally /\ FolderReport /\ FolderCreates /\ FolderRegistersOnce

(* A candidate adds one to the attempts, and to the failures if it has     *)
(* vanished.                                                               *)
LEMMA CandidateKeepsTally ==
    ASSUME OtherValues, FolderTally, ImportCandidate
    PROVE  FolderTally'
<1> DEFINE i == folder.next
<1>1. /\ i \in DOMAIN Folder /\ folder'.next = i + 1
      /\ \E st \in ItemStatuses :
                /\ folder'.items = [folder.items EXCEPT ![st] = @ + 1]
                /\ folder'.count = Incremented(folder.count, folder.count, st)
                /\ st = "failed" <=> Folder[i].kind = "vanished"
  BY CandidateStep
<1>2. PICK st \in ItemStatuses :
                /\ folder'.count = Incremented(folder.count, folder.count, st)
                /\ st = "failed" <=> Folder[i].kind = "vanished"
  BY <1>1
<1>3. folder.count \in CountType /\ DOMAIN Folder = 1..Len(Folder) /\ Len(Folder) \in Nat
  BY ImportAssumption DEF OtherValues, FolderType
<1>4. "attempted" \in Counters /\ "failed" \in Counters /\ "failed" \in ItemStatuses
  BY DEF Counters, ItemStatuses
<1>5. /\ folder'.count["attempted"] = folder.count["attempted"] + 1
      /\ folder'.count["failed"] = IF st = "failed" THEN folder.count["failed"] + 1
                                   ELSE folder.count["failed"]
  BY <1>2, <1>4 DEF Incremented, Increments, ItemStatuses
<1>6. folder.count["attempted"] \in Nat /\ folder.count["failed"] \in Nat /\ i \in Nat
  BY <1>1, <1>3, <1>4 DEF CountType
<1>7. folder'.next \in 1..(Len(Folder) + 1) /\ folder'.count["attempted"] + 1 = folder'.next
  BY <1>1, <1>3, <1>5, <1>6 DEF FolderTally
<1>8. folder'.count["failed"] > 0
         <=> \E j \in DOMAIN Folder : j < folder'.next /\ Folder[j].kind = "vanished"
  <2>1. CASE st = "failed"
    <3>1. folder'.count["failed"] > 0
      BY <2>1, <1>5, <1>6
    <3>2. i < folder'.next /\ Folder[i].kind = "vanished"
      BY <2>1, <1>1, <1>2, <1>6
    <3>3. QED
      BY <3>1, <3>2, <1>1
  <2>2. CASE st # "failed"
    <3>1. Folder[i].kind # "vanished" /\ folder'.count["failed"] = folder.count["failed"]
      BY <2>2, <1>2, <1>5
    <3>2. \A j \in DOMAIN Folder : j < i + 1 <=> j < i \/ j = i
      BY <1>3, <1>6
    <3>3. folder.count["failed"] > 0
            <=> \E j \in DOMAIN Folder : j < i /\ Folder[j].kind = "vanished"
      BY DEF FolderTally
    <3>4. QED
      BY <1>1, <3>1, <3>2, <3>3
  <2>3. QED
    BY <2>1, <2>2
<1>9. QED
  BY <1>7, <1>8 DEF FolderTally

(* Only the folder's commit writes the session of the folder.              *)
LEMMA FolderSessionChange ==
    ASSUME CountersInv, OtherValues, [Next]_vars, ~CommitFolder
    PROVE  sessions'[FolderSession] = sessions[FolderSession]
           /\ items'[FolderSession] = items[FolderSession]
<1>1. /\ sessions \in [SessionIds -> RowType] /\ items \in [SessionIds -> RowsType]
      /\ request \in [Uploads -> RequestType]
  BY DEF CountersInv, Values
<1>2. ASSUME NEW b \in BatchIds, EnqueueUploadBatch(b)
      PROVE  sessions'[FolderSession] = sessions[FolderSession] /\ items' = items
  <2>1. sessions' = sessions \/ sessions' = [sessions EXCEPT ![b] = NewSession(Len(Batches[b]))]
    BY <1>2 DEF EnqueueUploadBatch
  <2>2. QED
    BY <1>1, <1>2, <2>1, BatchFacts DEF EnqueueUploadBatch
<1>3. CASE FinalizeImportSession
  <2>1. loop.session # FolderSession
    BY BatchFacts DEF OtherValues, LoopType, Answerable
  <2>2. sessions' = sessions \/ sessions' = [sessions EXCEPT ![loop.session] = Finalized(@)]
    BY <1>3 DEF FinalizeImportSession
  <2>3. QED
    BY <1>1, <1>3, <2>1, <2>2, BatchFacts DEF FinalizeImportSession
<1>4. ASSUME NEW u \in Uploads, Commit(u)
      PROVE  sessions'[FolderSession] = sessions[FolderSession]
             /\ items'[FolderSession] = items[FolderSession]
  <2> DEFINE s == request[u].session
  <2>1. s # FolderSession
    BY <1>1, BatchFacts DEF RequestType, Answerable
  <2>2. CASE s = NoSession
    BY <1>4, <2>2 DEF Commit
  <2>3. CASE s # NoSession
    <3>1. /\ \E row : sessions' = [sessions EXCEPT ![s] = row]
          /\ \E rows : items' = [items EXCEPT ![s] = rows]
      BY <1>4, <2>3 DEF Commit
    <3> HIDE DEF s
    <3>2. QED
      BY <1>1, <2>1, <3>1, BatchFacts
  <2>4. QED
    BY <2>2, <2>3
<1>5. \/ sessions' = sessions /\ items' = items
      \/ FinalizeImportSession
      \/ \E b \in BatchIds : EnqueueUploadBatch(b)
      \/ \E u \in Uploads : Commit(u)
  BY DEF Next, NextTurn, Receive, EndLoop, Serve, Lookup, Register, ReadCounters, Rollback,
     ImportFolder, StartFolder, ImportCandidate, RollbackFolder, Ingest, vars, database,
     UploadUnchanged, FolderUnchanged
<1>6. CASE FinalizeImportSession
  <2>1. items' = items
    BY <1>6 DEF FinalizeImportSession
  <2>2. QED
    BY <1>3, <1>6, <2>1
<1>7. QED
  BY <1>2, <1>4, <1>5, <1>6

(* What a step does to the folder import.                                  *)
LEMMA FolderChange ==
    ASSUME [Next]_vars
    PROVE  \/ folder' = folder \/ ImportCandidate \/ CommitFolder
           \/ /\ folder.pc \in {"idle", "running"}
              /\ \E pc \in {"running", "failed"} : folder' = [folder EXCEPT !.pc = pc]
  BY DEF Next, EnqueueUploadBatch, NextTurn, EndLoop, FinalizeImportSession, Receive, Serve,
     Lookup, Register, ReadCounters, Commit, Rollback, ImportFolder, StartFolder, RollbackFolder,
     Ingest, vars, UploadUnchanged

(* The report stays what the import counted.                               *)
LEMMA StepKeepsReport ==
    ASSUME CountersInv, OtherValues, FolderTally, FolderReport, [Next]_vars
    PROVE  FolderTally' /\ FolderReport'
<1>1. folder \in FolderType /\ sessions \in [SessionIds -> RowType]
      /\ items \in [SessionIds -> RowsType]
  BY DEF OtherValues, CountersInv, Values
<1>2. CASE ImportCandidate
  <2>1. FolderTally'
    BY <1>2, CandidateKeepsTally
  <2>2. folder.pc = "running" /\ folder'.pc = "running"
    BY <1>2, CandidateStep
  <2>3. sessions' = sessions
    BY <1>2 DEF ImportCandidate, database
  <2>4. QED
    BY <2>1, <2>2, <2>3 DEF FolderReport
<1>3. CASE CommitFolder
  <2> DEFINE row == Finalized([NewSession(Len(Folder)) EXCEPT !.count = folder.count])
  <2>1. /\ folder.next > Len(Folder) /\ folder' = [folder EXCEPT !.pc = "done"]
        /\ sessions' = [sessions EXCEPT ![FolderSession] = row]
        /\ items' = [items EXCEPT ![FolderSession] = folder.items]
    BY <1>3 DEF CommitFolder
  <2>2. /\ folder'.pc = "done" /\ folder'.next = folder.next /\ folder'.count = folder.count
        /\ folder'.items = folder.items
    BY <1>1, <2>1 DEF FolderType
  <2>3. FolderTally'
    BY <2>2 DEF FolderTally
  <2>4. folder.next = Len(Folder) + 1
    BY <2>1, ImportAssumption DEF FolderTally
  <2> HIDE DEF row
  <2>5. sessions'[FolderSession] = row /\ items'[FolderSession] = folder.items
    BY <1>1, <2>1, BatchFacts
  <2>6. QED
    BY <2>2, <2>3, <2>4, <2>5 DEF FolderReport, row
<1>4. CASE folder' = folder \/ /\ folder.pc \in {"idle", "running"}
                               /\ \E pc \in {"running", "failed"} :
                                     folder' = [folder EXCEPT !.pc = pc]
  <2>1. CASE CommitFolder
    BY <1>3, <2>1
  <2>2. CASE ~CommitFolder
    <3>1. /\ folder'.next = folder.next /\ folder'.count = folder.count
          /\ folder'.items = folder.items /\ (folder.pc = "done" <=> folder'.pc = "done")
      BY <1>1, <1>4 DEF FolderType
    <3>2. sessions'[FolderSession] = sessions[FolderSession]
          /\ items'[FolderSession] = items[FolderSession]
      BY <2>2, FolderSessionChange
    <3>3. QED
      BY <3>1, <3>2 DEF FolderTally, FolderReport
  <2>3. QED
    BY <2>1, <2>2
<1>5. QED
  BY <1>2, <1>3, <1>4, FolderChange

(* A content is registered once by one import.                             *)
LEMMA StepKeepsCreates ==
    ASSUME CountersInv, OtherValues, FolderCreates, FolderRegistersOnce, [Next]_vars
    PROVE  FolderCreates' /\ FolderRegistersOnce'
<1>1. /\ folder \in FolderType /\ docs \subseteq DocType /\ docs' \subseteq DocType
      /\ plan \in Plans
  <2>1. Values
    BY DEF CountersInv
  <2>2. OtherValues'
    BY <2>1, StepKeepsOtherValues
  <2>3. QED
    BY <2>2 DEF OtherValues
<1>2. /\ \A d \in folder'.created : d.origin \in Candidates
      /\ \A d, e \in folder'.created : d.file = e.file => d = e
  <2>1. CASE folder'.created = folder.created
    BY <2>1 DEF FolderCreates
  <2>2. CASE folder'.created # folder.created
    <3>1. ImportCandidate
      BY <1>1, <2>2, FolderChange DEF FolderType, CommitFolder
    <3> DEFINE f == Folder[folder.next].file
               new == NewDoc(<<FolderSession, folder.next>>, f)
    <3>2. ~Seen(f) /\ folder'.created = folder.created \cup {new}
      BY <2>2, <3>1, CandidateStep
    <3>3. new.file = f /\ new.origin \in Candidates
      <4>1. folder.next \in DOMAIN Folder
        BY <3>1 DEF ImportCandidate
      <4>2. QED
        BY <4>1 DEF NewDoc, Candidates
    <3> HIDE DEF new, f
    <3>4. QED
      BY <3>2, <3>3 DEF Seen, FolderCreates
  <2>3. QED
    BY <2>1, <2>2
<1>3. ASSUME NEW d \in docs, NEW st \in {"pending", "ready", "failed"},
             docs' = (docs \ {d}) \cup {[d EXCEPT !.status = st]}
      PROVE  /\ (\A e \in docs : e.origin \notin Candidates)
                  => \A e \in docs' : e.origin \notin Candidates
             /\ FolderRegistersOnce'
  <2> DEFINE new == [d EXCEPT !.status = st]
  <2>1. new.origin = d.origin /\ new.file = d.file
    BY <1>1, DocFacts
  <2> HIDE DEF new
  <2>2. docs' = (docs \ {d}) \cup {new}
    BY <1>3 DEF new
  <2>3. QED
    BY <2>1, <2>2 DEF FolderRegistersOnce
<1>4. ASSUME NEW u \in Uploads, docs' = docs \cup {NewDoc(u, FileOf(u))}
      PROVE  /\ (\A e \in docs : e.origin \notin Candidates)
                  => \A e \in docs' : e.origin \notin Candidates
             /\ FolderRegistersOnce'
  <2>1. NewDoc(u, FileOf(u)).origin = u
    BY DEF NewDoc
  <2>2. u \notin Candidates
    BY UploadFacts
  <2>3. QED
    BY <1>4, <2>1, <2>2 DEF FolderRegistersOnce
<1>5. CASE CommitFolder
  <2>1. folder.pc = "running" /\ folder' = [folder EXCEPT !.pc = "done"]
    BY <1>5 DEF CommitFolder
  <2>2. folder'.pc = "done"
    BY <1>1, <2>1 DEF FolderType
  <2> DEFINE old == {IF d.status # "ready" /\ Seen(d.file)
                     THEN [d EXCEPT !.status = "pending"] ELSE d : d \in docs}
  <2>3. \A d \in old : d.origin \notin Candidates
    <3>1. \A d \in docs : d.origin \notin Candidates
      BY <2>1 DEF FolderCreates
    <3>2. \A d \in docs : [d EXCEPT !.status = "pending"].origin = d.origin
      BY <1>1, DocFacts
    <3>3. QED
      BY <3>1, <3>2
  <2> HIDE DEF old
  <2>4. docs' = old \cup {d \in folder.created : d.file \in folder.fresh}
    BY <1>5 DEF CommitFolder, old
  <2>5. FolderRegistersOnce'
    BY <2>3, <2>4 DEF FolderRegistersOnce, FolderCreates
  <2>6. QED
    BY <1>2, <2>2, <2>5 DEF FolderCreates
<1>6. CASE ~CommitFolder
  <2>1. folder'.pc # "done" => folder.pc # "done"
    <3>1. ImportCandidate => folder.pc = "running"
      BY DEF ImportCandidate
    <3>2. QED
      BY <1>1, <1>6, <3>1, FolderChange DEF FolderType
  <2>2. /\ (\A e \in docs : e.origin \notin Candidates)
             => \A e \in docs' : e.origin \notin Candidates
        /\ FolderRegistersOnce'
    <3>1. CASE docs' = docs
      BY <3>1 DEF FolderRegistersOnce
    <3>2. CASE Ingest
      <4>1. PICK d \in docs, result \in plan.results :
               docs' = (docs \ {d}) \cup {[d EXCEPT !.status = result]}
        BY <3>2 DEF Ingest
      <4>2. result \in {"pending", "ready", "failed"}
        BY <1>1, ImportAssumption
      <4>3. QED
        BY <1>3, <4>1, <4>2
    <3>3. CASE \E u \in Uploads : docs' = docs \cup {NewDoc(u, FileOf(u))}
      BY <1>4, <3>3
    <3>4. CASE \E d \in docs : docs' = (docs \ {d}) \cup {[d EXCEPT !.status = "pending"]}
      BY <1>3, <3>4
    <3>5. QED
      BY <1>6, <3>1, <3>2, <3>3, <3>4, DocsChange
  <2>3. QED
    BY <1>2, <2>1, <2>2 DEF FolderCreates
<1>7. QED
  BY <1>5, <1>6

(* The folder's invariant holds throughout.                                *)
LEMMA FolderInvariant == Spec => []FolderInv
<1>1. Init => FolderInv
  <2> SUFFICES ASSUME Init PROVE FolderInv
    OBVIOUS
  <2>1. folder.next = 1 /\ folder.count = Zero /\ folder.created = {} /\ folder.pc = "idle"
    BY DEF Init
  <2>2. Len(Folder) \in Nat /\ DOMAIN Folder = 1..Len(Folder)
    BY ImportAssumption
  <2>3. Zero["attempted"] = 0 /\ Zero["failed"] = 0
    BY DEF Zero, Counters
  <2>4. FolderTally
    BY <2>1, <2>2, <2>3 DEF FolderTally
  <2>5. sessions[FolderSession].status = "absent"
    BY BatchFacts DEF Init, NoRow
  <2>6. docs = {}
    BY DEF Init
  <2>7. FolderReport
    BY <2>1, <2>5 DEF FolderReport
  <2>8. FolderCreates /\ FolderRegistersOnce
    BY <2>1, <2>6 DEF FolderCreates, FolderRegistersOnce
  <2>9. QED
    BY <2>4, <2>7, <2>8 DEF FolderInv
<1>2. CountersInv /\ OtherValues /\ FolderInv /\ [Next]_vars => FolderInv'
  BY StepKeepsReport, StepKeepsCreates DEF FolderInv
<1>3. QED
  BY <1>1, <1>2, TypesInvariant, PTL DEF Spec

(* The folder's report adds up, because its session carries what the       *)
(* import counted over every candidate, under exact counters.              *)
LEMMA ReportAddsUp ==
    ASSUME CountersInv, OtherValues, FolderInv
    PROVE  FolderTotalsAddUp
<1> DEFINE row == sessions[FolderSession]
           n == row.count
<1> SUFFICES ASSUME row.status # "absent"
             PROVE  /\ row.discovered = n["attempted"] /\ n["attempted"] = Listed(n)
                    /\ items[FolderSession] = [st \in ItemStatuses |-> n[st]]
                    /\ row.status = "completed_with_errors"
                         <=> \E i \in DOMAIN Folder : Folder[i].kind = "vanished"
  BY DEF FolderTotalsAddUp
<1>1. folder.items \in RowsType /\ folder.count \in CountType /\ Exact(folder.count, folder.items)
  BY DEF CountersInv, Values, FolderExact
<1>2. /\ row = Finalized([NewSession(Len(Folder)) EXCEPT !.count = folder.count])
      /\ items[FolderSession] = folder.items /\ folder.next = Len(Folder) + 1
  BY DEF FolderInv, FolderReport
<1>3. /\ n = folder.count /\ row.discovered = Len(Folder)
      /\ row.status = IF folder.count["failed"] > 0 THEN "completed_with_errors" ELSE "completed"
  BY <1>2 DEF Finalized, NewSession
<1> HIDE DEF row, n
<1>4. Len(Folder) \in Nat /\ DOMAIN Folder = 1..Len(Folder)
  BY ImportAssumption
<1>5. "attempted" \in Counters /\ folder.count["attempted"] \in Nat
  BY <1>1 DEF Counters, CountType
<1>6. row.discovered = n["attempted"]
  BY <1>2, <1>3, <1>4, <1>5 DEF FolderInv, FolderTally
<1>7. n["attempted"] = Listed(n)
  BY <1>1, <1>3 DEF Exact, Listed, ItemStatuses
<1>8. items[FolderSession] = [st \in ItemStatuses |-> n[st]]
  BY <1>1, <1>2, <1>3 DEF Exact, RowsType
<1>9. row.status = "completed_with_errors" <=> \E i \in DOMAIN Folder : Folder[i].kind = "vanished"
  <2>1. \A i \in DOMAIN Folder : i < folder.next
    BY <1>2, <1>4
  <2>2. row.status = "completed_with_errors" <=> folder.count["failed"] > 0
    BY <1>3
  <2>3. QED
    BY <2>1, <2>2 DEF FolderInv, FolderTally
<1>10. QED
  BY <1>6, <1>7, <1>8, <1>9

(* import_local_folder beside any number of uploads: every candidate is    *)
(* attempted once and reported under one outcome, and a content that the   *)
(* folder has twice is registered once.                                    *)
THEOREM FoldersAreSound == Spec => []FolderIsSound
<1>1. CountersInv /\ OtherValues /\ FolderInv => FolderIsSound
  BY TypesAreTypeOK, ReportAddsUp DEF FolderInv, FolderIsSound
<1>2. QED
  BY <1>1, TypesInvariant, FolderInvariant, PTL

(* A queued upload has no request yet, and has added no document.          *)
QueuedIsUnsent ==
    \A u \in Uploads :
        /\ shown[u] \in {"new", "queued"} => request[u].pc = "idle"
        /\ shown[u] \in {"new", "queued"} => \A d \in docs : d.origin # u

(* From when its content is known, a request cannot take it for new.       *)
Recognized(u) ==
    /\ \E d \in docs : d.file = FileOf(u)
    /\ \A d \in docs : d.origin # u
    /\ request[u].pc # "new"
    /\ request[u].pc = "counted" => request[u].outcome = "deduplicated"

(* Documents keep their contents and origins; an upload's commit adds one. *)
LEMMA DocsStay ==
    ASSUME OtherValues, FolderCreates, [Next]_vars, NEW u \in Uploads
    PROVE  /\ \A f : (\E d \in docs : d.file = f) => \E d \in docs' : d.file = f
           /\ \/ Commit(u) /\ request[u].outcome = "created"
              \/ (\A d \in docs : d.origin # u) => \A d \in docs' : d.origin # u
<1>1. /\ docs \subseteq DocType /\ folder \in FolderType /\ plan \in Plans
  BY DEF OtherValues
<1>2. ASSUME NEW d \in docs, NEW st \in {"pending", "ready", "failed"},
             docs' = (docs \ {d}) \cup {[d EXCEPT !.status = st]}
      PROVE  /\ \A f : (\E e \in docs : e.file = f) => \E e \in docs' : e.file = f
             /\ (\A e \in docs : e.origin # u) => \A e \in docs' : e.origin # u
  <2> DEFINE new == [d EXCEPT !.status = st]
  <2>1. new.origin = d.origin /\ new.file = d.file
    BY <1>1, DocFacts
  <2> HIDE DEF new
  <2>2. docs' = (docs \ {d}) \cup {new}
    BY <1>2 DEF new
  <2>3. QED
    BY <2>1, <2>2
<1>3. CASE docs' = docs
  BY <1>3
<1>4. CASE CommitFolder
  <2> DEFINE reset(d) == IF d.status # "ready" /\ Seen(d.file)
                         THEN [d EXCEPT !.status = "pending"] ELSE d
  <2>1. \A d \in docs : reset(d).file = d.file /\ reset(d).origin = d.origin
    BY <1>1, DocFacts
  <2>2. docs' = {reset(d) : d \in docs} \cup {d \in folder.created : d.file \in folder.fresh}
    BY <1>4 DEF CommitFolder
  <2>3. \A d \in folder.created : d.origin # u
    BY UploadFacts DEF FolderCreates
  <2> HIDE DEF reset
  <2>4. QED
    BY <2>1, <2>2, <2>3
<1>5. CASE Ingest
  <2>1. PICK d \in docs, result \in plan.results :
           docs' = (docs \ {d}) \cup {[d EXCEPT !.status = result]}
    BY <1>5 DEF Ingest
  <2>2. result \in {"pending", "ready", "failed"}
    BY <1>1, ImportAssumption
  <2>3. QED
    BY <1>2, <2>1, <2>2
<1>6. ASSUME NEW v \in Uploads, Commit(v), request[v].outcome = "created",
             docs' = docs \cup {NewDoc(v, FileOf(v))}
      PROVE  /\ \A f : (\E d \in docs : d.file = f) => \E d \in docs' : d.file = f
             /\ \/ Commit(u) /\ request[u].outcome = "created"
                \/ (\A d \in docs : d.origin # u) => \A d \in docs' : d.origin # u
  <2>1. NewDoc(v, FileOf(v)).origin = v
    BY DEF NewDoc
  <2>2. QED
    BY <1>6, <2>1
<1>7. CASE \E d \in docs : docs' = (docs \ {d}) \cup {[d EXCEPT !.status = "pending"]}
  BY <1>2, <1>7
<1>8. QED
  BY <1>3, <1>4, <1>5, <1>6, <1>7, DocsChange

(* What a step does to the requests and to what the page shows of them.    *)
LEMMA RequestChange ==
    ASSUME Values, OtherValues, [Next]_vars, NEW u \in Uploads
    PROVE  \/ /\ request'[u] = request[u]
              /\ shown'[u] \in {"new", "queued"} => shown[u] \in {"new", "queued"}
           \/ NextTurn /\ request'[u].pc = "arrived" /\ shown'[u] = "uploading"
           \/ /\ shown' = shown /\ request[u].pc # "idle"
              /\ \/ Lookup(u) /\ request'[u].pc \in {"known", "unknown"}
                 \/ /\ Register(u)
                    /\ request'[u].pc = IF Known(FileOf(u), docs) # {} THEN "again" ELSE "new"
                 \/ /\ ReadCounters(u) /\ request'[u].pc = "counted"
                    /\ request[u].pc # "new" => request'[u].outcome = "deduplicated"
                 \/ Commit(u) /\ request'[u].pc = "answered"
                 \/ Rollback(u) /\ request'[u].pc = "failed"
<1>1. /\ request \in [Uploads -> RequestType]
      /\ shown \in [Uploads -> {"new", "queued", "uploading", "done", "error"}]
  BY DEF Values, OtherValues
<1>2. CASE request' = request /\ shown' = shown
  BY <1>2
<1>3. CASE NextTurn
  <2>1. CASE InWave(u)
    <3>1. request'[u].pc = "arrived" /\ shown'[u] = "uploading"
      BY <1>1, <1>3, <2>1 DEF NextTurn, RequestType
    <3>2. QED
      BY <1>3, <3>1
  <2>2. CASE ~InWave(u)
    BY <1>1, <1>3, <2>2 DEF NextTurn
  <2>3. QED
    BY <2>1, <2>2
<1>4. CASE \E b \in BatchIds : EnqueueUploadBatch(b)
  BY <1>1, <1>4 DEF EnqueueUploadBatch
<1>5. CASE \E v \in Uploads : Receive(v)
  <2>1. PICK v \in Uploads : Receive(v)
    BY <1>5
  <2>2. request' = request
        /\ (shown' = [shown EXCEPT ![v] = "done"] \/ shown' = [shown EXCEPT ![v] = "error"])
    BY <2>1 DEF Receive
  <2>3. QED
    BY <1>1, <2>2
<1>6. ASSUME NEW v \in Uploads, Serve(v) \/ Rollback(v), v # u
      PROVE  request'[u] = request[u] /\ shown' = shown
  <2>1. shown' = shown /\ \E r : request' = [request EXCEPT ![v] = r]
    BY <1>6 DEF Serve, Lookup, Register, ReadCounters, Commit, Rollback, UploadUnchanged, page
  <2>2. QED
    BY <1>1, <1>6, <2>1
<1>7. CASE Lookup(u)
  <2>1. shown' = shown /\ request[u].pc = "arrived"
    BY <1>7 DEF Lookup, UploadUnchanged, page, At
  <2>2. request'[u].pc \in {"known", "unknown"}
    BY <1>1, <1>7 DEF Lookup, RequestType
  <2>3. QED
    BY <1>7, <2>1, <2>2
<1>8. CASE Register(u)
  <2>1. shown' = shown /\ request[u].pc = "unknown"
    BY <1>8 DEF Register, UploadUnchanged, page, At
  <2>2. request'[u].pc = IF Known(FileOf(u), docs) # {} THEN "again" ELSE "new"
    BY <1>1, <1>8 DEF Register, RequestType
  <2>3. QED
    BY <1>8, <2>1, <2>2
<1>9. CASE ReadCounters(u)
  <2>1. shown' = shown /\ request[u].pc \in {"known", "again", "new"}
    BY <1>9 DEF ReadCounters, UploadUnchanged, page
  <2>2. /\ request'[u].pc = "counted"
        /\ request'[u].outcome = IF request[u].pc = "new" THEN "created" ELSE "deduplicated"
    BY <1>1, <1>9 DEF ReadCounters, RequestType
  <2>3. QED
    BY <1>9, <2>1, <2>2
<1>10. CASE Commit(u)
  <2>1. shown' = shown /\ request[u].pc = "counted" /\ request'[u].pc = "answered"
    BY <1>1, <1>10 DEF Commit, UploadUnchanged, page, At, RequestType
  <2>2. QED
    BY <1>10, <2>1
<1>11. CASE Rollback(u)
  <2>1. shown' = shown /\ request[u].pc # "idle" /\ request'[u].pc = "failed"
    BY <1>1, <1>11 DEF Rollback, UploadUnchanged, page, RequestType
  <2>2. QED
    BY <1>11, <2>1
<1>12. \/ request' = request /\ shown' = shown
       \/ NextTurn \/ (\E b \in BatchIds : EnqueueUploadBatch(b))
       \/ \E v \in Uploads : Receive(v) \/ Serve(v) \/ Rollback(v)
  BY DEF Next, EndLoop, FinalizeImportSession, ImportFolder, StartFolder, ImportCandidate,
     CommitFolder, RollbackFolder, Ingest, vars, page, UploadUnchanged, FolderUnchanged
<1>13. CASE \E v \in Uploads : Serve(v) \/ Rollback(v)
  BY <1>6, <1>7, <1>8, <1>9, <1>10, <1>11, <1>13 DEF Serve
<1>14. QED
  BY <1>2, <1>3, <1>4, <1>5, <1>12, <1>13

(* Nothing is sent for an upload before its turn.                          *)
LEMMA UnsentInvariant == Spec => []QueuedIsUnsent
<1>1. Init => QueuedIsUnsent
  BY DEF Init, QueuedIsUnsent
<1>2. ASSUME CountersInv, OtherValues, FolderInv, QueuedIsUnsent, [Next]_vars
      PROVE  QueuedIsUnsent'
  <2> SUFFICES ASSUME NEW u \in Uploads, shown'[u] \in {"new", "queued"}
               PROVE  request'[u].pc = "idle" /\ \A d \in docs' : d.origin # u
    BY DEF QueuedIsUnsent
  <2>1. Values
    BY <1>2 DEF CountersInv
  <2>2. \/ request'[u] = request[u] /\ shown[u] \in {"new", "queued"}
        \/ request[u].pc # "idle" /\ shown' = shown
    BY <1>2, <2>1, RequestChange
  <2>3. request'[u] = request[u] /\ shown[u] \in {"new", "queued"}
    BY <1>2, <2>2 DEF QueuedIsUnsent
  <2>4. request[u].pc = "idle" /\ \A d \in docs : d.origin # u
    BY <1>2, <2>3 DEF QueuedIsUnsent
  <2>5. ~Commit(u)
    BY <2>4 DEF Commit, At
  <2>6. FolderCreates
    BY <1>2 DEF FolderInv
  <2>7. QED
    BY <1>2, <2>3, <2>4, <2>5, <2>6, DocsStay
<1>3. QED
  BY <1>1, <1>2, TypesInvariant, FolderInvariant, PTL DEF Spec

(* Once its content is known, a request goes on taking it for known: both  *)
(* lookups see what is committed.                                          *)
LEMMA StepKeepsRecognized ==
    ASSUME CountersInv, OtherValues, FolderInv, [Next]_vars,
           NEW u \in Uploads, Recognized(u)
    PROVE  Recognized(u)'
<1>1. Values /\ FolderCreates
  BY DEF CountersInv, FolderInv
<1>2. \E d \in docs' : d.file = FileOf(u)
  BY <1>1, DocsStay DEF Recognized
<1>3. \A d \in docs' : d.origin # u
  <2>1. ~(Commit(u) /\ request[u].outcome = "created")
    BY DEF Recognized, Commit, At
  <2>2. QED
    BY <1>1, <2>1, DocsStay DEF Recognized
<1>4. Known(FileOf(u), docs) # {}
  BY DEF Recognized, Known
<1>5. /\ request'[u].pc # "new"
      /\ request'[u].pc = "counted" => request'[u].outcome = "deduplicated"
  BY <1>1, <1>4, RequestChange DEF Recognized
<1>6. QED
  BY <1>2, <1>3, <1>5 DEF Recognized

(* Of two uploads of one content the later adds no document, unless both   *)
(* are on their way together (upload_document and register look it up).    *)
THEOREM LaterCopiesRecognized == Spec => LaterCopiesAreRecognized
<1> SUFFICES ASSUME NEW u \in Uploads
             PROVE  Spec => [](shown[u] = "queued" /\ (\E d \in docs : d.file = FileOf(u))
                                => [](\A d \in docs : d.origin # u))
  BY DEF LaterCopiesAreRecognized
<1>1. QueuedIsUnsent /\ shown[u] = "queued" /\ (\E d \in docs : d.file = FileOf(u))
        => Recognized(u)
  BY DEF QueuedIsUnsent, Recognized
<1>2. CountersInv /\ OtherValues /\ FolderInv /\ [Next]_vars /\ Recognized(u) => Recognized(u)'
  BY StepKeepsRecognized
<1>3. Recognized(u) => \A d \in docs : d.origin # u
  BY DEF Recognized
<1>4. QED
  BY <1>1, <1>2, <1>3, TypesInvariant, FolderInvariant, UnsentInvariant, PTL DEF Spec

-----------------------------------------------------------------------------
(***************************************************************************)
(* The page that asks questions.                                           *)
(***************************************************************************)
Pair(n) == [id : 1..n, text : Texts \cup {"none"}]
Shown(n) == [id : 1..n, text : Texts \cup {"none"}, pending : BOOLEAN]
Asked(n) == [id : 1..n, text : Texts \cup {"none"}, chat : Chats, stored : BOOLEAN]
Submission(n) == [stage : {"none", "creating", "sent", "recovering"}, id : 0..n,
                  text : Texts \cup {"none"}, chat : Chats \cup {NoChat},
                  coll : Collections \cup {"none"}, polls : 0..MaxPolls]
Fetch(n) == [stage : {"none", "asked", "read"}, got : Seq(Pair(n))]

(* The values of the variables: no number is in use that no question has.  *)
PageValues ==
    /\ asks \in 0..MaxAsks /\ moves \in 0..MaxMoves /\ coll \in Collections
    /\ activeChat \in Chats \cup {NoChat} /\ chats \subseteq Chats
    /\ activeTurn \in 0..asks
    /\ messages \in [Chats -> Seq(Pair(asks))]
    /\ work \subseteq Asked(asks)
    /\ turns \in Seq(Shown(asks))
    /\ ask \in Submission(asks)
    /\ fetch \in Fetch(asks)

FetchHasChat == fetch.stage # "none" => activeChat # NoChat

Asking == ask.stage \in {"sent", "recovering"}

(* What is answered under the number of the submission is its question.    *)
WorkIsAsked ==
    Asking => \A w \in work : w.id = ask.id => w.text = ask.text /\ w.chat = ask.chat

(* Every pair of messages was stored by the answer to its question.        *)
PairsAreStored ==
    \A c \in Chats : \A i \in DOMAIN messages[c] :
        \E w \in work : /\ w.stored /\ w.chat = c
                        /\ w.id = messages[c][i].id /\ w.text = messages[c][i].text

(* A chat is created for one of the questions left.                        *)
CreatingLeavesRoom == ask.stage = "creating" => asks < MaxAsks

PageInv ==
    /\ PageValues /\ FetchHasChat /\ CreatingLeavesRoom
    /\ WorkIsAsked /\ PairsAreStored /\ PendingMeansAsking

(* Chats being deleted were listed at the click that deletes them.         *)
Closure == [chat : Chats, active : Chats \cup {NoChat}, listed : SUBSET Chats, done : BOOLEAN]

ClosuresInv == \A d \in deletions : d \in Closure /\ d.chat \in d.listed

(* More questions leave room for all numbers in use.                       *)
LEMMA MoreNumbers ==
    ASSUME NEW n \in Nat
    PROVE  /\ Pair(n) \subseteq Pair(n + 1) /\ Shown(n) \subseteq Shown(n + 1)
           /\ Asked(n) \subseteq Asked(n + 1) /\ Fetch(n) \subseteq Fetch(n + 1)
           /\ Seq(Pair(n)) \subseteq Seq(Pair(n + 1))
           /\ Seq(Shown(n)) \subseteq Seq(Shown(n + 1))
<1>1. 1..n \subseteq 1..(n + 1)
  OBVIOUS
<1>2. /\ Pair(n) \subseteq Pair(n + 1) /\ Shown(n) \subseteq Shown(n + 1)
      /\ Asked(n) \subseteq Asked(n + 1)
  BY <1>1 DEF Pair, Shown, Asked
<1>3. \A S, T : S \subseteq T => Seq(S) \subseteq Seq(T)
  BY SeqMonotonic
<1>4. Seq(Pair(n)) \subseteq Seq(Pair(n + 1)) /\ Seq(Shown(n)) \subseteq Seq(Shown(n + 1))
  BY <1>2, <1>3
<1>5. Fetch(n) \subseteq Fetch(n + 1)
  BY <1>4 DEF Fetch
<1>6. QED
  BY <1>2, <1>4, <1>5

(* Steps of the API: an answer is stored with its pair, or fails.          *)
LEMMA ApiKeepsPage ==
    ASSUME PageInv, NEW w \in work, Store(w) \/ AnswerFails(w), UNCHANGED moves
    PROVE  PageInv'
<1>1. /\ asks' = asks /\ moves' = moves /\ coll' = coll /\ activeChat' = activeChat
      /\ chats' = chats /\ activeTurn' = activeTurn /\ turns' = turns /\ ask' = ask
      /\ fetch' = fetch /\ ~w.stored
  BY DEF Store, AnswerFails, threadVars, chatVars
<1>2. /\ messages \in [Chats -> Seq(Pair(asks))] /\ work \subseteq Asked(asks)
  BY DEF PageInv, PageValues
<1>3. PendingMeansAsking' /\ FetchHasChat' /\ CreatingLeavesRoom'
  BY <1>1 DEF PageInv, PendingMeansAsking, FetchHasChat, CreatingLeavesRoom
<1>4. CASE AnswerFails(w)
  <2>1. work' = work \ {w} /\ messages' = messages
    BY <1>4 DEF AnswerFails
  <2>2. WorkIsAsked'
    BY <1>1, <2>1 DEF PageInv, WorkIsAsked, Asking
  <2>3. PairsAreStored'
    BY <1>1, <2>1 DEF PageInv, PairsAreStored
  <2>4. QED
    BY <1>1, <1>3, <2>1, <2>2, <2>3 DEF PageInv, PageValues
<1>5. CASE Store(w)
  <2> DEFINE done == [w EXCEPT !.stored = TRUE]
             pair == [id |-> w.id, text |-> w.text]
  <2>1. work' = (work \ {w}) \cup {done} /\ messages' = [messages EXCEPT ![w.chat] = Append(@, pair)]
    BY <1>5 DEF Store
  <2>2. /\ done \in Asked(asks) /\ done.id = w.id /\ done.text = w.text /\ done.chat = w.chat
        /\ done.stored /\ pair \in Pair(asks) /\ w.chat \in Chats
        /\ pair.id = w.id /\ pair.text = w.text
    BY <1>2 DEF Asked, Pair
  <2> HIDE DEF done, pair
  <2>3. messages[w.chat] \in Seq(Pair(asks))
    BY <1>2, <2>2
  <2>4. /\ Append(messages[w.chat], pair) \in Seq(Pair(asks))
        /\ \A i \in DOMAIN Append(messages[w.chat], pair) :
              \/ i \in DOMAIN messages[w.chat]
                 /\ Append(messages[w.chat], pair)[i] = messages[w.chat][i]
              \/ Append(messages[w.chat], pair)[i] = pair
    BY <2>2, <2>3
  <2>5. /\ messages' \in [Chats -> Seq(Pair(asks))]
        /\ messages'[w.chat] = Append(messages[w.chat], pair)
        /\ \A c \in Chats : c # w.chat => messages'[c] = messages[c]
    BY <1>2, <2>1, <2>2, <2>4
  <2>6. WorkIsAsked'
    BY <1>1, <2>1, <2>2 DEF PageInv, WorkIsAsked, Asking
  <2>7. \A v \in work : v.stored => v \in work'
    BY <1>1, <2>1
  <2>8. PairsAreStored'
    <3> SUFFICES ASSUME NEW c \in Chats, NEW i \in DOMAIN messages'[c]
                 PROVE  \E v \in work' : /\ v.stored /\ v.chat = c
                                         /\ v.id = messages'[c][i].id
                                         /\ v.text = messages'[c][i].text
      BY DEF PairsAreStored
    <3>1. CASE i \in DOMAIN messages[c] /\ messages'[c][i] = messages[c][i]
      <4>1. \E v \in work : /\ v.stored /\ v.chat = c
                            /\ v.id = messages[c][i].id /\ v.text = messages[c][i].text
        BY <3>1 DEF PageInv, PairsAreStored
      <4>2. QED
        BY <3>1, <4>1, <2>7
    <3>2. CASE c = w.chat /\ messages'[c][i] = pair
      BY <3>2, <2>1, <2>2
    <3>3. QED
      BY <3>1, <3>2, <2>4, <2>5
  <2>9. work' \subseteq Asked(asks)
    BY <1>2, <2>1, <2>2
  <2>10. QED
    BY <1>1, <1>3, <2>5, <2>6, <2>8, <2>9 DEF PageInv, PageValues
<1>6. QED
  BY <1>4, <1>5

(* Steps that leave the submission and the thread alone, or only empty it  *)
(* or select another turn: clicks, chats that arrive, messages read.       *)
LEMMA BrowsingKeepsPage ==
    ASSUME PageInv, asks' = asks, work' = work, ask' = ask,
           moves' \in 0..MaxMoves, coll' \in Collections, chats' \subseteq Chats,
           activeTurn' \in 0..asks, turns' = turns \/ turns' = <<>>,
           activeChat' \in Chats \cup {NoChat}, fetch' \in Fetch(asks), FetchHasChat',
           \/ messages' = messages
           \/ \E c \in Chats : messages' = [messages EXCEPT ![c] = <<>>]
    PROVE  PageInv'
<1>1. messages \in [Chats -> Seq(Pair(asks))] /\ turns \in Seq(Shown(asks))
  BY DEF PageInv, PageValues
<1>2. /\ messages' \in [Chats -> Seq(Pair(asks))]
      /\ \A c \in Chats : messages'[c] = messages[c] \/ messages'[c] = <<>>
  <2>1. CASE messages' = messages
    BY <1>1, <2>1
  <2>2. ASSUME NEW c \in Chats, messages' = [messages EXCEPT ![c] = <<>>]
        PROVE  /\ messages' \in [Chats -> Seq(Pair(asks))]
               /\ \A d \in Chats : messages'[d] = messages[d] \/ messages'[d] = <<>>
    <3>1. <<>> \in Seq(Pair(asks))
      OBVIOUS
    <3>2. QED
      BY <1>1, <2>2, <3>1
  <2>3. QED
    BY <2>1, <2>2
<1>3. turns' \in Seq(Shown(asks))
  <2>1. <<>> \in Seq(Shown(asks))
    OBVIOUS
  <2>2. QED
    BY <1>1, <2>1
<1>4. PageValues'
  BY <1>2, <1>3 DEF PageInv, PageValues
<1>5. WorkIsAsked'
  BY DEF PageInv, WorkIsAsked, Asking
<1>6. PairsAreStored'
  BY <1>2 DEF PageInv, PairsAreStored
<1>7. PendingMeansAsking' /\ CreatingLeavesRoom'
  BY DEF PageInv, PendingMeansAsking, CreatingLeavesRoom
<1>8. QED
  BY <1>4, <1>5, <1>6, <1>7 DEF PageInv

(* Opening a chat awaits its messages, or goes on awaiting them.           *)
LEMMA OpenAwaits ==
    ASSUME PageInv, NEW x \in Chats \cup {NoChat}, Open(x)
    PROVE  activeChat' \in Chats \cup {NoChat} /\ fetch' \in Fetch(asks) /\ FetchHasChat'
<1>1. NoFetch \in Fetch(asks) /\ Awaited \in Fetch(asks) /\ NoFetch.stage = "none"
  BY DEF NoFetch, Awaited, Fetch
<1>2. fetch \in Fetch(asks)
  BY DEF PageInv, PageValues
<1>3. QED
  BY <1>1, <1>2 DEF Open, FetchHasChat, PageInv

(* Clicks and what the API delivers without touching the thread.           *)
LEMMA ClickKeepsPage ==
    ASSUME PageInv,
           \/ Click
           \/ (ChatsArrive \/ ReadMessages) /\ UNCHANGED moves
    PROVE  PageInv'
<1>1. /\ asks \in 0..MaxAsks /\ moves \in 0..MaxMoves /\ coll \in Collections
      /\ activeChat \in Chats \cup {NoChat} /\ chats \subseteq Chats
      /\ activeTurn \in 0..asks /\ turns \in Seq(Shown(asks)) /\ fetch \in Fetch(asks)
      /\ messages \in [Chats -> Seq(Pair(asks))] /\ FetchHasChat
      /\ MaxMoves \in Nat /\ MaxAsks \in Nat
  BY PageAssumption DEF PageInv, PageValues
<1>2. ASSUME UNCHANGED fetch, UNCHANGED activeChat PROVE FetchHasChat'
  BY <1>1, <1>2 DEF FetchHasChat
<1>3. ASSUME moves' \in 0..MaxMoves, ClickTurn PROVE PageInv'
  <2>1. activeTurn' \in 0..asks
    <3>1. PICK i \in DOMAIN turns : activeTurn' = turns[i].id
      BY <1>3 DEF ClickTurn
    <3> DEFINE t == turns[i]
    <3>2. t \in Shown(asks)
      BY <1>1
    <3> HIDE DEF t
    <3>3. t.id \in 1..asks
      BY <3>2 DEF Shown
    <3>4. QED
      BY <1>1, <3>1, <3>3 DEF t
  <2>2. QED
    BY <1>1, <1>2, <1>3, <2>1, BrowsingKeepsPage DEF ClickTurn, apiVars, chatVars
<1>4. ASSUME moves' \in 0..MaxMoves, NEW c \in Collections, SelectCollection(c) PROVE PageInv'
  BY <1>1, <1>2, <1>4, BrowsingKeepsPage DEF SelectCollection, apiVars, threadVars
<1>5. ASSUME moves' \in 0..MaxMoves, NEW x \in Chats, SelectChat(x) PROVE PageInv'
  BY <1>1, <1>5, OpenAwaits, BrowsingKeepsPage DEF SelectChat, apiVars, threadVars
<1>6. ASSUME moves' \in 0..MaxMoves, NEW x \in Chats, DeleteChat(x) PROVE PageInv'
  BY <1>1, <1>2, <1>6, BrowsingKeepsPage DEF DeleteChat, apiVars, threadVars, chatVars
<1>7. CASE ChatsArrive /\ UNCHANGED moves
  <2>1. /\ chats' \subseteq Chats /\ messages' = messages
        /\ asks' = asks /\ work' = work /\ ask' = ask /\ coll' = coll /\ moves' = moves
    BY <1>7 DEF ChatsArrive, apiVars
  <2>2. \/ Open(NoChat) /\ Cleared
        \/ (\E y \in chats' : Open(y)) /\ UNCHANGED threadVars
    BY <1>7 DEF ChatsArrive
  <2>3. /\ activeChat' \in Chats \cup {NoChat} /\ fetch' \in Fetch(asks) /\ FetchHasChat'
    BY <2>1, <2>2, OpenAwaits
  <2>4. /\ activeTurn' \in 0..asks /\ (turns' = turns \/ turns' = <<>>)
    BY <1>1, <2>2 DEF Cleared, threadVars
  <2>5. QED
    BY <1>1, <2>1, <2>3, <2>4, BrowsingKeepsPage
<1>8. CASE ReadMessages /\ UNCHANGED moves
  <2>1. /\ chats' = chats /\ messages' = messages /\ asks' = asks /\ work' = work /\ ask' = ask
        /\ coll' = coll /\ moves' = moves /\ activeChat' = activeChat
        /\ turns' = turns /\ activeTurn' = activeTurn /\ fetch.stage = "asked"
    BY <1>8 DEF ReadMessages, apiVars, threadVars
  <2>2. \/ fetch' = [stage |-> "read", got |-> messages[activeChat]] /\ Exists(activeChat)
        \/ fetch' = NoFetch
    BY <1>8 DEF ReadMessages
  <2>3. fetch' \in Fetch(asks)
    <3>1. NoFetch \in Fetch(asks)
      BY DEF NoFetch, Fetch
    <3>2. Exists(activeChat) => messages[activeChat] \in Seq(Pair(asks))
      BY <1>1 DEF Exists
    <3>3. QED
      BY <2>2, <3>1, <3>2 DEF Fetch
  <2>4. FetchHasChat'
    BY <1>1, <2>1 DEF FetchHasChat
  <2>5. QED
    BY <1>1, <2>1, <2>3, <2>4, BrowsingKeepsPage
<1>9. Click => moves' \in 0..MaxMoves
  BY <1>1 DEF Click
<1>10. QED
  BY <1>3, <1>4, <1>5, <1>6, <1>7, <1>8, <1>9 DEF Click

(* A deletion: the API's part, its failure, and what the page then does    *)
(* with the chats of its closure.                                          *)
LEMMA DeletionKeepsPage ==
    ASSUME PageInv, ClosuresInv, Deletion, UNCHANGED moves
    PROVE  PageInv'
<1>1. /\ asks \in 0..MaxAsks /\ moves \in 0..MaxMoves /\ coll \in Collections
      /\ activeChat \in Chats \cup {NoChat} /\ chats \subseteq Chats
      /\ activeTurn \in 0..asks /\ fetch \in Fetch(asks) /\ FetchHasChat
      /\ MaxAsks \in Nat
  BY PageAssumption DEF PageInv, PageValues
<1>2. ASSUME UNCHANGED fetch, UNCHANGED activeChat PROVE FetchHasChat'
  BY <1>1, <1>2 DEF FetchHasChat
<1>3. PICK d \in deletions : ChatIsDeleted(d) \/ DeletionFails(d) \/ DeletionReturns(d)
  BY DEF Deletion
<1>4. d.chat \in Chats /\ d.listed \subseteq Chats
  BY DEF ClosuresInv, Closure
<1>5. CASE ChatIsDeleted(d)
  <2>1. messages' = [messages EXCEPT ![d.chat] = <<>>]
    BY <1>5 DEF ChatIsDeleted
  <2>2. QED
    BY <1>1, <1>2, <1>4, <1>5, <2>1, BrowsingKeepsPage DEF ChatIsDeleted, threadVars, chatVars
<1>6. CASE DeletionFails(d)
  BY <1>1, <1>2, <1>6, BrowsingKeepsPage DEF DeletionFails, apiVars, threadVars, chatVars
<1>7. CASE DeletionReturns(d)
  <2>1. /\ chats' \subseteq Chats /\ messages' = messages /\ moves' = moves
        /\ asks' = asks /\ work' = work /\ ask' = ask /\ coll' = coll
    BY <1>1, <1>7 DEF DeletionReturns, apiVars
  <2>2. \/ UNCHANGED <<activeChat, fetch, threadVars>>
        \/ Open(NoChat) /\ Cleared
        \/ (\E y \in d.listed : Open(y)) /\ UNCHANGED threadVars
    BY <1>7 DEF DeletionReturns
  <2>3. /\ activeChat' \in Chats \cup {NoChat} /\ fetch' \in Fetch(asks) /\ FetchHasChat'
    BY <1>1, <1>2, <1>4, <2>2, OpenAwaits
  <2>4. /\ activeTurn' \in 0..asks /\ (turns' = turns \/ turns' = <<>>)
    BY <1>1, <2>2 DEF Cleared, threadVars
  <2>5. QED
    BY <1>1, <2>1, <2>3, <2>4, BrowsingKeepsPage
<1>8. QED
  BY <1>3, <1>5, <1>6, <1>7

(* The messages of a chat arrive: the thread is theirs, and what was       *)
(* pending in it.                                                          *)
LEMMA MessagesKeepPage ==
    ASSUME PageInv, MessagesArrive, UNCHANGED moves
    PROVE  PageInv'
<1> DEFINE got == fetch.got
           stored == [i \in DOMAIN got |-> Turn(got[i].id, got[i].text)]
           places == {i \in DOMAIN turns : IsPending(turns[i])}
           kept == Places(turns, places)
<1>1. /\ asks \in 0..MaxAsks /\ activeTurn \in 0..asks /\ turns \in Seq(Shown(asks))
      /\ fetch \in Fetch(asks) /\ MaxAsks \in Nat
  BY PageAssumption DEF PageInv, PageValues
<1>2. /\ messages' = messages /\ asks' = asks /\ work' = work /\ ask' = ask
      /\ coll' = coll /\ moves' = moves /\ activeChat' = activeChat /\ chats' = chats
      /\ fetch' = NoFetch
      /\ turns' = stored \o kept
      /\ activeTurn' \in {0, activeTurn} \/ (stored # <<>> /\ activeTurn' = stored[Len(stored)].id)
  <2>1. /\ turns' = stored \o Filter(turns, IsPending)
        /\ activeTurn' = IF stored # <<>> THEN stored[Len(stored)].id
                         ELSE IF ask.stage \in {"none", "creating"} THEN 0 ELSE activeTurn
    BY DEF MessagesArrive
  <2>2. Filter(turns, IsPending) = kept
    BY DEF Filter
  <2> HIDE DEF stored, kept
  <2>3. fetch' = NoFetch /\ UNCHANGED <<apiVars, coll, listing, chats, activeChat, ask>>
    BY DEF MessagesArrive
  <2>4. turns' = stored \o kept
    BY <2>1, <2>2
  <2>5. activeTurn' \in {0, activeTurn} \/ (stored # <<>> /\ activeTurn' = stored[Len(stored)].id)
    BY <2>1
  <2>6. QED
    BY <2>3, <2>4, <2>5 DEF apiVars
<1>3. got \in Seq(Pair(asks))
  BY <1>1 DEF Fetch
<1>4. stored \in Seq(Shown(asks)) /\ \A i \in DOMAIN stored : ~stored[i].pending
  <2>1. \A i \in DOMAIN got : Turn(got[i].id, got[i].text) \in Shown(asks)
                              /\ ~Turn(got[i].id, got[i].text).pending
    <3> SUFFICES ASSUME NEW i \in DOMAIN got
                 PROVE  Turn(got[i].id, got[i].text) \in Shown(asks)
                        /\ ~Turn(got[i].id, got[i].text).pending
      OBVIOUS
    <3>1. got[i] \in Pair(asks)
      BY <1>3
    <3>2. QED
      BY <3>1 DEF Pair, Shown, Turn
  <2>2. DOMAIN got = 1..Len(got) /\ Len(got) \in Nat
    BY <1>3
  <2> HIDE DEF got
  <2>3. DOMAIN stored = 1..Len(got) /\ \A i \in DOMAIN stored : stored[i] \in Shown(asks)
                                                             /\ ~stored[i].pending
    BY <2>1, <2>2
  <2>4. stored \in [1..Len(got) -> Shown(asks)]
    BY <2>1, <2>2
  <2>5. QED
    BY <2>2, <2>3, <2>4
<1> HIDE DEF stored, got
<1>5. places \in SUBSET (DOMAIN turns)
  OBVIOUS
<1> HIDE DEF places
<1>6. /\ kept \in Seq(Shown(asks))
      /\ \A n \in DOMAIN kept : \E i \in places : kept[n] = turns[i]
      /\ \A m, n \in DOMAIN kept :
            m < n => \E i, j \in places : i < j /\ kept[m] = turns[i] /\ kept[n] = turns[j]
  BY <1>1, <1>5, PlacesOf
<1> HIDE DEF kept
<1>7. /\ stored \o kept \in Seq(Shown(asks))
      /\ DOMAIN (stored \o kept) = 1..(Len(stored) + Len(kept))
      /\ Len(stored) \in Nat /\ DOMAIN stored = 1..Len(stored)
      /\ Len(kept) \in Nat /\ DOMAIN kept = 1..Len(kept)
      /\ \A n \in 1..(Len(stored) + Len(kept)) :
            (stored \o kept)[n] = IF n <= Len(stored) THEN stored[n] ELSE kept[n - Len(stored)]
  BY <1>4, <1>6
<1>8. PendingMeansAsking'
  <2> SUFFICES ASSUME NEW m \in DOMAIN turns', turns'[m].pending
               PROVE  /\ ask.stage \in {"sent", "recovering"} /\ turns'[m].id = ask.id
                      /\ \A n \in DOMAIN turns' : turns'[n].pending => n = m
    BY <1>2 DEF PendingMeansAsking
  <2>1. \A n \in DOMAIN turns' : turns'[n].pending =>
           n - Len(stored) \in DOMAIN kept /\ turns'[n] = kept[n - Len(stored)] /\ n \in Int
    BY <1>2, <1>4, <1>7
  <2>2. PICK i \in places : turns'[m] = turns[i]
    BY <1>6, <2>1
  <2>3. turns[i].pending /\ i \in DOMAIN turns
    BY <2>2, <1>5
  <2>4. \A j \in places : turns[j].pending
    BY DEF places, IsPending
  <2>5. \A j, k \in places : j = k
    BY <1>5, <2>4 DEF PageInv, PendingMeansAsking
  <2>6. \A n \in DOMAIN turns' : turns'[n].pending => n = m
    <3> SUFFICES ASSUME NEW n \in DOMAIN turns', turns'[n].pending, n # m PROVE FALSE
      OBVIOUS
    <3> DEFINE p == m - Len(stored)
               q == n - Len(stored)
    <3>1. p \in DOMAIN kept /\ q \in DOMAIN kept /\ p # q
      BY <2>1, <1>7
    <3>2. p < q \/ q < p
      BY <3>1, <1>7
    <3> HIDE DEF p, q
    <3>3. PICK j, k \in places : j < k
      BY <1>6, <3>1, <3>2
    <3>4. j = k /\ j \in Int
      BY <2>5, <1>1, <1>5
    <3>5. QED
      BY <3>3, <3>4
  <2>7. ask.stage \in {"sent", "recovering"} /\ turns'[m].id = ask.id
    BY <2>2, <2>3 DEF PageInv, PendingMeansAsking
  <2>8. QED
    BY <2>6, <2>7
<1>9. activeTurn' \in 0..asks
  <2>1. ASSUME stored # <<>> PROVE stored[Len(stored)].id \in 0..asks
    <3>1. Len(stored) \in DOMAIN stored
      BY <2>1, <1>4, <1>7
    <3> DEFINE t == stored[Len(stored)]
    <3>2. t \in Shown(asks)
      BY <3>1, <1>4
    <3> HIDE DEF t
    <3>3. t.id \in 1..asks
      BY <3>2 DEF Shown
    <3>4. QED
      BY <1>1, <3>3 DEF t
  <2>2. QED
    BY <1>1, <1>2, <2>1
<1>10. NoFetch \in Fetch(asks) /\ NoFetch.stage = "none"
  BY DEF NoFetch, Fetch
<1>11. PageValues' /\ FetchHasChat'
  BY <1>2, <1>7, <1>9, <1>10 DEF PageInv, PageValues, FetchHasChat
<1>12. WorkIsAsked' /\ PairsAreStored' /\ CreatingLeavesRoom'
  BY <1>2 DEF PageInv, WorkIsAsked, PairsAreStored, Asking, CreatingLeavesRoom
<1>13. QED
  BY <1>8, <1>11, <1>12 DEF PageInv

(* What the page and the API do when a question is sent.                   *)
Sent(x, text, c, polls) ==
    /\ asks' = asks + 1
    /\ ask' = [stage |-> "sent", id |-> asks + 1, text |-> text, chat |-> x, coll |-> c,
               polls |-> polls]
    /\ work' = work \cup {[id |-> asks + 1, text |-> text, chat |-> x, stored |-> FALSE]}
    /\ turns' = Append(turns, PendingTurn(asks + 1, text))
    /\ activeTurn' = 0 /\ messages' = messages /\ moves' = moves /\ coll' = coll

(* A question begins: its number is new, and no turn was pending.          *)
LEMMA BeginKeepsPage ==
    ASSUME PageInv, asks < MaxAsks, ask.stage \in {"none", "creating"},
           NEW x \in Chats, NEW text \in Texts \cup {"none"},
           NEW c \in Collections \cup {"none"}, NEW polls \in 0..MaxPolls,
           Sent(x, text, c, polls),
           chats' \subseteq Chats, activeChat' \in Chats \cup {NoChat},
           fetch' \in Fetch(asks), FetchHasChat'
    PROVE  PageInv'
<1> DEFINE n == asks + 1
           new == [id |-> n, text |-> text, chat |-> x, stored |-> FALSE]
           turn == PendingTurn(n, text)
<1>1. /\ asks \in 0..MaxAsks /\ moves \in 0..MaxMoves /\ coll \in Collections
      /\ MaxAsks \in Nat /\ MaxPolls \in Nat
      /\ messages \in [Chats -> Seq(Pair(asks))] /\ work \subseteq Asked(asks)
      /\ turns \in Seq(Shown(asks))
  BY PageAssumption DEF PageInv, PageValues
<1>2. asks \in Nat /\ n \in Nat /\ n \in 1..n /\ n \in 0..MaxAsks /\ asks \in Int /\ n > asks
  BY <1>1
<1>3. /\ Asked(asks) \subseteq Asked(n) /\ Fetch(asks) \subseteq Fetch(n)
      /\ Seq(Pair(asks)) \subseteq Seq(Pair(n)) /\ Seq(Shown(asks)) \subseteq Seq(Shown(n))
  BY <1>2, MoreNumbers
<1>4. new \in Asked(n) /\ turn \in Shown(n) /\ turn.pending /\ turn.id = n
      /\ new.id = n /\ new.text = text /\ new.chat = x /\ ~new.stored
  BY <1>2 DEF Asked, Shown, PendingTurn
<1>5. ask' \in Submission(n) /\ ask'.stage = "sent" /\ ask'.id = n /\ ask'.text = text
      /\ ask'.chat = x
  BY <1>1, <1>2 DEF Submission, Sent
<1>6. /\ asks' = n /\ work' = work \cup {new} /\ turns' = Append(turns, turn)
      /\ activeTurn' = 0 /\ messages' = messages /\ moves' = moves /\ coll' = coll
  BY DEF Sent
<1>7. \A w \in work : w.id \in 1..asks
  <2> SUFFICES ASSUME NEW w \in work PROVE w.id \in 1..asks
    OBVIOUS
  <2>1. w \in Asked(asks)
    BY <1>1
  <2>2. QED
    BY <2>1 DEF Asked
<1> HIDE DEF n, new, turn
<1>8. turns \in Seq(Shown(n))
  BY <1>1, <1>3
<1>9. /\ turns' \in Seq(Shown(n)) /\ Len(turns) \in Nat /\ DOMAIN turns = 1..Len(turns)
      /\ DOMAIN turns' = 1..(Len(turns) + 1)
      /\ \A i \in DOMAIN turns : turns'[i] = turns[i]
      /\ turns'[Len(turns) + 1] = turn
  BY <1>4, <1>6, <1>8
<1>10. messages \in [Chats -> Seq(Pair(n))]
  BY <1>1, <1>3
<1>11. work' \subseteq Asked(n)
  BY <1>1, <1>3, <1>4, <1>6
<1>12. fetch' \in Fetch(n) /\ activeTurn' \in 0..n
  BY <1>2, <1>3, <1>6
<1>13. PageValues'
  BY <1>1, <1>2, <1>5, <1>6, <1>9, <1>10, <1>11, <1>12 DEF PageValues
<1>14. WorkIsAsked'
  <2>1. \A w \in work' : w.id = n => w = new
    BY <1>2, <1>6, <1>7
  <2>2. QED
    BY <1>4, <1>5, <2>1 DEF WorkIsAsked
<1>15. PairsAreStored'
  BY <1>6 DEF PageInv, PairsAreStored
<1>16. \A i \in DOMAIN turns : ~turns[i].pending
  BY DEF PageInv, PendingMeansAsking
<1>17. \A i \in DOMAIN turns' : turns'[i].pending => i = Len(turns) + 1
  BY <1>9, <1>16
<1>18. PendingMeansAsking' /\ CreatingLeavesRoom'
  BY <1>4, <1>5, <1>9, <1>17 DEF PendingMeansAsking, CreatingLeavesRoom
<1>19. QED
  BY <1>13, <1>14, <1>15, <1>18 DEF PageInv

(* Steps of a submission that leave the API alone: nothing is pending      *)
(* unless it goes on under its number.                                     *)
LEMMA SubmissionKeepsPage ==
    ASSUME PageInv, UNCHANGED apiVars, UNCHANGED chatVars, UNCHANGED moves,
           ask' \in Submission(asks),
           ask'.stage \in {"sent", "recovering"} =>
              Asking /\ ask'.id = ask.id /\ ask'.text = ask.text /\ ask'.chat = ask.chat,
           ask'.stage = "creating" => asks < MaxAsks,
           turns' \in Seq(Shown(asks)), activeTurn' \in 0..asks,
           PendingMeansAsking'
    PROVE  PageInv'
<1>1. /\ asks' = asks /\ work' = work /\ messages' = messages /\ moves' = moves
      /\ coll' = coll /\ chats' = chats /\ activeChat' = activeChat /\ fetch' = fetch
  BY DEF apiVars, chatVars
<1>2. PageValues'
  BY <1>1 DEF PageInv, PageValues
<1>3. FetchHasChat' /\ PairsAreStored' /\ CreatingLeavesRoom'
  BY <1>1 DEF PageInv, FetchHasChat, PairsAreStored, CreatingLeavesRoom
<1>4. WorkIsAsked'
  BY <1>1 DEF PageInv, WorkIsAsked, Asking
<1>5. QED
  BY <1>2, <1>3, <1>4 DEF PageInv

(* An answer that arrives replaces the pending turn.                       *)
LEMMA CommitKeepsPage ==
    ASSUME PageInv, Asking, NEW pair, pair.id \in 1..asks, pair.text \in Texts \cup {"none"},
           CommitTurn(pair), UNCHANGED moves
    PROVE  PageInv'
<1> DEFINE after == [i \in DOMAIN turns |->
                        IF IsPending(turns[i]) THEN Turn(pair.id, pair.text) ELSE turns[i]]
<1>1. /\ turns' = after /\ activeTurn' = pair.id /\ ask' = NoAsk
      /\ UNCHANGED apiVars /\ UNCHANGED chatVars
  BY DEF CommitTurn
<1>2. turns \in Seq(Shown(asks)) /\ asks \in 0..MaxAsks /\ MaxAsks \in Nat /\ MaxPolls \in Nat
  BY PageAssumption DEF PageInv, PageValues
<1>3. NoAsk \in Submission(asks) /\ NoAsk.stage = "none"
  BY <1>2 DEF NoAsk, Submission
<1>4. Turn(pair.id, pair.text) \in Shown(asks) /\ ~Turn(pair.id, pair.text).pending
  BY DEF Turn, Shown
<1>5. \A i \in DOMAIN turns : turns[i].pending => IsPending(turns[i])
  BY DEF PageInv, PendingMeansAsking, IsPending
<1>6. DOMAIN after = DOMAIN turns
      /\ \A i \in DOMAIN turns : after[i] \in Shown(asks) /\ ~after[i].pending
  <2> SUFFICES ASSUME NEW i \in DOMAIN turns PROVE after[i] \in Shown(asks) /\ ~after[i].pending
    OBVIOUS
  <2>1. turns[i] \in Shown(asks) /\ after[i] \in {turns[i], Turn(pair.id, pair.text)}
    BY <1>2
  <2>2. ~IsPending(turns[i]) => ~turns[i].pending
    BY <1>5
  <2>3. QED
    BY <1>4, <2>1, <2>2
<1> HIDE DEF after
<1>7. after \in Seq(Shown(asks))
  <2>1. DOMAIN turns = 1..Len(turns) /\ Len(turns) \in Nat
    BY <1>2
  <2>2. after \in [1..Len(turns) -> Shown(asks)]
    <3>1. after = [i \in DOMAIN turns |-> after[i]]
      BY DEF after
    <3>2. QED
      BY <1>6, <2>1, <3>1
  <2>3. QED
    BY <2>1, <2>2
<1>8. PendingMeansAsking'
  BY <1>1, <1>6 DEF PendingMeansAsking
<1>9. activeTurn' \in 0..asks
  BY <1>1, <1>2
<1>10. QED
  BY <1>1, <1>3, <1>7, <1>8, <1>9, SubmissionKeepsPage

(* The steps of a submission.                                              *)
LEMMA QuestionKeepsPage ==
    ASSUME PageInv, Question, UNCHANGED moves
    PROVE  PageInv'
<1>1. /\ asks \in 0..MaxAsks /\ moves \in 0..MaxMoves /\ coll \in Collections
      /\ activeChat \in Chats \cup {NoChat} /\ chats \subseteq Chats
      /\ activeTurn \in 0..asks /\ turns \in Seq(Shown(asks)) /\ fetch \in Fetch(asks)
      /\ messages \in [Chats -> Seq(Pair(asks))] /\ FetchHasChat /\ ask \in Submission(asks)
      /\ work \subseteq Asked(asks)
      /\ MaxMoves \in Nat /\ MaxAsks \in Nat /\ MaxPolls \in Nat
  BY PageAssumption DEF PageInv, PageValues
<1>2. ASSUME NEW text \in Texts, Submit(text) PROVE PageInv'
  <2>1. /\ Sent(activeChat, text, coll, 0)
        /\ ask.stage = "none" /\ asks < MaxAsks /\ activeChat # NoChat
    BY <1>2 DEF Submit, Begin, NoAsk, Sent, chatVars
  <2>2. chats' = chats /\ activeChat' = activeChat /\ fetch' = fetch
    BY <1>2 DEF Submit, chatVars
  <2>3. activeChat \in Chats /\ FetchHasChat'
    BY <1>1, <2>1, <2>2 DEF FetchHasChat
  <2>4. QED
    BY <1>1, <2>1, <2>2, <2>3, BeginKeepsPage
<1>3. ASSUME NEW text \in Texts, SubmitWithoutChat(text) PROVE PageInv'
  <2>1. /\ ask' = [stage |-> "creating", id |-> 0, text |-> text, chat |-> NoChat,
                   coll |-> coll, polls |-> 0]
        /\ UNCHANGED apiVars /\ UNCHANGED chatVars /\ turns' = turns /\ activeTurn' = activeTurn
        /\ ask.stage = "none" /\ asks < MaxAsks
    BY <1>3 DEF SubmitWithoutChat, NoAsk, threadVars
  <2>2. ask' \in Submission(asks) /\ ask'.stage = "creating"
    BY <1>1, <2>1 DEF Submission
  <2>3. PendingMeansAsking'
    BY <2>1 DEF PageInv, PendingMeansAsking
  <2>4. QED
    BY <1>1, <2>1, <2>2, <2>3, SubmissionKeepsPage
<1>4. CASE ChatIsCreated
  <2>1. PICK x \in Chats :
           /\ chats' = chats \cup {x} /\ Open(x) /\ asks' = asks + 1
           /\ ask' = [ask EXCEPT !.stage = "sent", !.id = asks + 1, !.chat = x]
           /\ work' = work \cup {[id |-> asks + 1, text |-> ask.text, chat |-> x,
                                  stored |-> FALSE]}
           /\ turns' = Append(turns, PendingTurn(asks + 1, ask.text))
    BY <1>4 DEF ChatIsCreated
  <2>2. /\ ask.stage = "creating" /\ activeTurn' = 0 /\ messages' = messages /\ coll' = coll
    BY <1>4 DEF ChatIsCreated
  <2>3. /\ ask' = [stage |-> "sent", id |-> asks + 1, text |-> ask.text, chat |-> x,
                   coll |-> ask.coll, polls |-> ask.polls]
        /\ ask.text \in Texts \cup {"none"} /\ ask.coll \in Collections \cup {"none"}
    BY <1>1, <2>1 DEF Submission
  <2>4. ask.polls \in 0..MaxPolls /\ asks < MaxAsks
    BY <1>1, <2>2 DEF Submission, PageInv, CreatingLeavesRoom
  <2>5. /\ activeChat' \in Chats \cup {NoChat} /\ fetch' \in Fetch(asks) /\ FetchHasChat'
    BY <2>1, OpenAwaits
  <2>6. chats' \subseteq Chats
    BY <1>1, <2>1
  <2>7. Sent(x, ask.text, ask.coll, ask.polls)
    BY <2>1, <2>2, <2>3 DEF Sent
  <2>8. QED
    BY <2>2, <2>3, <2>4, <2>5, <2>6, <2>7, BeginKeepsPage
<1>5. CASE ChatIsNotCreated
  <2>1. /\ ask' = NoAsk /\ ask.stage = "creating"
        /\ UNCHANGED apiVars /\ UNCHANGED chatVars /\ turns' = turns /\ activeTurn' = activeTurn
    BY <1>5 DEF ChatIsNotCreated, threadVars
  <2>2. ask' \in Submission(asks) /\ ask'.stage = "none"
    BY <1>1, <2>1 DEF NoAsk, Submission
  <2>3. PendingMeansAsking'
    BY <2>1 DEF PageInv, PendingMeansAsking
  <2>4. QED
    BY <1>1, <2>1, <2>2, <2>3, SubmissionKeepsPage
<1>6. CASE Respond
  <2>1. PICK w \in work : CommitTurn(w)
    BY <1>6 DEF Respond
  <2>2. w \in Asked(asks)
    BY <1>1
  <2>3. w.id \in 1..asks /\ w.text \in Texts \cup {"none"}
    BY <2>2 DEF Asked
  <2>4. Asking
    BY <1>6 DEF Respond, Asking
  <2>5. QED
    BY <2>1, <2>3, <2>4, CommitKeepsPage
<1>7. CASE Lose
  <2>1. /\ ask' = [ask EXCEPT !.stage = "recovering"] /\ ask.stage = "sent"
        /\ UNCHANGED apiVars /\ UNCHANGED chatVars /\ turns' = turns /\ activeTurn' = activeTurn
    BY <1>7 DEF Lose, threadVars
  <2>2. /\ ask' \in Submission(asks) /\ ask'.stage = "recovering" /\ ask'.id = ask.id
        /\ ask'.text = ask.text /\ ask'.chat = ask.chat
    BY <1>1, <2>1 DEF Submission
  <2>3. PendingMeansAsking'
    BY <2>1, <2>2 DEF PageInv, PendingMeansAsking
  <2>4. QED
    BY <1>1, <2>1, <2>2, <2>3, SubmissionKeepsPage DEF Asking
<1>8. CASE Recover
  <2>1. Asking /\ ask.stage = "recovering" /\ ask.polls < MaxPolls
    BY <1>8 DEF Recover, Asking
  <2>2. \/ \E i \in SamePrompt(ask.text) : Exists(ask.chat) /\ CommitTurn(messages[ask.chat][i])
        \/ /\ ask' = [ask EXCEPT !.polls = Counted(@)]
           /\ UNCHANGED <<apiVars, threadVars, chatVars>>
    BY <1>8 DEF Recover
  <2>3. CASE \E i \in SamePrompt(ask.text) :
                Exists(ask.chat) /\ CommitTurn(messages[ask.chat][i])
    <3>1. PICK i \in SamePrompt(ask.text) :
             Exists(ask.chat) /\ CommitTurn(messages[ask.chat][i])
      BY <2>3
    <3> DEFINE p == messages[ask.chat][i]
    <3>2. ask.chat \in Chats /\ i \in DOMAIN messages[ask.chat]
      BY <1>1, <3>1 DEF Exists, SamePrompt, Submission
    <3>3. messages[ask.chat] \in Seq(Pair(asks))
      BY <1>1, <3>2
    <3>4. p \in Pair(asks)
      BY <3>2, <3>3
    <3> HIDE DEF p
    <3>5. p.id \in 1..asks /\ p.text \in Texts \cup {"none"}
      BY <3>4 DEF Pair
    <3>6. CommitTurn(p)
      BY <3>1 DEF p
    <3>7. QED
      BY <2>1, <3>5, <3>6, CommitKeepsPage
  <2>4. CASE /\ ask' = [ask EXCEPT !.polls = Counted(@)]
             /\ UNCHANGED <<apiVars, threadVars, chatVars>>
    <3>1. /\ ask' = [ask EXCEPT !.polls = ask.polls + 1]
          /\ UNCHANGED apiVars /\ UNCHANGED chatVars
          /\ turns' = turns /\ activeTurn' = activeTurn
      BY <2>4 DEF Counted, threadVars
    <3>2. ask.polls + 1 \in 0..MaxPolls
      BY <1>1, <2>1 DEF Submission
    <3>3. /\ ask' \in Submission(asks) /\ ask'.stage = ask.stage /\ ask'.id = ask.id
          /\ ask'.text = ask.text /\ ask'.chat = ask.chat
      BY <1>1, <3>1, <3>2 DEF Submission
    <3>4. PendingMeansAsking'
      BY <3>1, <3>3 DEF PageInv, PendingMeansAsking
    <3>5. QED
      BY <1>1, <2>1, <3>1, <3>3, <3>4, SubmissionKeepsPage
  <2>5. QED
    BY <2>2, <2>3, <2>4
<1>9. CASE GiveUp
  <2> DEFINE places == {i \in DOMAIN turns : ~IsPending(turns[i])}
  <2>1. /\ turns' = Places(turns, places) /\ ask' = NoAsk /\ ask.stage = "recovering"
        /\ UNCHANGED apiVars /\ UNCHANGED chatVars /\ activeTurn' = activeTurn
    BY <1>9 DEF GiveUp, WithoutPending, Filter
  <2>2. places \in SUBSET (DOMAIN turns)
    OBVIOUS
  <2>3. \A i \in places : ~turns[i].pending
    BY DEF PageInv, PendingMeansAsking, IsPending
  <2> HIDE DEF places
  <2>4. /\ turns' \in Seq(Shown(asks))
        /\ \A n \in DOMAIN turns' : \E i \in places : turns'[n] = turns[i]
    BY <1>1, <2>1, <2>2, PlacesOf
  <2>5. PendingMeansAsking'
    BY <2>3, <2>4 DEF PendingMeansAsking
  <2>6. NoAsk \in Submission(asks) /\ NoAsk.stage = "none"
    BY <1>1 DEF NoAsk, Submission
  <2>7. QED
    BY <1>1, <2>1, <2>4, <2>5, <2>6, SubmissionKeepsPage
<1>10. QED
  BY <1>2, <1>3, <1>4, <1>5, <1>6, <1>7, <1>8, <1>9 DEF Question

(* Deletions keep the closure of their click.                              *)
LEMMA StepKeepsClosures == PageInv /\ ClosuresInv /\ [PageNext]_pageVars => ClosuresInv'
<1> SUFFICES ASSUME PageInv, ClosuresInv, [PageNext]_pageVars PROVE ClosuresInv'
  OBVIOUS
<1>1. activeChat \in Chats \cup {NoChat} /\ chats \subseteq Chats
  BY DEF PageInv, PageValues
<1>2. CASE UNCHANGED deletions
  BY <1>2 DEF ClosuresInv
<1>3. ASSUME NEW x \in Chats, DeleteChat(x) PROVE ClosuresInv'
  <2> DEFINE new == [chat |-> x, active |-> activeChat, listed |-> chats, done |-> FALSE]
  <2>1. new \in Closure /\ new.chat \in new.listed
    BY <1>1, <1>3 DEF DeleteChat, Closure
  <2>2. deletions' = deletions \cup {new}
    BY <1>3 DEF DeleteChat
  <2> HIDE DEF new
  <2>3. QED
    BY <2>1, <2>2 DEF ClosuresInv
<1>4. ASSUME NEW d \in deletions, ChatIsDeleted(d) \/ DeletionFails(d) \/ DeletionReturns(d)
      PROVE  ClosuresInv'
  <2> DEFINE done == [d EXCEPT !.done = TRUE]
  <2>1. done \in Closure /\ done.chat \in done.listed
    BY DEF ClosuresInv, Closure
  <2>2. deletions' \subseteq deletions \cup {done}
    BY <1>4 DEF ChatIsDeleted, DeletionFails, DeletionReturns, Ends
  <2> HIDE DEF done
  <2>3. QED
    BY <2>1, <2>2 DEF ClosuresInv
<1>5. \/ UNCHANGED deletions
      \/ \E x \in Chats : DeleteChat(x)
      \/ Deletion
  BY DEF PageNext, pageVars, clickVars, Click
<1>6. QED
  BY <1>2, <1>3, <1>4, <1>5 DEF Deletion

(* Every step of the page and of the API keeps the invariant.              *)
LEMMA StepKeepsPage == PageInv /\ ClosuresInv /\ [PageNext]_pageVars => PageInv'
<1> SUFFICES ASSUME PageInv, ClosuresInv, [PageNext]_pageVars PROVE PageInv'
  OBVIOUS
<1>1. CASE UNCHANGED pageVars
  <2>1. /\ asks' = asks /\ moves' = moves /\ coll' = coll /\ chats' = chats
        /\ activeChat' = activeChat /\ activeTurn' = activeTurn /\ messages' = messages
        /\ work' = work /\ turns' = turns /\ ask' = ask /\ fetch' = fetch
    BY <1>1 DEF pageVars, apiVars, threadVars, chatVars, clickVars
  <2>2. PageValues' /\ FetchHasChat' /\ CreatingLeavesRoom'
    BY <2>1 DEF PageInv, PageValues, FetchHasChat, CreatingLeavesRoom
  <2>3. WorkIsAsked' /\ PairsAreStored' /\ PendingMeansAsking'
    BY <2>1 DEF PageInv, WorkIsAsked, Asking, PairsAreStored, PendingMeansAsking
  <2>4. QED
    BY <2>2, <2>3 DEF PageInv
<1>2. CASE PageNext
  BY <1>2, ApiKeepsPage, ClickKeepsPage, DeletionKeepsPage, MessagesKeepPage, QuestionKeepsPage
     DEF PageNext, Api, Deliver, clickVars
<1>3. QED
  BY <1>1, <1>2

(* The page opens on a collection, with no question asked.                 *)
LEMMA InitPage == PageInit => PageInv /\ ClosuresInv
<1> SUFFICES ASSUME PageInit PROVE PageInv /\ ClosuresInv
  OBVIOUS
<1>1. coll \in Collections
  BY PageAssumption DEF PageInit
<1>2. /\ asks = 0 /\ moves = 0 /\ activeChat = NoChat /\ chats = {} /\ activeTurn = 0
      /\ work = {} /\ turns = <<>> /\ ask = NoAsk /\ fetch = NoFetch
      /\ messages = [c \in Chats |-> <<>>]
  BY DEF PageInit
<1>3. MaxAsks \in Nat /\ MaxMoves \in Nat /\ MaxPolls \in Nat
  BY PageAssumption
<1>4. NoAsk \in Submission(asks) /\ NoAsk.stage = "none"
  BY <1>2, <1>3 DEF NoAsk, Submission
<1>5. NoFetch \in Fetch(asks) /\ NoFetch.stage = "none"
  BY DEF NoFetch, Fetch
<1>6. PageValues
  BY <1>1, <1>2, <1>3, <1>4, <1>5 DEF PageValues
<1>7. FetchHasChat /\ CreatingLeavesRoom /\ WorkIsAsked /\ PairsAreStored /\ PendingMeansAsking
  BY <1>2, <1>4, <1>5
     DEF FetchHasChat, CreatingLeavesRoom, WorkIsAsked, Asking, PairsAreStored, PendingMeansAsking
<1>8. ClosuresInv
  BY DEF PageInit, ClosuresInv
<1>9. QED
  BY <1>6, <1>7, <1>8 DEF PageInv

(* The invariant implies the type invariant.                               *)
LEMMA PageTypes == PageInv /\ ClosuresInv => PageTypeOK
<1> SUFFICES ASSUME PageInv, ClosuresInv PROVE PageTypeOK
  OBVIOUS
<1>1. \A w \in work : w.id \in 1..asks
  <2> SUFFICES ASSUME NEW w \in work PROVE w.id \in 1..asks
    OBVIOUS
  <2>1. w \in Asked(asks)
    BY DEF PageInv, PageValues
  <2>2. QED
    BY <2>1 DEF Asked
<1>2. /\ ask.stage \in {"none", "creating", "sent", "recovering"}
      /\ ask.polls \in 0..MaxPolls
  BY DEF PageInv, PageValues, Submission
<1>3. \A d \in deletions : d.chat \in d.listed /\ d.listed \subseteq Chats
  BY DEF ClosuresInv, Closure
<1>4. QED
  BY <1>1, <1>2, <1>3 DEF PageInv, PageValues, FetchHasChat, PageTypeOK

(* An answer ends the submission it was asked for, or one with its wording *)
(* in its chat, or the page has given up.                                  *)
LEMMA AnswersFit ==
    ASSUME PageInv, [PageNext]_pageVars, Asking, ask' = NoAsk
    PROVE  \/ \E w \in work : /\ w.stored /\ w.id = activeTurn'
                              /\ w.text = ask.text /\ w.chat = ask.chat
           \/ ask.polls = MaxPolls
<1>1. ask' # ask
  BY DEF Asking, NoAsk
<1>2. Question
  BY <1>1 DEF PageNext, pageVars, Api, Store, AnswerFails, Click, ClickTurn, SelectCollection,
     SelectChat, DeleteChat, Deletion, ChatIsDeleted, DeletionFails, DeletionReturns, clickVars,
     Deliver, ChatsArrive, ReadMessages, MessagesArrive
<1>3. ask \in Submission(asks) /\ MaxPolls \in Nat
  BY PageAssumption DEF PageInv, PageValues
<1>4. CASE Respond
  <2>1. PICK w \in work : w.stored /\ w.id = ask.id /\ CommitTurn(w)
    BY <1>4 DEF Respond
  <2>2. activeTurn' = w.id
    BY <2>1 DEF CommitTurn
  <2>3. w.text = ask.text /\ w.chat = ask.chat
    BY <2>1 DEF PageInv, WorkIsAsked
  <2>4. QED
    BY <2>1, <2>2, <2>3
<1>5. CASE Recover
  <2>1. PICK i \in SamePrompt(ask.text) :
           Exists(ask.chat) /\ CommitTurn(messages[ask.chat][i])
    <3>1. ASSUME ask' = [ask EXCEPT !.polls = Counted(@)] PROVE FALSE
      <4>1. ask'.stage = ask.stage
        BY <1>3, <3>1 DEF Submission
      <4>2. QED
        BY <4>1 DEF NoAsk, Asking
    <3>2. QED
      BY <1>5, <3>1 DEF Recover
  <2> DEFINE p == messages[ask.chat][i]
  <2>2. ask.chat \in Chats /\ i \in DOMAIN messages[ask.chat] /\ p.text = ask.text
    BY <1>3, <2>1 DEF Exists, SamePrompt, Submission
  <2>3. \E w \in work : w.stored /\ w.chat = ask.chat /\ w.id = p.id /\ w.text = p.text
    BY <2>2 DEF PageInv, PairsAreStored
  <2>4. activeTurn' = p.id
    BY <2>1 DEF CommitTurn
  <2>5. QED
    BY <2>2, <2>3, <2>4
<1>6. CASE GiveUp
  BY <1>6 DEF GiveUp
<1>7. CASE Lose
  <2>1. ask'.stage = "recovering"
    BY <1>3, <1>7 DEF Lose, Submission
  <2>2. QED
    BY <2>1 DEF NoAsk
<1>8. QED
  BY <1>2, <1>4, <1>5, <1>6, <1>7 DEF Question, Submit, SubmitWithoutChat, ChatIsCreated,
     ChatIsNotCreated, Asking

(* Whatever becomes of the connection, and in whatever order the answers,  *)
(* chats and messages arrive: a turn is pending only while its question is *)
(* asked, and the answer shown is one that was given to it (handleSubmit,  *)
(* recoverSavedAnswer).                                                    *)
THEOREM ThreadsAreSound == PageSpec => ThreadIsSound
<1>1. PageInv /\ ClosuresInv => PageTypeOK /\ PendingMeansAsking
  BY PageTypes DEF PageInv
<1>2. PageInv /\ [PageNext]_pageVars =>
        [ask.stage \in {"sent", "recovering"} /\ ask' = NoAsk =>
          \/ \E w \in work : /\ w.stored /\ w.id = activeTurn'
                             /\ w.text = ask.text /\ w.chat = ask.chat
          \/ ask.polls = MaxPolls]_pageVars
  BY AnswersFit DEF Asking
<1>3. QED
  BY InitPage, StepKeepsPage, StepKeepsClosures, <1>1, <1>2, PTL DEF PageSpec, ThreadIsSound, AnswerFitsTheQuestion

=============================================================================
