------------------------ MODULE CollectionMemoryProofs ------------------------
(***************************************************************************)
(* Theorems about CollectionMemory, for any documents, plans, workers and  *)
(* faults: it is a client of the job queue that obeys its rules, its       *)
(* variables keep their types, the memory is made from what was published, *)
(* a deleted collection is left alone, and the memory that has settled is  *)
(* embedded as it is written.                                              *)
(***************************************************************************)
EXTENDS PublishedSearch, JobQueueProofs, FiniteSetTheorems

(* Ingestions and checks work on documents, every other job on the         *)
(* collection.                                                             *)
MemoryKind == {k \in Kind : k.type \in {"ingest", "check"} <=> k.target \in Docs}

ProperBatches == {b \in Batches : \A i \in DOMAIN b : b[i] \in MemoryKind}

JobsFit == \A j \in Ids : jobs[j].kind \in MemoryKind

-----------------------------------------------------------------------------
(* A document's job and a job of the collection are proper.                *)
LEMMA ProperJob ==
    /\ \A d \in Docs : Job("ingest", d) \in MemoryKind /\ Job("check", d) \in MemoryKind
    /\ \A type \in {"rebuild", "build_memory", "embed_memory"} :
          Job(type, Collection) \in MemoryKind
BY MemoryAssumption DEF Job, Kind, MemoryKind, MemoryTypes

(* One such job, none, or one per document make a proper batch,            *)
LEMMA ProperBatch ==
    ASSUME NEW n \in {1} \cup 0..Cardinality(Docs), NEW batch \in [1..n -> MemoryKind]
    PROVE  batch \in ProperBatches
<1>1. batch \in [1..n -> Kind] /\ DOMAIN batch = 1..n
  BY DEF MemoryKind
<1>2. batch \in Batches
  BY <1>1, MemoryAssumption DEF FollowUps
<1>3. QED
  BY <1>1, <1>2 DEF ProperBatches

(* and so does what ensure_pending creates.                                *)
LEMMA SmallBatch ==
    /\ <<>> \in ProperBatches
    /\ \A k \in MemoryKind : <<k>> \in ProperBatches
    /\ \A type, target : Job(type, target) \in MemoryKind
                            => Ensure(type, target) \in ProperBatches
<1>1. <<>> \in [1..0 -> MemoryKind]
  OBVIOUS
<1>2. ASSUME NEW k \in MemoryKind
      PROVE  <<k>> \in [1..1 -> MemoryKind]
  OBVIOUS
<1>3. 0 \in {1} \cup 0..Cardinality(Docs) /\ 1 \in {1} \cup 0..Cardinality(Docs)
  BY FS_CardinalityType, MemoryAssumption
<1>4. <<>> \in ProperBatches /\ \A k \in MemoryKind : <<k>> \in ProperBatches
  BY <1>1, <1>2, <1>3, ProperBatch
<1>5. QED
  BY <1>4 DEF Ensure

-----------------------------------------------------------------------------
(***************************************************************************)
(* Every step of the memory is a step of the queue.                        *)
(***************************************************************************)
Acts(w) ==
    \E dropped \in SUBSET Targets, batch \in ProperBatches :
        Fits(batch) /\ CommitWork(w, dropped, batch)

AsksFor ==
    \E dropped \in SUBSET Targets, batch \in ProperBatches :
        Fits(batch) /\ Request(dropped, batch)

QueueStep ==
    \/ \E w \in Workers : Start(w) \/ Loop(w) \/ Crash(w) \/ RaiseError(w) \/ Acts(w)
    \/ \E j \in Ids : Expire(j)
    \/ AsksFor
    \/ DeleteTargets(Targets)

(* What a worker holds is a job of the memory.                             *)
LEMMA HeldJob ==
    ASSUME TypeOK, JobsFit, NEW w \in Workers, pc[w] = "execute"
    PROVE  Type(w) \in {"ingest", "check"} <=> Target(w) \in Docs
<1>1. cur[w] \in Ids
  BY DEF TypeOK
<1>2. jobs[cur[w]].kind \in MemoryKind
  BY <1>1 DEF JobsFit
<1>3. QED
  BY <1>2 DEF MemoryKind, Type, Target

(* The handlers commit proper batches or raise.                            *)
LEMMA WriteActs ==
    ASSUME TypeOK, JobsFit, NEW w \in Workers, Write(w)
    PROVE  Acts(w) \/ RaiseError(w)
<1>1. ASSUME NEW dropped \in SUBSET Targets, NEW batch \in ProperBatches,
             Commit(w, dropped, batch)
      PROVE  Acts(w)
  BY <1>1 DEF Acts, Commit
<1>2. {} \in SUBSET Targets /\ Targets \in SUBSET Targets
  OBVIOUS
<1>3. CASE BuildMemory(w)
  <2>1. Ensure("embed_memory", Collection) \in ProperBatches
    BY ProperJob, SmallBatch
  <2>2. QED
    BY <1>1, <1>2, <1>3, <2>1 DEF BuildMemory
<1>4. CASE EmbedMemory(w)
  BY <1>1, <1>2, <1>4, SmallBatch DEF EmbedMemory
<1>5. CASE Ingest(w)
  <2>1. Target(w) \in Docs
    BY <1>5, HeldJob DEF Ingest, At
  <2>2. Ensure("check", Target(w)) \in ProperBatches
    BY <2>1, ProperJob, SmallBatch
  <2>3. QED
    BY <1>1, <1>2, <1>5, <2>2 DEF Ingest
<1>6. CASE IngestRefused(w)
  BY <1>6 DEF IngestRefused
<1>7. CASE Check(w)
  BY <1>1, <1>2, <1>7, SmallBatch DEF Check
<1>8. CASE Rebuild(w)
  <2>1. PICK batch \in [1..Cardinality(Present) -> {Job("ingest", d) : d \in Present}] :
           /\ Commit(w, Targets, batch)
           /\ \A i, k \in DOMAIN batch : batch[i] = batch[k] => i = k
    BY <1>8 DEF Rebuild
  <2>2. Cardinality(Present) \in 0..Cardinality(Docs)
    <3>1. Present \subseteq Docs
      BY DEF Present
    <3>2. IsFiniteSet(Present) /\ Cardinality(Present) <= Cardinality(Docs)
      BY <3>1, FS_Subset, MemoryAssumption
    <3>3. Cardinality(Present) \in Nat /\ Cardinality(Docs) \in Nat
      BY <3>2, FS_CardinalityType, MemoryAssumption
    <3>4. QED
      BY <3>2, <3>3
  <2>3. batch \in [1..Cardinality(Present) -> MemoryKind]
    BY <2>1, ProperJob DEF Present
  <2>4. batch \in ProperBatches
    BY <2>2, <2>3, ProperBatch
  <2>5. QED
    BY <1>1, <1>2, <2>1, <2>4
<1>9. CASE Refuse(w)
  BY <1>9 DEF Refuse
<1>10. QED
  BY <1>3, <1>4, <1>5, <1>6, <1>7, <1>8, <1>9 DEF Write

(* So does every other step: it is the queue's, or none of its business.   *)
LEMMA MemoryQueueStep ==
    ASSUME TypeOK, JobsFit, [MemoryNext]_memoryVars
    PROVE  QueueStep \/ UNCHANGED queueVars
<1>1. ASSUME NEW w \in Workers, Poll(w) PROVE QueueStep
  BY <1>1 DEF Poll, QueueStep
<1>2. ASSUME NEW w \in Workers, Begin(w) \/ CallQdrant(w) \/ ClearPoint(w) \/ UpsertPoint(w)
      PROVE  UNCHANGED queueVars
  BY <1>2 DEF Begin, CallQdrant, ClearPoint, UpsertPoint
<1>3. ASSUME NEW w \in Workers, Write(w) PROVE QueueStep
  BY <1>3, WriteActs DEF QueueStep
<1>4. ASSUME NEW w \in Workers, Break(w) PROVE QueueStep
  BY <1>4 DEF Break, Abort, QueueStep
<1>5. ASSUME NEW j \in Ids, Time(j) PROVE QueueStep
  BY <1>5 DEF Time, QueueStep
<1>6. CASE Ask
  <2>1. ASSUME NEW dropped \in SUBSET Targets, NEW batch \in ProperBatches,
               Fits(batch), Request(dropped, batch)
        PROVE  QueueStep
    BY <2>1 DEF AsksFor, QueueStep
  <2>2. /\ <<Job("rebuild", Collection)>> \in ProperBatches
        /\ Ensure("build_memory", Collection) \in ProperBatches
        /\ \A d \in Docs : <<Job("ingest", d)>> \in ProperBatches /\ {d} \in SUBSET Targets
    BY ProperJob, SmallBatch, MemoryAssumption
  <2>3. CASE EnqueueMemory
    BY <2>1, <2>2, <2>3 DEF EnqueueMemory
  <2>4. CASE RequestRebuild
    BY <2>1, <2>2, <2>4 DEF RequestRebuild
  <2>5. CASE StartDeletion
    BY <2>5 DEF StartDeletion
  <2>6. CASE CommitDeletion
    BY <2>6 DEF CommitDeletion, QueueStep
  <2>7. ASSUME NEW d \in Docs, Upload(d) PROVE QueueStep
    BY <2>1, <2>2, <2>7 DEF Upload
  <2>8. QED
    BY <1>6, <2>3, <2>4, <2>5, <2>6, <2>7 DEF Ask
<1>7. CASE UNCHANGED memoryVars
  BY <1>7 DEF memoryVars
<1>8. QED
  BY <1>1, <1>2, <1>3, <1>4, <1>5, <1>6, <1>7 DEF MemoryNext, Work

(* The steps of the queue the memory takes are steps of JobQueue.          *)
LEMMA QueueStepIsNext == QueueStep => Next
BY DEF QueueStep, Acts, AsksFor, ProperBatches, Next, Handler, Api, Fault

(* Rows never change what they are about, and proper batches keep the      *)
(* table fit.                                                              *)
LEMMA JobsStayFit ==
    ASSUME TypeOK, JobsFit, QueueStep \/ UNCHANGED queueVars
    PROVE  JobsFit'
<1> USE JobQueueAssumption DEF Ids
<1>0. /\ jobs \in Seq(Row) /\ DOMAIN jobs = 1..Len(jobs) /\ Len(jobs) \in Nat
      /\ \A j \in DOMAIN jobs : jobs[j] \in Row
  BY LenProperties, ElementOfSeq DEF TypeOK
<1>1. ASSUME DOMAIN jobs' = DOMAIN jobs,
             \A j \in DOMAIN jobs : jobs'[j].kind = jobs[j].kind
      PROVE  JobsFit'
  BY <1>1 DEF JobsFit
<1>2. ASSUME NEW dropped, NEW spared, NEW batch \in ProperBatches,
             jobs' = Transact(dropped, spared, batch)
      PROVE  JobsFit'
  <2>1. TransactEffect(dropped, spared, batch)
    BY <1>0, <1>2, TransactTable DEF ProperBatches
  <2>2. ASSUME NEW j \in DOMAIN jobs PROVE jobs'[j].kind \in MemoryKind
    <3>1. \/ jobs'[j] = jobs[j]
          \/ jobs'[j] = [jobs[j] EXCEPT !.status = "deleted"]
      BY <2>1 DEF TransactEffect
    <3>2. [jobs[j] EXCEPT !.status = "deleted"].kind = jobs[j].kind
      BY <1>0, RowWrites DEF Statuses
    <3>3. QED
      BY <3>1, <3>2 DEF JobsFit
  <2>3. ASSUME NEW j \in DOMAIN jobs' \ DOMAIN jobs
        PROVE  jobs'[j].kind \in MemoryKind
    <3>1. PICK i \in DOMAIN batch : j = Len(jobs) + i
      BY <2>1 DEF TransactEffect
    <3>2. jobs'[j] = NewRow(batch[i])
      BY <2>1, <3>1 DEF TransactEffect
    <3>3. NewRow(batch[i]).kind = batch[i]
      BY DEF NewRow
    <3>4. QED
      BY <3>2, <3>3 DEF ProperBatches
  <2>4. QED
    BY <2>2, <2>3 DEF JobsFit
<1>3. ASSUME NEW w \in Workers, Loop(w) PROVE JobsFit'
  <2>1. CASE Claim(w)
    BY <1>0, <1>1, <2>1, ClaimRows DEF Row
  <2>2. CASE ClaimUnhandled(w)
    BY <1>0, <1>1, <2>2, ClaimUnhandledRows DEF Row, Failed
  <2>3. CASE Succeed(w)
    BY <1>0, <1>1, <2>3, SucceedRows DEF Row
  <2>4. CASE Fail(w)
    BY <1>0, <1>1, <2>4, FailRows DEF Row, Failed
  <2>5. CASE RequeueStale(w)
    BY <1>0, <1>1, <2>5, RequeueRows DEF Row
  <2>6. CASE ScanStale(w) \/ RequeueRolledBack(w) \/ Pick(w) \/ ClaimLost(w)
    <3>1. UNCHANGED jobs
      BY <2>6 DEF ScanStale, RequeueRolledBack, Pick, Release, ClaimLost
    <3>2. QED
      BY <1>1, <3>1
  <2>7. QED
    BY <1>3, <2>1, <2>2, <2>3, <2>4, <2>5, <2>6 DEF Loop
<1>4. ASSUME NEW w \in Workers, Acts(w) PROVE JobsFit'
  BY <1>2, <1>4 DEF Acts, CommitWork
<1>5. CASE AsksFor
  BY <1>2, <1>5 DEF AsksFor, Request
<1>6. CASE DeleteTargets(Targets)
  BY <1>0, <1>1, <1>6, DeleteRows DEF Row
<1>7. ASSUME UNCHANGED jobs PROVE JobsFit'
  BY <1>1, <1>7
<1>8. ASSUME NEW w \in Workers, Start(w) \/ Crash(w) \/ RaiseError(w)
      PROVE  UNCHANGED jobs
  BY <1>8 DEF Start, RaiseError, Crash
<1>9. ASSUME NEW j \in Ids, Expire(j) PROVE UNCHANGED jobs
  BY <1>9 DEF Expire
<1>10. CASE UNCHANGED queueVars
  BY <1>7, <1>10 DEF queueVars
<1>11. QED
  BY <1>3, <1>4, <1>5, <1>6, <1>7, <1>8, <1>9, <1>10 DEF QueueStep

(* The two together are inductive.                                         *)
LEMMA QueueInit == MemoryInit => TypeOK /\ JobsFit
<1> SUFFICES ASSUME MemoryInit PROVE TypeOK /\ JobsFit
  OBVIOUS
<1>1. Init /\ TypeOK
  BY TypeInit, JobQueueAssumption DEF MemoryInit
<1>2. Ids = {}
  BY <1>1 DEF Init, Ids
<1>3. QED
  BY <1>1, <1>2 DEF JobsFit

(* No step of the memory breaks either.                                    *)
LEMMA QueueKept ==
    TypeOK /\ JobsFit /\ [MemoryNext]_memoryVars => (TypeOK /\ JobsFit)'
<1> SUFFICES ASSUME TypeOK, JobsFit, [MemoryNext]_memoryVars
             PROVE  TypeOK' /\ JobsFit'
  OBVIOUS
<1>1. QueueStep \/ UNCHANGED queueVars
  BY MemoryQueueStep
<1>2. QED
  BY <1>1, QueueStepIsNext, TypeStep, JobsStayFit, JobQueueAssumption

(* The memory is a client of the queue: whatever its handlers, requests    *)
(* and the deletion of the collection do to the table of jobs is what      *)
(* JobQueue allows them, so that its theorems hold of these jobs too.      *)
THEOREM MemoryRefinesQueue == MemorySpec => Spec
<1>1. MemoryInit => Init
  BY DEF MemoryInit
<1>2. TypeOK /\ JobsFit /\ [MemoryNext]_memoryVars => [Next]_queueVars
  BY MemoryQueueStep, QueueStepIsNext
<1>3. QED
  BY <1>1, <1>2, QueueInit, QueueKept, PTL DEF MemorySpec, Spec

-----------------------------------------------------------------------------
(***************************************************************************)
(* The data.  Whatever is in the memory, in its point or in the hands of a *)
(* handler comes from published generations; a handler that found the      *)
(* collection began before its deletion.                                   *)
(***************************************************************************)
RowOK(row) ==
    /\ row \in DocRow
    /\ row.rows <= row.made /\ row.points \subseteq 1..row.made
    /\ row.status \in {"indexed", "ready"} => row.rows >= 1

DocsOK ==
    /\ doc \in [Docs -> DocRow]
    /\ \A d \in Docs : RowOK(doc[d])
    /\ \A d \in Docs : doc[d].status = "ready" => <<d, doc[d].rows>> \in published
    /\ published \in Text /\ Existing(published)

MemoryOK ==
    /\ memory \in MemoryRow
    /\ memory.text \subseteq published /\ point \subseteq published
    /\ payload \in [1..MaxJobs -> Payload]

ReadRow(pub, given) ==
    [step : {"read", "cleared", "called"}, found : BOOLEAN, coll : BOOLEAN, busy : BOOLEAN,
     sources : SUBSET pub, payload : given, text : SUBSET pub]

ReadOK(r, pub) ==
    /\ r \in ReadRow(pub, {r.payload})
    /\ r.found => r.coll
    /\ r.step \in {"cleared", "called"} => r.found

SeenOK ==
    /\ seen = [w \in Workers |-> seen[w]]
    /\ \A w \in Workers : seen[w] = Unread \/ ReadOK(seen[w], published)

FlagsOK ==
    /\ coll \in BOOLEAN /\ leaving \in BOOLEAN /\ swallowed \in BOOLEAN
    /\ unsent \in BOOLEAN
    /\ leaving => coll
    /\ unsent => ~QdrantRequired

DataOK == DocsOK /\ MemoryOK /\ SeenOK /\ FlagsOK

(* What no step takes back.                                                *)
Grows ==
    /\ published \subseteq published'
    /\ \A d \in Docs : doc[d].made <= doc'[d].made

(* A document may become `row` when it was `old`, without publication.     *)
Fine(row, old) ==
    /\ RowOK(row) /\ old.made <= row.made
    /\ row.status = "ready" => old.status = "ready" /\ old.rows = row.rows

-----------------------------------------------------------------------------
(* Documents stay well-formed when each of them may become what it does.   *)
LEMMA DocsKept ==
    ASSUME DocsOK, UNCHANGED published, doc' = [d \in Docs |-> doc'[d]],
           \A d \in Docs : Fine(doc'[d], doc[d])
    PROVE  DocsOK' /\ Grows
<1>1. doc' \in [Docs -> DocRow] /\ \A d \in Docs : RowOK(doc'[d])
  BY DEF Fine, RowOK
<1>2. \A d \in Docs : doc'[d].status = "ready" => <<d, doc'[d].rows>> \in published'
  BY DEF Fine, DocsOK
<1>3. \A d \in Docs : /\ doc[d].made <= doc'[d].made
                      /\ doc[d].made \in Nat /\ doc'[d].made \in Nat
  BY <1>1 DEF Fine, DocsOK, DocRow
<1>4. Existing(published)'
  <2> SUFFICES ASSUME NEW h \in published PROVE h[2] \in 1..doc'[h[1]].made
    BY DEF Existing
  <2>1. h[1] \in Docs /\ h[2] \in 1..doc[h[1]].made
    BY DEF DocsOK, Text, Generation, Existing
  <2>2. QED
    BY <1>3, <2>1
<1>5. QED
  BY <1>1, <1>2, <1>3, <1>4 DEF DocsOK, Grows

(* They are, when nothing is written.                                      *)
LEMMA DocsUntouched ==
    ASSUME DocsOK, UNCHANGED <<doc, published>>
    PROVE  DocsOK' /\ Grows
<1>1. \A d \in Docs : doc[d].made <= doc[d].made
  BY DEF DocsOK, DocRow
<1>2. QED
  BY <1>1 DEF DocsOK, Existing, Grows

(* When the rows of one document become `row`.                             *)
LEMMA OneDocument ==
    ASSUME DocsOK, NEW d \in Docs, NEW row, Fine(row, doc[d]),
           UNCHANGED published, doc' = [doc EXCEPT ![d] = row]
    PROVE  DocsOK' /\ Grows
<1>1. doc' = [c \in Docs |-> doc'[c]]
  BY DEF DocsOK
<1>2. \A c \in Docs : doc'[c] = IF c = d THEN row ELSE doc[c]
  BY DEF DocsOK
<1>3. ASSUME NEW c \in Docs PROVE Fine(doc[c], doc[c])
  BY DEF DocsOK, Fine, RowOK, DocRow
<1>4. QED
  BY <1>1, <1>2, <1>3, DocsKept

(* Dropping points is harmless.                                            *)
LEMMA PointsDropped ==
    ASSUME DocsOK, NEW docs, DropPoints(docs), UNCHANGED published
    PROVE  DocsOK' /\ Grows
<1>1. doc' = [d \in Docs |-> doc'[d]]
  BY DEF DropPoints, AfterCall, DocsOK
<1>2. ASSUME NEW d \in Docs PROVE Fine(doc'[d], doc[d])
  <2>1. doc[d] \in DocRow /\ RowOK(doc[d])
    BY DEF DocsOK
  <2>2. LET r == [doc[d] EXCEPT !.points = {}] IN
           r \in DocRow /\ RowOK(r) /\ Fine(r, doc[d])
    BY <2>1 DEF RowOK, DocRow, Fine
  <2>3. doc'[d] = doc[d] \/ doc'[d] = [doc[d] EXCEPT !.points = {}]
    BY DEF DropPoints, AfterCall
  <2>4. Fine(doc[d], doc[d])
    BY <2>1 DEF Fine, RowOK, DocRow
  <2>5. QED
    BY <2>2, <2>3, <2>4
<1>3. QED
  BY <1>1, <1>2, DocsKept

(* What handlers have read stays in order when one of them moves on.       *)
LEMMA SeenKept ==
    ASSUME SeenOK, published \subseteq published', NEW w \in Workers, NEW r,
           seen' = [seen EXCEPT ![w] = r], r = Unread \/ ReadOK(r, published')
    PROVE  SeenOK'
<1>1. seen' = [v \in Workers |-> IF v = w THEN r ELSE seen[v]]
  BY DEF SeenOK
<1>2. ASSUME NEW v \in Workers PROVE seen[v] = Unread \/ ReadOK(seen[v], published')
  BY DEF SeenOK, ReadOK, ReadRow
<1>3. seen' = [v \in Workers |-> seen'[v]]
  BY <1>1
<1>4. QED
  BY <1>1, <1>2, <1>3 DEF SeenOK

(* And when none does.                                                     *)
LEMMA SeenUntouched ==
    ASSUME SeenOK, published \subseteq published', UNCHANGED seen
    PROVE  SeenOK'
BY DEF SeenOK, ReadOK, ReadRow

-----------------------------------------------------------------------------
(* The empty memory is a memory.                                           *)
LEMMA EmptyMemory == NoMemory \in MemoryRow /\ NoMemory.text = {}
BY DEF NoMemory, MemoryRow, Text

(* A request for an embedding writes a payload or drops the request.       *)
LEMMA PayloadKept ==
    ASSUME MemoryOK, FlagsOK, NEW request \in Payload, RequestEmbedding(request)
    PROVE  payload' \in [1..MaxJobs -> Payload] /\ swallowed' \in BOOLEAN
<1>1. \A old : Merged(old, request) \in Payload
  BY DEF Merged, Payload
<1>2. \A k : [payload EXCEPT ![k] = request] \in [1..MaxJobs -> Payload]
  BY DEF MemoryOK
<1>3. \A k, old : [payload EXCEPT ![k] = Merged(old, request)] \in [1..MaxJobs -> Payload]
  BY <1>1 DEF MemoryOK
<1>4. payload' \in [1..MaxJobs -> Payload]
  BY <1>2, <1>3 DEF RequestEmbedding, MemoryOK
<1>5. swallowed' \in BOOLEAN
  BY DEF RequestEmbedding, FlagsOK
<1>6. QED
  BY <1>4, <1>5

(* What a handler reads when it begins is in order.                        *)
LEMMA BeginReads ==
    ASSUME DataOK, NEW w \in Workers, Begin(w)
    PROVE  DataOK' /\ Grows
<1> DEFINE busy == \E j \in Ids : Has(j, "running") /\ j # cur[w]
           r == [step |-> "read", found |-> Found(w), coll |-> coll, busy |-> busy,
                 sources |-> Sources, payload |-> payload[cur[w]], text |-> {}]
<1>1. DocsOK' /\ Grows
  BY DocsUntouched DEF Begin, corpusVars, DataOK
<1>2. Sources \subseteq published
  BY DEF Sources, DataOK, DocsOK
<1>3. ReadOK(r, published')
  <2>1. Found(w) \in BOOLEAN /\ busy \in BOOLEAN /\ coll \in BOOLEAN /\ (Found(w) => coll)
    BY DEF Found, DataOK, FlagsOK
  <2>2. Sources \in SUBSET published' /\ {} \in SUBSET published'
    BY <1>1, <1>2 DEF Grows
  <2> HIDE DEF busy
  <2>3. r \in ReadRow(published', {r.payload})
    BY <2>1, <2>2 DEF ReadRow
  <2>4. r.found = Found(w) /\ r.coll = coll /\ r.step = "read"
    OBVIOUS
  <2>5. QED
    BY <2>1, <2>3, <2>4 DEF ReadOK
<1>4. seen' = [seen EXCEPT ![w] = r]
  BY DEF Begin
<1>5. SeenOK'
  <2> HIDE DEF r
  <2> QED
    BY <1>1, <1>3, <1>4, SeenKept DEF DataOK, Grows
<1>6. MemoryOK' /\ FlagsOK'
  BY DEF Begin, corpusVars, DataOK, MemoryOK, FlagsOK
<1>7. QED
  BY <1>1, <1>5, <1>6 DEF DataOK

(* What a handler on a job has read when it goes on.                       *)
LEMMA HandlerRead ==
    ASSUME SeenOK, NEW w \in Workers, seen[w].step # "unread"
    PROVE  ReadOK(seen[w], published)
BY DEF SeenOK, Unread

(* One more step after such a reading.                                     *)
LEMMA ReadOn ==
    ASSUME NEW r, NEW pub, ReadOK(r, pub), r.found, NEW text \in SUBSET pub
    PROVE  /\ ReadOK([r EXCEPT !.step = "called"], pub)
           /\ ReadOK([r EXCEPT !.step = "cleared", !.text = text], pub)
<1>1. r \in ReadRow(pub, {r.payload}) /\ r.found /\ r.coll
  BY DEF ReadOK
<1>2. ASSUME NEW t, t \in ReadRow(pub, {r.payload}), t.found, t.coll
      PROVE  ReadOK(t, pub)
  <2>1. t.payload = r.payload
    BY <1>2 DEF ReadRow
  <2>2. QED
    BY <1>2, <2>1 DEF ReadOK
<1>3. LET t == [r EXCEPT !.step = "called"] IN
         t \in ReadRow(pub, {r.payload}) /\ t.found /\ t.coll
  BY <1>1 DEF ReadRow
<1>4. LET t == [r EXCEPT !.step = "cleared", !.text = text] IN
         t \in ReadRow(pub, {r.payload}) /\ t.found /\ t.coll
  BY <1>1 DEF ReadRow
<1>5. QED
  BY <1>2, <1>3, <1>4

(* The calls to Qdrant keep the data in order.                             *)
LEMMA CallsKeepData ==
    ASSUME DataOK, NEW w \in Workers, CallQdrant(w) \/ ClearPoint(w) \/ UpsertPoint(w)
    PROVE  DataOK' /\ Grows
<1>1. FlagsOK'
  <2>1. UNCHANGED <<coll, leaving, swallowed>>
    BY DEF CallQdrant, ClearPoint, UpsertPoint
  <2>2. \/ unsent' = unsent
        \/ unsent' = FALSE
        \/ unsent' = TRUE /\ ~QdrantRequired
    BY Zenon DEF CallQdrant, ClearPoint, UpsertPoint
  <2>3. /\ coll \in BOOLEAN /\ leaving \in BOOLEAN /\ swallowed \in BOOLEAN
        /\ unsent \in BOOLEAN /\ (leaving => coll) /\ (unsent => ~QdrantRequired)
    BY DEF DataOK, FlagsOK
  <2>4. unsent' \in BOOLEAN /\ (unsent' => ~QdrantRequired)
    <3>1. CASE unsent' = unsent
      BY <2>3, <3>1
    <3>2. CASE unsent' = FALSE
      BY <3>2
    <3>3. CASE unsent' = TRUE /\ ~QdrantRequired
      BY <3>3
    <3>4. QED
      BY <2>2, <3>1, <3>2, <3>3
  <2>5. QED
    BY <2>1, <2>3, <2>4 DEF FlagsOK
<1>2. ASSUME seen[w].step # "unread" PROVE ReadOK(seen[w], published)
  BY <1>2, HandlerRead DEF DataOK
<1>3. CASE CallQdrant(w)
  <2>1. seen[w].step # "unread" /\ seen[w].found
    BY <1>3 DEF CallQdrant, At
  <2>2. DocsOK' /\ Grows
    BY <1>3, PointsDropped DEF CallQdrant, DataOK
  <2>3. point' \in {{}, point} /\ UNCHANGED <<memory, payload, published>>
    BY <1>3 DEF CallQdrant, DropPoints, AfterCall
  <2>4. MemoryOK'
    BY <2>3 DEF DataOK, MemoryOK
  <2>5. seen' = [seen EXCEPT ![w] = [seen[w] EXCEPT !.step = "called"]]
    BY <1>3 DEF CallQdrant
  <2>6. ReadOK([seen[w] EXCEPT !.step = "called"], published')
    BY <1>2, <2>1, <2>3, ReadOn
  <2>7. SeenOK'
    BY <2>2, <2>5, <2>6, SeenKept DEF DataOK, Grows
  <2>8. QED
    BY <1>1, <2>2, <2>4, <2>7 DEF DataOK
<1>4. CASE ClearPoint(w)
  <2>1. seen[w].step # "unread" /\ seen[w].found
    BY <1>4 DEF ClearPoint, At
  <2>2. DocsOK' /\ Grows
    BY <1>4, DocsUntouched DEF ClearPoint, DataOK
  <2>3. point' \in {{}, point} /\ UNCHANGED <<memory, payload, published>>
    BY <1>4 DEF ClearPoint, AfterCall
  <2>4. MemoryOK'
    BY <2>3 DEF DataOK, MemoryOK
  <2>5. seen' = [seen EXCEPT ![w] =
                    [seen[w] EXCEPT !.step = "cleared", !.text = memory.text]]
    BY <1>4 DEF ClearPoint, DataOK, SeenOK
  <2>6. memory.text \in SUBSET published
    BY DEF DataOK, MemoryOK
  <2>7. ReadOK([seen[w] EXCEPT !.step = "cleared", !.text = memory.text], published')
    BY <1>2, <2>1, <2>3, <2>6, ReadOn
  <2>8. SeenOK'
    BY <2>2, <2>5, <2>7, SeenKept DEF DataOK, Grows
  <2>9. QED
    BY <1>1, <2>2, <2>4, <2>8 DEF DataOK
<1>5. CASE UpsertPoint(w)
  <2>1. seen[w].step = "cleared"
    BY <1>5 DEF UpsertPoint, At
  <2>2. ReadOK(seen[w], published) /\ seen[w].found
    BY <1>2, <2>1 DEF ReadOK
  <2>3. DocsOK' /\ Grows
    BY <1>5, DocsUntouched DEF UpsertPoint, DataOK
  <2>4. point' \in {seen[w].text, point} /\ UNCHANGED <<memory, payload, published>>
    BY <1>5 DEF UpsertPoint
  <2>5. MemoryOK'
    BY <2>2, <2>4 DEF DataOK, MemoryOK, ReadOK, ReadRow
  <2>6. seen' = [seen EXCEPT ![w] = [seen[w] EXCEPT !.step = "called"]]
    BY <1>5 DEF UpsertPoint
  <2>7. ReadOK([seen[w] EXCEPT !.step = "called"], published')
    BY <2>2, <2>4, ReadOn
  <2>8. SeenOK'
    BY <2>3, <2>6, <2>7, SeenKept DEF DataOK, Grows
  <2>9. QED
    BY <1>1, <2>3, <2>5, <2>8 DEF DataOK
<1>6. QED
  BY <1>3, <1>4, <1>5

-----------------------------------------------------------------------------
(* A handler that is done has read nothing any more.                       *)
LEMMA Forgets ==
    ASSUME SeenOK, published \subseteq published', NEW w \in Workers, Forget(w)
    PROVE  SeenOK'
BY SeenKept DEF Forget

(* The memory, when it keeps to what is published.                         *)
LEMMA MemoryKept ==
    ASSUME MemoryOK, published \subseteq published',
           memory' \in MemoryRow, memory'.text \subseteq published,
           UNCHANGED <<point, unsent, payload>>
    PROVE  MemoryOK'
BY DEF MemoryOK

(* A memory that a handler rewrites.                                       *)
LEMMA Rewritten ==
    ASSUME NEW m \in MemoryRow, NEW text \in Text, NEW embedded \in BOOLEAN
    PROVE  /\ [m EXCEPT !.text = text, !.embedded = embedded] \in MemoryRow
           /\ [m EXCEPT !.text = text, !.embedded = embedded].text = text
           /\ [m EXCEPT !.code = text, !.embedded = embedded] \in MemoryRow
           /\ [m EXCEPT !.code = text, !.embedded = embedded].text = m.text
BY DEF MemoryRow

(* BUILD_COLLECTION_MEMORY writes a text made of published generations.    *)
LEMMA BuildKeepsData ==
    ASSUME DataOK, NEW w \in Workers, BuildMemory(w)
    PROVE  DataOK' /\ Grows
<1>1. seen[w].step # "unread" /\ seen[w].sources \in SUBSET published
  BY HandlerRead DEF BuildMemory, At, DataOK, ReadOK, ReadRow
<1>2. DocsOK' /\ Grows
  BY DocsUntouched DEF BuildMemory, DataOK
<1>3. published \in SUBSET Generation
  BY DEF DataOK, DocsOK, Text
<1>4. seen[w].sources \in Text
  BY <1>1, <1>3 DEF Text
<1>5. memory' = [memory EXCEPT !.text = seen[w].sources, !.embedded = FALSE]
  BY DEF BuildMemory
<1>6. memory' \in MemoryRow /\ memory'.text = seen[w].sources
  BY <1>4, <1>5, Rewritten DEF DataOK, MemoryOK
<1>7. payload' \in [1..MaxJobs -> Payload] /\ swallowed' \in BOOLEAN
  <2> DEFINE a == (seen[w].sources = {})
             b == (seen[w].sources = {} /\ memory.text # {})
  <2>1. a \in BOOLEAN /\ b \in BOOLEAN
    OBVIOUS
  <2>2. RequestEmbedding([deleteOnly |-> a, obsolete |-> b])
    BY DEF BuildMemory
  <2> HIDE DEF a, b
  <2>3. [deleteOnly |-> a, obsolete |-> b] \in Payload
    BY <2>1 DEF Payload
  <2>4. QED
    BY <2>2, <2>3, PayloadKept DEF DataOK
<1>8. UNCHANGED <<point, unsent, published, coll, leaving>> /\ Forget(w)
  BY DEF BuildMemory, Commit
<1>9. MemoryOK' /\ FlagsOK'
  BY <1>1, <1>6, <1>7, <1>8 DEF DataOK, MemoryOK, FlagsOK
<1>10. SeenOK'
  BY <1>8, Forgets DEF DataOK
<1>11. QED
  BY <1>2, <1>9, <1>10 DEF DataOK

(* EMBED_COLLECTION_MEMORY writes a code and a mark.                       *)
LEMMA EmbedKeepsData ==
    ASSUME DataOK, NEW w \in Workers, EmbedMemory(w)
    PROVE  DataOK' /\ Grows
<1> DEFINE code == IF ~NothingToEmbed(w) THEN seen[w].text
                   ELSE IF seen[w].payload.obsolete THEN {} ELSE memory.code
           mark == memory.embedded \/ (~NothingToEmbed(w) /\ memory.text # {})
<1>1. seen[w].text \in SUBSET published
  BY HandlerRead DEF EmbedMemory, At, DataOK, ReadOK, ReadRow
<1>2. DocsOK' /\ Grows
  BY DocsUntouched DEF EmbedMemory, DataOK
<1>3. memory' = [memory EXCEPT !.code = code, !.embedded = mark]
  BY DEF EmbedMemory, DataOK, MemoryOK, MemoryRow
<1>4. memory \in MemoryRow /\ memory.text \subseteq published
      /\ published \in SUBSET Generation
  BY DEF DataOK, MemoryOK, DocsOK, Text
<1>5. code \in Text
  BY <1>1, <1>4 DEF MemoryRow, Text
<1>6. mark \in BOOLEAN
  OBVIOUS
<1>7. memory' \in MemoryRow /\ memory'.text = memory.text
  <2> HIDE DEF code, mark
  <2> QED
    BY <1>3, <1>4, <1>5, <1>6, Rewritten
<1>8. UNCHANGED <<point, unsent, payload, published, coll, leaving, swallowed>> /\ Forget(w)
  BY DEF EmbedMemory, Commit
<1>9. MemoryOK' /\ FlagsOK' /\ SeenOK'
  BY <1>4, <1>7, <1>8, MemoryKept, Forgets DEF DataOK, FlagsOK
<1>10. QED
  BY <1>2, <1>9 DEF DataOK

(* An ingestion commits a generation that is not published yet, or leaves  *)
(* nothing of the document.                                                *)
LEMMA IngestKeepsData ==
    ASSUME TypeOK, JobsFit, DataOK, NEW w \in Workers, Ingest(w) \/ IngestRefused(w)
    PROVE  DataOK' /\ Grows
<1> DEFINE d == Target(w)
           gen == doc[d].made + 1
           new == [status |-> "indexed", rows |-> gen, made |-> gen,
                   points |-> doc[d].points \cup {gen}]
           lost == [status |-> "indexed", rows |-> gen, made |-> gen,
                    points |-> doc[d].points]
           gone == [doc[d] EXCEPT !.status = "failed", !.rows = 0]
<1>1. d \in Docs
  BY HeldJob DEF Ingest, IngestRefused, At
<1>2. RowOK(doc[d]) /\ doc \in [Docs -> DocRow] /\ doc[d] \in DocRow
  BY <1>1 DEF DataOK, DocsOK
<1>3. Fine(new, doc[d]) /\ Fine(lost, doc[d])
  <2>1. doc[d].made \in Nat /\ doc[d].points \subseteq 1..doc[d].made
    BY <1>2 DEF RowOK, DocRow
  <2>2. gen \in Nat /\ gen >= 1 /\ doc[d].points \cup {gen} \subseteq 1..gen
        /\ doc[d].made <= gen /\ doc[d].points \subseteq 1..gen
    BY <2>1
  <2> HIDE DEF gen
  <2>3. new \in DocRow /\ lost \in DocRow
    BY <2>1, <2>2 DEF DocRow, DocStatuses
  <2>4. QED
    BY <2>2, <2>3 DEF Fine, RowOK
<1>4. Fine(gone, doc[d])
  <2>1. gone \in DocRow /\ gone.status = "failed" /\ gone.rows = 0
        /\ gone.made = doc[d].made /\ gone.points = doc[d].points
    BY <1>2 DEF DocRow, DocStatuses
  <2>2. doc[d].made \in Nat
    BY <1>2 DEF DocRow
  <2> HIDE DEF gone
  <2>3. QED
    BY <1>2, <2>1, <2>2 DEF Fine, RowOK
<1>5. \/ doc' = [doc EXCEPT ![d] = new]
      \/ doc' = [doc EXCEPT ![d] = lost]
      \/ doc' = [doc EXCEPT ![d] = gone]
  <2>1. CASE Ingest(w)
    BY <2>1 DEF Ingest, AfterCall
  <2>2. CASE IngestRefused(w)
    BY <1>1, <1>2, <2>2 DEF IngestRefused, DocRow
  <2>3. QED
    BY <2>1, <2>2
<1>6. memory' = NoMemory /\ UNCHANGED <<point, unsent, payload, published, coll, leaving, swallowed>>
      /\ Forget(w)
  BY DEF Ingest, IngestRefused, Commit
<1>7. DocsOK' /\ Grows
  <2> HIDE DEF new, lost, gone
  <2> QED
    BY <1>1, <1>3, <1>4, <1>5, <1>6, OneDocument DEF DataOK
<1>8. MemoryOK' /\ FlagsOK' /\ SeenOK'
  BY <1>6, EmptyMemory, MemoryKept, Forgets DEF DataOK, FlagsOK
<1>9. QED
  BY <1>7, <1>8 DEF DataOK

(* The barrier makes a complete document READY, and that publishes it.     *)
LEMMA CheckKeepsData ==
    ASSUME TypeOK, JobsFit, DataOK, NEW w \in Workers, Check(w)
    PROVE  DataOK' /\ Grows
<1> DEFINE d == Target(w)
           complete == doc[d].status \in {"indexed", "ready"}
           row == [doc[d] EXCEPT !.status = "ready"]
<1>1. d \in Docs
  BY HeldJob DEF Check, At
<1>2. RowOK(doc[d]) /\ doc \in [Docs -> DocRow] /\ doc[d] \in DocRow
  BY <1>1 DEF DataOK, DocsOK
<1>3. UNCHANGED <<memory, point, unsent, payload, swallowed, coll, leaving>> /\ Forget(w)
  BY DEF Check, Commit
<1>4. CASE ~complete
  <2>1. UNCHANGED <<doc, published>>
    BY <1>4 DEF Check
  <2>2. DocsOK' /\ Grows
    BY <2>1, DocsUntouched DEF DataOK
  <2>3. MemoryOK' /\ FlagsOK' /\ SeenOK'
    BY <1>3, <2>1, Forgets DEF DataOK, MemoryOK, FlagsOK
  <2>4. QED
    BY <2>2, <2>3 DEF DataOK
<1>5. CASE complete
  <2>1. doc' = [doc EXCEPT ![d] = row] /\ published' = published \cup {<<d, doc[d].rows>>}
    BY <1>1, <1>2, <1>5 DEF Check, DocRow
  <2>2. row \in DocRow /\ row.status = "ready" /\ row.rows = doc[d].rows
        /\ row.made = doc[d].made /\ row.points = doc[d].points
    BY <1>2 DEF DocRow, DocStatuses
  <2>3. doc[d].rows \in Nat /\ doc[d].made \in Nat /\ doc[d].rows >= 1
        /\ doc[d].rows <= doc[d].made
    BY <1>2, <1>5 DEF RowOK, DocRow
  <2> HIDE DEF row, complete
  <2>4. RowOK(row)
    BY <1>2, <2>2, <2>3 DEF RowOK
  <2>5. doc' \in [Docs -> DocRow] /\ \A c \in Docs : doc'[c] = IF c = d THEN row ELSE doc[c]
    BY <1>1, <1>2, <2>1, <2>2
  <2>6. \A c \in Docs : RowOK(doc'[c])
    BY <2>4, <2>5 DEF DataOK, DocsOK
  <2>7. \A c \in Docs : doc'[c].made = doc[c].made
    BY <2>2, <2>5
  <2>8. Grows
    BY <2>1, <2>7 DEF Grows, DataOK, DocsOK, DocRow
  <2>9. ASSUME NEW c \in Docs, doc'[c].status = "ready"
        PROVE  <<c, doc'[c].rows>> \in published'
    BY <2>1, <2>2, <2>5, <2>9 DEF DataOK, DocsOK
  <2>10. published' \in Text
    BY <1>1, <2>1, <2>3 DEF DataOK, DocsOK, Text, Generation
  <2>11. Existing(published)'
    <3> SUFFICES ASSUME NEW h \in published' PROVE h[2] \in 1..doc'[h[1]].made
      BY DEF Existing
    <3>1. CASE h \in published
      <4>1. h[1] \in Docs /\ h[2] \in 1..doc[h[1]].made
        BY <3>1 DEF DataOK, DocsOK, Text, Generation, Existing
      <4>2. QED
        BY <2>7, <4>1
    <3>2. CASE h = <<d, doc[d].rows>>
      <4>1. h[1] = d /\ h[2] = doc[d].rows
        BY <3>2
      <4>2. doc[d].rows \in 1..doc[d].made
        BY <2>3
      <4>3. QED
        BY <1>1, <2>7, <4>1, <4>2
    <3>3. QED
      BY <2>1, <3>1, <3>2
  <2>12. DocsOK'
    BY <2>5, <2>6, <2>9, <2>10, <2>11 DEF DocsOK
  <2>13. MemoryOK' /\ FlagsOK' /\ SeenOK'
    BY <1>3, <2>1, Forgets DEF DataOK, MemoryOK, FlagsOK
  <2>14. QED
    BY <2>8, <2>12, <2>13 DEF DataOK
<1>6. QED
  BY <1>4, <1>5

(* A document that is registered again, uploaded or gone.                  *)
LEMMA FreshRows ==
    ASSUME NEW r \in DocRow, RowOK(r)
    PROVE  /\ Fine(r, r)
           /\ Fine([r EXCEPT !.status = "registered"], r)
           /\ Fine([r EXCEPT !.status = "registered", !.rows = 0], r)
           /\ Fine([NoDoc EXCEPT !.points = r.points, !.made = r.made], r)
<1>1. r.made \in Nat /\ r.rows \in Nat /\ r.points \in SUBSET Nat /\ r.status \in DocStatuses
      /\ r.rows <= r.made /\ r.points \subseteq 1..r.made
  BY DEF DocRow, RowOK
<1>2. LET t == [r EXCEPT !.status = "registered"] IN
         t \in DocRow /\ t.status = "registered" /\ t.rows = r.rows
         /\ t.made = r.made /\ t.points = r.points
  BY DEF DocRow, DocStatuses
<1>3. LET t == [r EXCEPT !.status = "registered", !.rows = 0] IN
         t \in DocRow /\ t.status = "registered" /\ t.rows = 0
         /\ t.made = r.made /\ t.points = r.points
  BY DEF DocRow, DocStatuses
<1>4. LET t == [NoDoc EXCEPT !.points = r.points, !.made = r.made] IN
         t \in DocRow /\ t.status = "absent" /\ t.rows = 0
         /\ t.made = r.made /\ t.points = r.points
  BY <1>1 DEF NoDoc, DocRow, DocStatuses
<1>5. ASSUME NEW t \in DocRow, t.status \in {"registered", "absent"},
             t.rows = 0 \/ t.rows = r.rows, t.made = r.made, t.points = r.points
      PROVE  Fine(t, r)
  BY <1>1, <1>5 DEF Fine, RowOK
<1>6. Fine(r, r)
  BY <1>1 DEF Fine
<1>7. QED
  BY <1>2, <1>3, <1>4, <1>5, <1>6

(* A rebuild registers every document again and forgets the memory.        *)
LEMMA RebuildKeepsData ==
    ASSUME DataOK, NEW w \in Workers, Rebuild(w)
    PROVE  DataOK' /\ Grows
<1>1. /\ memory' = NoMemory
      /\ UNCHANGED <<point, unsent, payload, published, coll, leaving, swallowed>> /\ Forget(w)
  BY DEF Rebuild, Commit
<1>2. doc' = [d \in Docs |-> doc'[d]]
  BY DEF Rebuild
<1>3. ASSUME NEW d \in Docs PROVE Fine(doc'[d], doc[d])
  <2>1. \/ doc'[d] = [doc[d] EXCEPT !.status = "registered", !.rows = 0]
        \/ doc'[d] = doc[d]
    BY DEF Rebuild
  <2>2. QED
    BY <2>1, FreshRows DEF DataOK, DocsOK
<1>4. DocsOK' /\ Grows
  BY <1>1, <1>2, <1>3, DocsKept DEF DataOK
<1>5. MemoryOK' /\ FlagsOK' /\ SeenOK'
  BY <1>1, EmptyMemory, MemoryKept, Forgets DEF DataOK, FlagsOK
<1>6. QED
  BY <1>4, <1>5 DEF DataOK

(* A failure or a step of the queue alone.                                 *)
LEMMA QuietData ==
    ASSUME DataOK, UNCHANGED corpusVars,
           UNCHANGED seen \/ \E w \in Workers : Forget(w)
    PROVE  DataOK' /\ Grows
<1>1. DocsOK' /\ Grows
  BY DocsUntouched DEF corpusVars, DataOK
<1>2. MemoryOK' /\ FlagsOK'
  BY DEF corpusVars, DataOK, MemoryOK, FlagsOK
<1>3. SeenOK'
  BY Forgets, SeenUntouched DEF corpusVars, DataOK
<1>4. QED
  BY <1>1, <1>2, <1>3 DEF DataOK

(* Requests and the deletion of the collection.                            *)
LEMMA AskKeepsData ==
    ASSUME DataOK, Ask
    PROVE  DataOK' /\ Grows
<1>1. CASE EnqueueMemory \/ RequestRebuild
  BY <1>1, QuietData DEF EnqueueMemory, RequestRebuild
<1>2. ASSUME NEW d \in Docs, Upload(d) PROVE DataOK' /\ Grows
  <2>1. doc' = [doc EXCEPT ![d] = [doc[d] EXCEPT !.status = "registered"]]
    BY <1>2 DEF Upload
  <2>2. UNCHANGED <<coll, memory, point, unsent, payload, swallowed, leaving, published, seen>>
    BY <1>2 DEF Upload
  <2>3. Fine([doc[d] EXCEPT !.status = "registered"], doc[d])
    BY FreshRows DEF DataOK, DocsOK
  <2>4. DocsOK' /\ Grows
    BY <2>1, <2>2, <2>3, OneDocument DEF DataOK
  <2>5. MemoryOK' /\ FlagsOK' /\ SeenOK'
    BY <2>2, SeenUntouched DEF DataOK, MemoryOK, FlagsOK
  <2>6. QED
    BY <2>4, <2>5 DEF DataOK
<1>3. CASE StartDeletion
  <2>1. UNCHANGED <<coll, memory, unsent, payload, swallowed, published, seen>>
        /\ coll /\ leaving' = TRUE /\ DropPoints(Docs)
    BY <1>3 DEF StartDeletion
  <2>2. DocsOK' /\ Grows
    BY <2>1, PointsDropped DEF DataOK
  <2>3. point' \in {{}, point}
    BY <2>1 DEF DropPoints, AfterCall
  <2>4. MemoryOK'
    BY <2>1, <2>3 DEF DataOK, MemoryOK
  <2>5. FlagsOK' /\ SeenOK'
    BY <2>1, SeenUntouched DEF DataOK, FlagsOK
  <2>6. QED
    BY <2>2, <2>4, <2>5 DEF DataOK
<1>4. CASE CommitDeletion
  <2>1. UNCHANGED <<point, unsent, payload, swallowed, published, seen>>
        /\ memory' = NoMemory /\ coll' = FALSE /\ leaving' = FALSE
    BY <1>4 DEF CommitDeletion
  <2>2. doc' = [d \in Docs |-> [NoDoc EXCEPT !.points = doc[d].points, !.made = doc[d].made]]
    BY <1>4 DEF CommitDeletion
  <2>3. \A d \in Docs : Fine(doc'[d], doc[d])
    BY <2>2, FreshRows DEF DataOK, DocsOK
  <2>4. doc' = [d \in Docs |-> doc'[d]]
    BY <2>2
  <2>5. DocsOK' /\ Grows
    BY <2>1, <2>3, <2>4, DocsKept DEF DataOK
  <2>6. MemoryOK' /\ FlagsOK' /\ SeenOK'
    BY <2>1, EmptyMemory, MemoryKept, SeenUntouched DEF DataOK, FlagsOK
  <2>7. QED
    BY <2>5, <2>6 DEF DataOK
<1>5. QED
  BY <1>1, <1>2, <1>3, <1>4 DEF Ask

(* Every step keeps the data in order and takes nothing back.              *)
LEMMA DataStep ==
    ASSUME TypeOK, JobsFit, DataOK, [MemoryNext]_memoryVars
    PROVE  DataOK' /\ Grows
<1>1. ASSUME NEW w \in Workers, Write(w) PROVE DataOK' /\ Grows
  <2>1. CASE Refuse(w)
    BY <2>1, QuietData DEF Refuse
  <2>2. QED
    BY <1>1, <2>1, BuildKeepsData, EmbedKeepsData, IngestKeepsData, CheckKeepsData,
       RebuildKeepsData DEF Write
<1>2. ASSUME NEW w \in Workers, Work(w) PROVE DataOK' /\ Grows
  BY <1>1, <1>2, BeginReads, CallsKeepData DEF Work
<1>3. ASSUME NEW w \in Workers, Poll(w) \/ Break(w) PROVE DataOK' /\ Grows
  <2>1. UNCHANGED corpusVars /\ (UNCHANGED seen \/ Forget(w))
    BY <1>3 DEF Poll, Break, Abort
  <2>2. QED
    BY <2>1, QuietData
<1>4. ASSUME NEW j \in Ids, Time(j) PROVE DataOK' /\ Grows
  BY <1>4, QuietData DEF Time
<1>5. CASE UNCHANGED memoryVars
  BY <1>5, QuietData DEF memoryVars
<1>6. QED
  BY <1>2, <1>3, <1>4, <1>5, AskKeepsData DEF MemoryNext

(* In the beginning there is nothing to be wrong.                          *)
LEMMA DataInit == MemoryInit => DataOK
<1> SUFFICES ASSUME MemoryInit PROVE DataOK
  OBVIOUS
<1>1. NoDoc \in DocRow /\ RowOK(NoDoc) /\ NoDoc.status = "absent"
  BY DEF NoDoc, DocRow, DocStatuses, RowOK
<1>2. DocsOK
  BY <1>1 DEF MemoryInit, DocsOK, Text, Existing
<1>3. MemoryOK
  BY EmptyMemory DEF MemoryInit, MemoryOK, Payload
<1>4. SeenOK /\ FlagsOK
  BY DEF MemoryInit, SeenOK, FlagsOK
<1>5. QED
  BY <1>2, <1>3, <1>4 DEF DataOK

(* The inductive invariant.                                                *)
LEMMA MemoryInvariant == MemorySpec => [](TypeOK /\ JobsFit /\ DataOK)
<1>1. MemoryInit => TypeOK /\ JobsFit /\ DataOK
  BY QueueInit, DataInit
<1>2. TypeOK /\ JobsFit /\ DataOK /\ [MemoryNext]_memoryVars
         => (TypeOK /\ JobsFit /\ DataOK)'
  BY QueueKept, DataStep
<1>3. QED
  BY <1>1, <1>2, PTL DEF MemorySpec

-----------------------------------------------------------------------------
(* What has been published existed, so does what is made of it.            *)
LEMMA TypesFollow == TypeOK /\ DataOK => MemoryTypeOK
<1> SUFFICES ASSUME TypeOK, DataOK PROVE MemoryTypeOK
  OBVIOUS
<1>1. /\ published \in Text /\ Existing(published)
      /\ memory.text \subseteq published /\ point \subseteq published
  BY DEF DataOK, DocsOK, MemoryOK
<1>2. point \in Text /\ Existing(point) /\ Existing(memory.text)
  BY <1>1 DEF Existing, Text
<1>3. QED
  BY <1>1, <1>2 DEF MemoryTypeOK, DataOK, DocsOK, MemoryOK, FlagsOK

(* Types of all variables of the memory, and its texts name generations    *)
(* that were ingested.                                                     *)
THEOREM MemoryTypeCorrect == MemorySpec => []MemoryTypeOK
BY MemoryInvariant, TypesFollow, PTL

(* The summary of a collection is made from published generations only,    *)
(* whatever ingestions, rebuilds, crashes and deletions come between       *)
(* reading the summaries of the documents and committing.                  *)
THEOREM MemoryWasPublished == MemorySpec => []MemoryOfPublished
<1>1. DataOK => MemoryOfPublished
  BY DEF DataOK, MemoryOK, MemoryOfPublished
<1>2. QED
  BY <1>1, MemoryInvariant, PTL

-----------------------------------------------------------------------------
(* Without the collection, a handler that began after its deletion has not *)
(* found it and writes nothing.                                            *)
LEMMA NothingWritten ==
    ASSUME DataOK, ~coll, Stragglers = {}, [MemoryNext]_memoryVars
    PROVE  UNCHANGED <<doc, memory, point>>
<1>1. ASSUME NEW w \in Workers, seen[w].step # "unread"
      PROVE  ~seen[w].found /\ seen[w].step \notin {"cleared", "called"}
  <2>1. ReadOK(seen[w], published) /\ seen[w] # Unread
    BY <1>1, HandlerRead DEF DataOK, Unread
  <2>2. ~seen[w].coll
    BY <2>1 DEF Stragglers
  <2>3. QED
    BY <2>1, <2>2 DEF ReadOK
<1>2. ASSUME UNCHANGED corpusVars PROVE UNCHANGED <<doc, memory, point>>
  BY <1>2 DEF corpusVars
<1>3. ASSUME NEW w \in Workers, Work(w) PROVE UNCHANGED <<doc, memory, point>>
  <2>1. CASE Begin(w) \/ Refuse(w)
    BY <1>2, <2>1 DEF Begin, Refuse
  <2>2. ~CallQdrant(w) /\ ~ClearPoint(w) /\ ~UpsertPoint(w)
    BY <1>1 DEF CallQdrant, ClearPoint, UpsertPoint, At
  <2>3. ~BuildMemory(w) /\ ~EmbedMemory(w) /\ ~Ingest(w) /\ ~IngestRefused(w)
        /\ ~Check(w) /\ ~Rebuild(w)
    BY <1>1 DEF BuildMemory, EmbedMemory, Ingest, IngestRefused, Check, Rebuild, At
  <2>4. QED
    BY <1>3, <2>1, <2>2, <2>3 DEF Work, Write
<1>4. ASSUME NEW w \in Workers, Poll(w) \/ Break(w) PROVE UNCHANGED <<doc, memory, point>>
  BY <1>2, <1>4 DEF Poll, Break, Abort
<1>5. ASSUME NEW j \in Ids, Time(j) PROVE UNCHANGED <<doc, memory, point>>
  BY <1>2, <1>5 DEF Time
<1>6. CASE Ask
  <2>1. ~leaving
    BY DEF DataOK, FlagsOK
  <2>2. QED
    BY <1>6, <2>1 DEF Ask, EnqueueMemory, RequestRebuild, StartDeletion, CommitDeletion, Upload
<1>7. CASE UNCHANGED memoryVars
  BY <1>2, <1>7 DEF memoryVars
<1>8. QED
  BY <1>3, <1>4, <1>5, <1>6, <1>7 DEF MemoryNext

(* A deleted collection is left alone: once the handlers that had begun    *)
(* before its deletion have ended, no job, request or retry writes its     *)
(* documents, its memory or the memory's point.                            *)
THEOREM DeletedStaysInert == MemorySpec => DeletedIsInert
<1>1. DataOK /\ [MemoryNext]_memoryVars
         => [~coll /\ Stragglers = {} => UNCHANGED <<doc, memory, point>>]_memoryVars
  BY NothingWritten
<1>2. QED
  BY <1>1, MemoryInvariant, PTL DEF MemorySpec, DeletedIsInert

-----------------------------------------------------------------------------
(***************************************************************************)
(* The embedding.  As long as no request was swallowed, no job recovered   *)
(* and nothing is being deleted, there is at most one live EMBED job, and  *)
(* a memory that has a text is embedded, or that job will embed it.        *)
(***************************************************************************)
Calm == Undisturbed /\ coll /\ ~leaving

Busy == {"execute", "succeed", "fail"}

EmbedJobs == {j \in Ids : /\ jobs[j].kind.type = "embed_memory"
                          /\ jobs[j].status \in {"pending", "running"}}

OneEmbed == \A i, j \in EmbedJobs : i = j

HeldRuns == \A w \in Workers : pc[w] \in Busy => Has(cur[w], "running")

(* What a handler has read, compared with the database.                    *)
ReadFits(w) ==
    seen[w] # Unread =>
        /\ pc[w] = "execute"
        /\ Type(w) = "embed_memory" => seen[w].found /\ seen[w].payload = payload[cur[w]]
        /\ Type(w) = "ingest" /\ seen[w].found => doc[Target(w)].status # "absent"
        /\ Type(w) = "rebuild" /\ seen[w].step = "called" => ~seen[w].busy

(* An ingestion or a rebuild that has deleted points clears the memory     *)
(* when it ends; one that has lost its worker does not end.  The point is  *)
(* not what it should be either when its last upsert was lost.             *)
Wipes(j) ==
    /\ jobs[j].kind.type \in {"ingest", "rebuild"} /\ Has(j, "running")
    /\ \A w \in Workers : Executing(w, j) => pc[w] = "execute" /\ seen[w].step = "called"

PointFits == point = memory.text \/ unsent \/ \E j \in Ids : Wipes(j)

OnItsWay(w) ==
    \/ pc[w] = "fail"
    \/ /\ pc[w] = "execute"
       /\ seen[w].step \in {"cleared", "called"} => seen[w].text = memory.text
       /\ seen[w].step = "called" => PointFits

Coming == \E j \in EmbedJobs : \A w \in Workers : Executing(w, j) => OnItsWay(w)

Embedded ==
    /\ memory.embedded /\ memory.code = memory.text /\ PointFits
    /\ \A j \in EmbedJobs : /\ Has(j, "running")
                            /\ \A w \in Workers : Executing(w, j) => pc[w] = "succeed"

Base == HeldRuns /\ OneEmbed /\ \A w \in Workers : ReadFits(w)

Promised ==
    memory.text # {} =>
        /\ \A j \in EmbedJobs : ~payload[j].deleteOnly
        /\ EmbedFailed \/ Coming \/ Embedded

EmbedInv == Calm => Base /\ Promised

(* The rest of what is known of a reachable state.                         *)
Settings == IInv /\ JobsFit /\ DataOK

(* Nothing becomes calm again.                                             *)
LEMMA CalmEnds ==
    ASSUME Settings, [MemoryNext]_memoryVars, Calm'
    PROVE  Calm
<1>1. coll' => coll
  BY DEF MemoryNext, Poll, Work, Begin, CallQdrant, ClearPoint, UpsertPoint, Write, BuildMemory,
         EmbedMemory, Ingest, IngestRefused, Check, Rebuild, Commit, Refuse, Break, Abort, Time,
         Ask, Upload, EnqueueMemory, RequestRebuild, StartDeletion, CommitDeletion, corpusVars,
         memoryVars
<1>2. leaving => leaving' \/ ~coll'
  BY DEF MemoryNext, Poll, Work, Begin, CallQdrant, ClearPoint, UpsertPoint, Write, BuildMemory,
         EmbedMemory, Ingest, IngestRefused, Check, Rebuild, Commit, Refuse, Break, Abort, Time,
         Ask, Upload, EnqueueMemory, RequestRebuild, StartDeletion, CommitDeletion, corpusVars,
         memoryVars
<1>3. swallowed => swallowed'
  BY DEF MemoryNext, Poll, Work, Begin, CallQdrant, ClearPoint, UpsertPoint, Write, BuildMemory,
         RequestEmbedding,
         EmbedMemory, Ingest, IngestRefused, Check, Rebuild, Commit, Refuse, Break, Abort, Time,
         Ask, Upload, EnqueueMemory, RequestRebuild, StartDeletion, CommitDeletion, corpusVars,
         memoryVars
<1>4. requeued \subseteq requeued'
  <2>1. QueueStep \/ UNCHANGED queueVars
    BY MemoryQueueStep DEF Settings, IInv
  <2>2. QED
    BY <2>1 DEF QueueStep, queueVars, Start, Loop, ScanStale, RequeueStale, RequeueRolledBack, Pick,
         ClaimLost, Claim, ClaimUnhandled, Succeed, Fail, Crash, RaiseError, Acts, CommitWork,
         Expire, AsksFor, Request, DeleteTargets
<1>5. QED
  BY <1>1, <1>2, <1>3, <1>4 DEF Calm, Undisturbed

(* In a calm state a worker that is busy is alone with a RUNNING row.      *)
LEMMA HolderAlone ==
    ASSUME Settings, Calm, Base, NEW w \in Workers, pc[w] \in Busy
    PROVE  /\ cur[w] \in Ids /\ Has(cur[w], "running") /\ jobs[cur[w]] \in Row
           /\ \A v \in Workers : Executing(v, cur[w]) <=> v = w
<1>1. cur[w] \in Ids /\ jobs[cur[w]] \in Row
  BY HeldRow DEF Settings, IInv, Busy, Ids
<1>2. Fenced(cur[w])
  BY DEF Fenced, Calm, Undisturbed
<1>3. Executing(w, cur[w])
  BY DEF Executing, Busy
<1>4. \A v \in Workers : Executing(v, cur[w]) => v = w
  BY <1>1, <1>2, <1>3 DEF Settings, IInv, SoleOwner
<1>5. QED
  BY <1>1, <1>3, <1>4 DEF Base, HeldRuns

(* EMBED jobs are those of the collection that ensure_pending looks for.   *)
LEMMA EmbedJobsActive ==
    ASSUME Settings
    PROVE  ActiveJobs("embed_memory", Collection) = EmbedJobs
<1>1. ASSUME NEW j \in Ids, jobs[j].kind.type = "embed_memory"
      PROVE  jobs[j].kind = Job("embed_memory", Collection)
  <2>1. jobs[j].kind \in MemoryKind
    BY DEF Settings, JobsFit
  <2>2. jobs[j].kind.target = Collection
    BY <1>1, <2>1, MemoryAssumption DEF MemoryKind, Kind
  <2>3. QED
    BY <1>1, <2>1, <2>2 DEF MemoryKind, Kind, Job
<1>2. Job("embed_memory", Collection).type = "embed_memory"
  BY DEF Job
<1>3. QED
  BY <1>1, <1>2 DEF ActiveJobs, EmbedJobs

(* What a handler has read keeps fitting while the rows it holds keep      *)
(* their kind and their payload, and no document disappears.               *)
LEMMA ReadsKept ==
    ASSUME \A w \in Workers : ReadFits(w),
           \A w \in Workers : seen'[w] # Unread =>
              \/ ReadFits(w)'
              \/ /\ seen'[w] = seen[w] /\ pc'[w] = "execute" /\ cur'[w] = cur[w]
                 /\ jobs'[cur[w]].kind = jobs[cur[w]].kind
                 /\ payload'[cur[w]] = payload[cur[w]]
                 /\ Type(w) = "ingest" /\ doc[Target(w)].status # "absent"
                       => doc'[Target(w)].status # "absent"
    PROVE  \A w \in Workers : ReadFits(w)'
<1> SUFFICES ASSUME NEW w \in Workers, seen'[w] # Unread, ~ReadFits(w)' PROVE FALSE
  BY DEF ReadFits
<1>1. /\ seen'[w] = seen[w] /\ pc'[w] = "execute" /\ cur'[w] = cur[w]
      /\ jobs'[cur[w]].kind = jobs[cur[w]].kind /\ payload'[cur[w]] = payload[cur[w]]
      /\ Type(w) = "ingest" /\ doc[Target(w)].status # "absent"
            => doc'[Target(w)].status # "absent"
  OBVIOUS
<1>2. Type(w)' = Type(w) /\ Target(w)' = Target(w)
  BY <1>1 DEF Type, Target
<1>3. ReadFits(w)
  OBVIOUS
<1>4. QED
  BY <1>1, <1>2, <1>3 DEF ReadFits

(* The EMBED jobs as they were.                                            *)
SameEmbedJobs == EmbedJobs' = EmbedJobs /\ \A j \in EmbedJobs : jobs'[j] = jobs[j]

(* Who executes one has executed it before, and has gone on or has failed. *)
SameEmbedders ==
    \A w \in Workers : \A j \in EmbedJobs : Executing(w, j)' =>
        /\ Executing(w, j)
        /\ \/ pc'[w] = pc[w] /\ seen'[w] = seen[w]
           \/ pc[w] = "execute" /\ pc'[w] = "fail"
           \/ pc[w] = "execute" /\ pc'[w] = pc[w] /\ seen'[w].step = "read"

(* What was promised stays promised when nothing happens to the memory, to *)
(* its point and to its jobs.                                              *)
LEMMA PromiseKept ==
    ASSUME Promised, SameEmbedJobs, SameEmbedders, EmbedFailed => EmbedFailed',
           UNCHANGED <<memory, point, unsent, payload>>, (\E j \in Ids : Wipes(j)) => (\E j \in Ids : Wipes(j))'
    PROVE  Promised'
<1> SUFFICES ASSUME memory.text # {} PROVE Promised'
  BY DEF Promised
<1>1. PointFits => PointFits'
  BY DEF PointFits
<1>2. Coming => Coming'
  <2> SUFFICES ASSUME NEW j \in EmbedJobs, \A w \in Workers : Executing(w, j) => OnItsWay(w),
                      NEW w \in Workers, Executing(w, j)'
               PROVE  OnItsWay(w)'
    BY DEF Coming, SameEmbedJobs
  <2>1. OnItsWay(w)
    BY DEF SameEmbedders
  <2>2. \/ pc'[w] = pc[w] /\ seen'[w] = seen[w]
        \/ pc'[w] = "fail"
        \/ pc[w] = "execute" /\ pc'[w] = pc[w] /\ seen'[w].step = "read"
    BY DEF SameEmbedders
  <2>3. QED
    BY <1>1, <2>1, <2>2 DEF OnItsWay
<1>3. Embedded => Embedded'
  <2> SUFFICES ASSUME Embedded PROVE Embedded'
    OBVIOUS
  <2>1. ASSUME NEW j \in EmbedJobs PROVE Has(j, "running")'
    BY DEF Embedded, SameEmbedJobs, Has
  <2>2. ASSUME NEW j \in EmbedJobs, NEW w \in Workers, Executing(w, j)'
        PROVE  pc'[w] = "succeed"
    BY <2>2 DEF Embedded, SameEmbedders
  <2>3. QED
    BY <1>1, <2>1, <2>2 DEF Embedded, SameEmbedJobs
<1>4. \A j \in EmbedJobs' : ~payload'[j].deleteOnly
  BY DEF Promised, SameEmbedJobs
<1>5. QED
  BY <1>2, <1>3, <1>4 DEF Promised

(* A memory without a text promises nothing.                               *)
LEMMA NothingPromised == memory'.text = {} => Promised'
BY DEF Promised

-----------------------------------------------------------------------------
(* Workers that only let go of their job, or of nothing, keep all of it.   *)
LEMMA HoldersLeave ==
    ASSUME Settings, Calm, Base, Promised, UNCHANGED <<jobs, corpusVars>>,
           \A w \in Workers : pc'[w] \in Busy =>
                pc'[w] = pc[w] /\ cur'[w] = cur[w] /\ seen'[w] = seen[w],
           \A w \in Workers : seen'[w] # Unread => pc'[w] = "execute"
    PROVE  Base' /\ Promised'
<1>1. UNCHANGED <<doc, memory, point, unsent, payload>>
  BY DEF corpusVars
<1>2. EmbedJobs' = EmbedJobs /\ Ids' = Ids
  BY DEF EmbedJobs, Ids
<1>3. \A w \in Workers : \A j : Executing(w, j)' =>
          Executing(w, j) /\ pc'[w] = pc[w] /\ cur'[w] = cur[w] /\ seen'[w] = seen[w]
  BY DEF Executing, Busy
<1>4. HeldRuns' /\ OneEmbed'
  BY <1>2 DEF Base, HeldRuns, OneEmbed, Has
<1>5. \A w \in Workers : ReadFits(w)'
  <2>1. ASSUME NEW w \in Workers, seen'[w] # Unread
        PROVE  /\ seen'[w] = seen[w] /\ pc'[w] = "execute" /\ cur'[w] = cur[w]
               /\ jobs'[cur[w]].kind = jobs[cur[w]].kind /\ payload'[cur[w]] = payload[cur[w]]
               /\ doc' = doc
    BY <1>1, <2>1 DEF Busy
  <2>2. QED
    BY <2>1, ReadsKept DEF Base
<1>6. ASSUME NEW j \in Ids, Wipes(j) PROVE Wipes(j)'
  BY <1>3, <1>6 DEF Wipes, Has
<1>7. SameEmbedJobs /\ SameEmbedders
  BY <1>2, <1>3 DEF SameEmbedJobs, SameEmbedders
<1>8. EmbedFailed => EmbedFailed'
  BY <1>2 DEF EmbedFailed, Has
<1>9. Promised'
  BY <1>1, <1>2, <1>6, <1>7, <1>8, PromiseKept
<1>10. QED
  BY <1>4, <1>5, <1>9 DEF Base

(* A worker that reads the queue, starts, dies or waits.                   *)
LEMMA QuietKeepsEmbed ==
    ASSUME Settings, Calm, Calm', Base, Promised, NEW w \in Workers,
           \/ /\ Start(w) \/ ScanStale(w) \/ RequeueStale(w) \/ RequeueRolledBack(w)
                 \/ Pick(w) \/ ClaimLost(w)
              /\ UNCHANGED <<corpusVars, seen>>
           \/ Crash(w) /\ Forget(w) /\ UNCHANGED corpusVars
    PROVE  Base' /\ Promised'
<1> USE DEF Busy, Goto, Release
<1>1. pc = [v \in Workers |-> pc[v]] /\ cur = [v \in Workers |-> cur[v]]
      /\ seen = [v \in Workers |-> seen[v]]
  BY DEF Settings, IInv, TypeOK, DataOK, SeenOK
<1>2. \A v \in Workers : seen[v] # Unread => pc[v] = "execute"
  BY DEF Base, ReadFits
<1>3. CASE Crash(w) /\ Forget(w) /\ UNCHANGED corpusVars
  <2>1. /\ pc' = [pc EXCEPT ![w] = "down"] /\ cur' = [cur EXCEPT ![w] = 0]
        /\ seen' = [seen EXCEPT ![w] = Unread] /\ UNCHANGED <<jobs, corpusVars>>
    BY <1>3 DEF Crash, Forget
  <2>2. QED
    BY <1>1, <1>2, <2>1, HoldersLeave
<1>4. ASSUME UNCHANGED <<jobs, corpusVars, seen>>,
             pc[w] \notin Busy, pc'[w] \notin Busy,
             \A v \in Workers \ {w} : pc'[v] = pc[v] /\ cur'[v] = cur[v]
      PROVE  Base' /\ Promised'
  <2>1. \A v \in Workers : pc'[v] \in Busy =>
            pc'[v] = pc[v] /\ cur'[v] = cur[v] /\ seen'[v] = seen[v]
    BY <1>4
  <2>2. \A v \in Workers : seen'[v] # Unread => pc'[v] = "execute"
    BY <1>2, <1>4
  <2>3. QED
    BY <1>4, <2>1, <2>2, HoldersLeave
<1>5. CASE Start(w) /\ UNCHANGED <<corpusVars, seen>>
  BY <1>1, <1>4, <1>5 DEF Start
<1>6. CASE ScanStale(w) /\ UNCHANGED <<corpusVars, seen>>
  BY <1>1, <1>4, <1>6 DEF ScanStale
<1>7. CASE RequeueStale(w) /\ UNCHANGED <<corpusVars, seen>>
  <2>1. stale[w] = {}
    BY <1>7 DEF RequeueStale, Calm, Undisturbed
  <2>2. jobs' = jobs
    <3>1. jobs' = [j \in Ids |-> jobs[j]]
      BY <1>7, <2>1 DEF RequeueStale
    <3>2. jobs = [j \in DOMAIN jobs |-> jobs[j]]
      <4>1. jobs \in Seq(Row)
        BY DEF Settings, IInv, TypeOK
      <4>2. QED
        BY <4>1, LenProperties
    <3>3. QED
      BY <3>1, <3>2 DEF Ids
  <2>3. QED
    BY <1>1, <1>4, <1>7, <2>2 DEF RequeueStale
<1>8. CASE RequeueRolledBack(w) /\ UNCHANGED <<corpusVars, seen>>
  BY <1>1, <1>4, <1>8 DEF RequeueRolledBack
<1>9. CASE Pick(w) /\ UNCHANGED <<corpusVars, seen>>
  BY <1>1, <1>4, <1>9 DEF Pick
<1>10. CASE ClaimLost(w) /\ UNCHANGED <<corpusVars, seen>>
  BY <1>1, <1>4, <1>10 DEF ClaimLost
<1>11. QED
  BY <1>3, <1>5, <1>6, <1>7, <1>8, <1>9, <1>10

(* One row is written by the worker that holds it.                         *)
WritesHeld(w) ==
    /\ DOMAIN jobs' = DOMAIN jobs
    /\ \A j \in Ids : j # cur[w] => jobs'[j] = jobs[j]
    /\ jobs'[cur[w]].kind = jobs[cur[w]].kind
    /\ UNCHANGED <<corpusVars, seen>>
    /\ \A v \in Workers \ {w} : pc'[v] = pc[v] /\ cur'[v] = cur[v]

(* The holder of a row that is settled, or claimed: the others are where   *)
(* they were.                                                              *)
LEMMA OthersHold ==
    ASSUME Settings, Calm, Base, NEW w \in Workers, WritesHeld(w),
           pc[w] # "execute", pc'[w] \in Busy => Has(cur[w], "running")' /\ cur'[w] = cur[w],
           cur[w] \in Ids, \A v \in Workers \ {w} : ~Executing(v, cur[w]),
           EmbedJobs' \subseteq EmbedJobs
    PROVE  /\ Base'
           /\ \A j \in Ids : Wipes(j) /\ j # cur[w] => Wipes(j)'
           /\ jobs[cur[w]].kind.type # "embed_memory" => SameEmbedJobs /\ SameEmbedders
           /\ UNCHANGED <<memory, point, unsent, payload>>
<1>1. UNCHANGED <<doc, memory, point, unsent, payload, seen>> /\ Ids' = Ids
  BY DEF WritesHeld, corpusVars, Ids
<1>2. ASSUME NEW v \in Workers \ {w}, pc[v] \in Busy
      PROVE  cur[v] # cur[w] /\ cur[v] \in Ids /\ jobs'[cur[v]] = jobs[cur[v]]
  <2>1. Executing(v, cur[v]) /\ cur[v] \in Ids
    BY <1>2, HolderAlone DEF Executing, Busy
  <2>2. QED
    BY <2>1 DEF WritesHeld
<1>3. HeldRuns'
  <2> SUFFICES ASSUME NEW v \in Workers, pc'[v] \in Busy PROVE Has(cur[v], "running")'
    BY DEF HeldRuns
  <2>1. CASE v = w
    BY <2>1 DEF Has
  <2>2. CASE v # w
    <3>1. pc'[v] = pc[v] /\ cur'[v] = cur[v]
      BY <2>2 DEF WritesHeld
    <3>2. jobs'[cur[v]] = jobs[cur[v]]
      BY <1>2, <2>2, <3>1
    <3>3. QED
      BY <3>1, <3>2 DEF Base, HeldRuns, Has
  <2>3. QED
    BY <2>1, <2>2
<1>4. OneEmbed'
  BY DEF Base, OneEmbed
<1>5. \A v \in Workers : ReadFits(v)'
  <2>1. ASSUME NEW v \in Workers, seen'[v] # Unread
        PROVE  /\ seen'[v] = seen[v] /\ pc'[v] = "execute" /\ cur'[v] = cur[v]
               /\ jobs'[cur[v]].kind = jobs[cur[v]].kind /\ payload'[cur[v]] = payload[cur[v]]
               /\ doc' = doc
    <3>1. seen'[v] = seen[v] /\ pc[v] = "execute" /\ v # w
      BY <1>1, <2>1 DEF Base, ReadFits
    <3>2. QED
      BY <1>1, <1>2, <3>1 DEF WritesHeld, Busy
  <2>2. QED
    BY <2>1, ReadsKept DEF Base
<1>6. ASSUME NEW j \in Ids, j # cur[w], NEW v \in Workers, Executing(v, j)'
      PROVE  Executing(v, j) /\ pc'[v] = pc[v] /\ seen'[v] = seen[v]
  <2>1. v # w
    BY <1>6 DEF Executing, Busy
  <2>2. QED
    BY <1>1, <1>6, <2>1 DEF Executing, WritesHeld
<1>7. ASSUME NEW j \in Ids, Wipes(j), j # cur[w] PROVE Wipes(j)'
  <2>1. jobs'[j] = jobs[j]
    BY <1>7 DEF WritesHeld
  <2>2. QED
    BY <1>6, <1>7, <2>1 DEF Wipes, Has
<1>8. ASSUME jobs[cur[w]].kind.type # "embed_memory" PROVE SameEmbedJobs /\ SameEmbedders
  <2>1. \A j \in Ids : /\ j \in EmbedJobs <=> j \in EmbedJobs'
                       /\ j \in EmbedJobs => j # cur[w] /\ jobs'[j] = jobs[j]
    BY <1>1, <1>8 DEF EmbedJobs, WritesHeld
  <2>2. EmbedJobs \subseteq Ids /\ EmbedJobs' \subseteq Ids
    BY <1>1 DEF EmbedJobs
  <2>3. QED
    BY <1>6, <2>1, <2>2 DEF SameEmbedJobs, SameEmbedders
<1>9. QED
  BY <1>1, <1>3, <1>4, <1>5, <1>7, <1>8 DEF Base

(* EMBED jobs that are left when a held row is written.                    *)
LEMMA EmbedJobsLeft ==
    ASSUME NEW w \in Workers, WritesHeld(w),
           cur[w] \in EmbedJobs' => cur[w] \in EmbedJobs
    PROVE  EmbedJobs' \subseteq EmbedJobs
<1>1. ASSUME NEW j \in EmbedJobs', j # cur[w] PROVE j \in EmbedJobs
  BY <1>1 DEF WritesHeld, EmbedJobs, Ids
<1>2. QED
  BY <1>1

(* A failed EMBED job does not come back, unless its row is the one that   *)
(* is written.                                                             *)
LEMMA FailureStays ==
    ASSUME NEW w \in Workers, WritesHeld(w), ~Has(cur[w], "failed"), EmbedFailed
    PROVE  EmbedFailed'
<1>1. PICK j \in Ids : Has(j, "failed") /\ jobs[j].kind.type = "embed_memory"
  BY DEF EmbedFailed
<1>2. j # cur[w]
  BY <1>1
<1>3. j \in Ids' /\ jobs'[j] = jobs[j]
  BY <1>2 DEF WritesHeld, Ids
<1>4. QED
  BY <1>1, <1>3 DEF EmbedFailed, Has

(* A claim: if it is of the EMBED job, that job is on its way.             *)
LEMMA ClaimKeepsEmbed ==
    ASSUME Settings, Calm, Base, Promised, NEW w \in Workers, Claim(w), UNCHANGED <<corpusVars, seen>>
    PROVE  Base' /\ Promised'
<1> USE DEF Goto
<1>1. /\ pc[w] = "claim" /\ Has(cur[w], "pending") /\ UNCHANGED cur
      /\ pc' = [pc EXCEPT ![w] = "execute"]
  BY DEF Claim
<1>2. cur[w] \in Ids /\ jobs[cur[w]] \in Row
  BY <1>1, HeldRow DEF Settings, IInv, Ids
<1>3. /\ DOMAIN jobs' = DOMAIN jobs
      /\ \A j \in DOMAIN jobs : jobs'[j] = IF j = cur[w] THEN [jobs[j] EXCEPT !.status = "running"]
                                                       ELSE jobs[j]
  BY ClaimRows, JobQueueAssumption DEF Settings, IInv
<1>4. jobs'[cur[w]].kind = jobs[cur[w]].kind /\ jobs'[cur[w]].status = "running"
  BY <1>2, <1>3 DEF Row, Ids
<1>5. pc = [v \in Workers |-> pc[v]]
  BY DEF Settings, IInv, TypeOK
<1>6. WritesHeld(w)
  BY <1>1, <1>3, <1>4, <1>5 DEF WritesHeld, Ids
<1>7. \A v \in Workers : ~Executing(v, cur[w])
  BY <1>1 DEF Executing, Base, HeldRuns, Busy, Has
<1>8. cur[w] \in EmbedJobs' => cur[w] \in EmbedJobs
  BY <1>1, <1>2, <1>4 DEF EmbedJobs, Has
<1>9. /\ Base' /\ UNCHANGED <<memory, point, unsent, payload>>
      /\ \A j \in Ids : Wipes(j) /\ j # cur[w] => Wipes(j)'
      /\ jobs[cur[w]].kind.type # "embed_memory" => SameEmbedJobs /\ SameEmbedders
  BY <1>1, <1>2, <1>4, <1>6, <1>7, <1>8, EmbedJobsLeft, OthersHold DEF Has
<1>10. (\E j \in Ids : Wipes(j)) => (\E j \in Ids : Wipes(j))'
  BY <1>1, <1>3, <1>9 DEF Wipes, Has, Ids
<1>11. EmbedFailed => EmbedFailed'
  BY <1>1, <1>6, FailureStays DEF Has
<1>12. CASE jobs[cur[w]].kind.type # "embed_memory"
  BY <1>9, <1>10, <1>11, <1>12, PromiseKept
<1>13. CASE jobs[cur[w]].kind.type = "embed_memory"
  <2> SUFFICES ASSUME memory'.text # {} PROVE Promised'
    BY <1>9 DEF Promised
  <2>1. cur[w] \in EmbedJobs /\ cur[w] \in EmbedJobs'
    BY <1>1, <1>2, <1>3, <1>4, <1>13 DEF EmbedJobs, Has, Ids
  <2>2. memory.text # {} /\ ~Embedded
    BY <1>1, <1>9, <2>1 DEF Embedded, Has
  <2>3. EmbedFailed \/ Coming
    BY <2>2 DEF Promised
  <2> PICK c : c = cur[w]
    OBVIOUS
  <2>4. ASSUME NEW v \in Workers, Executing(v, c)' PROVE OnItsWay(v)'
    <3>1. v = w
      BY <1>1, <1>5, <1>7, <2>4 DEF Executing
    <3>2. seen'[w] = Unread
      BY <1>1 DEF Base, ReadFits
    <3>3. QED
      BY <1>1, <1>5, <3>1, <3>2 DEF OnItsWay, Unread
  <2>5. Coming'
    <3>1. c \in EmbedJobs'
      BY <1>1, <2>1
    <3>2. QED
      BY <2>4, <3>1 DEF Coming
  <2>6. \A j \in EmbedJobs' : ~payload'[j].deleteOnly
    <3>1. EmbedJobs' \subseteq EmbedJobs
      BY <1>6, <1>8, EmbedJobsLeft
    <3>2. QED
      BY <1>9, <2>2, <3>1 DEF Promised
  <2>7. QED
    BY <2>5, <2>6 DEF Promised
<1>14. QED
  BY <1>9, <1>12, <1>13

(* A report of the EMBED job: it has embedded the memory, or it is         *)
(* repeated, or it has failed for good.                                    *)
LEMMA ReportKeepsEmbed ==
    ASSUME Settings, Calm, Base, Promised, NEW w \in Workers, Succeed(w) \/ Fail(w),
           UNCHANGED <<corpusVars, seen>>
    PROVE  Base' /\ Promised'
<1> USE DEF Goto, Release
<1>1. /\ pc[w] \in {"succeed", "fail"}
      /\ pc' = [pc EXCEPT ![w] = "scan"] /\ cur' = [cur EXCEPT ![w] = 0]
  BY DEF Succeed, Fail
<1>2. /\ cur[w] \in Ids /\ Has(cur[w], "running") /\ jobs[cur[w]] \in Row
      /\ \A v \in Workers : Executing(v, cur[w]) <=> v = w
  BY <1>1, HolderAlone DEF Busy
<1>3. /\ DOMAIN jobs' = DOMAIN jobs
      /\ \A j \in Ids : j # cur[w] => jobs'[j] = jobs[j]
      /\ Succeed(w) => jobs'[cur[w]] = [jobs[cur[w]] EXCEPT !.status = "succeeded"]
      /\ Fail(w) => jobs'[cur[w]] = Failed(jobs[cur[w]])
  BY <1>2, SucceedRows, FailRows, JobQueueAssumption DEF Settings, IInv, Ids, Has
<1>4. /\ jobs'[cur[w]].kind = jobs[cur[w]].kind
      /\ Succeed(w) => jobs'[cur[w]].status = "succeeded"
      /\ Fail(w) => jobs'[cur[w]].status \in {"failed", "pending"}
  <2>1. Failed(jobs[cur[w]]).status \in {"failed", "pending"}
    BY <1>2, RowWrites, JobQueueAssumption
  <2>2. Failed(jobs[cur[w]]).kind = jobs[cur[w]].kind
    BY <1>2 DEF Failed, Row
  <2>3. QED
    BY <1>2, <1>3, <2>1, <2>2 DEF Row
<1>5. pc = [v \in Workers |-> pc[v]] /\ cur = [v \in Workers |-> cur[v]]
  BY DEF Settings, IInv, TypeOK
<1>6. WritesHeld(w)
  BY <1>1, <1>3, <1>4, <1>5 DEF WritesHeld
<1>7. cur[w] \in EmbedJobs' => cur[w] \in EmbedJobs
  BY <1>2, <1>4 DEF EmbedJobs, Has
<1>8. /\ Base' /\ UNCHANGED <<memory, point, unsent, payload>>
      /\ \A j \in Ids : Wipes(j) /\ j # cur[w] => Wipes(j)'
      /\ jobs[cur[w]].kind.type # "embed_memory" => SameEmbedJobs /\ SameEmbedders
  BY <1>1, <1>2, <1>5, <1>6, <1>7, EmbedJobsLeft, OthersHold DEF Busy
<1>9. (\E j \in Ids : Wipes(j)) => (\E j \in Ids : Wipes(j))'
  <2>1. ~Wipes(cur[w])
    BY <1>1, <1>2 DEF Wipes
  <2>2. QED
    BY <1>3, <1>8, <2>1 DEF Ids
<1>10. EmbedFailed => EmbedFailed'
  BY <1>2, <1>6, FailureStays DEF Has
<1>11. CASE jobs[cur[w]].kind.type # "embed_memory"
  BY <1>8, <1>9, <1>10, <1>11, PromiseKept
<1>12. CASE jobs[cur[w]].kind.type = "embed_memory"
  <2> SUFFICES ASSUME memory'.text # {} PROVE Promised'
    BY <1>8 DEF Promised
  <2>1. cur[w] \in EmbedJobs /\ \A j \in EmbedJobs : j = cur[w]
    BY <1>2, <1>12 DEF EmbedJobs, Has, Base, OneEmbed
  <2>2. EmbedJobs' \subseteq EmbedJobs
    BY <1>6, <1>7, EmbedJobsLeft
  <2>3. memory.text # {} /\ (EmbedFailed \/ Coming \/ Embedded)
    BY <1>8 DEF Promised
  <2>4. \A j \in EmbedJobs' : ~payload'[j].deleteOnly
    BY <1>8, <2>2, <2>3 DEF Promised
  <2>5. CASE pc[w] = "succeed"
    <3>1. Succeed(w)
      BY <2>5 DEF Fail
    <3>2. EmbedJobs' = {}
      BY <1>4, <2>1, <2>2, <3>1 DEF EmbedJobs
    <3>3. ~Coming
      BY <1>2, <2>1, <2>5 DEF Coming, OnItsWay
    <3>4. Embedded => Embedded'
      BY <1>8, <1>9, <3>2 DEF Embedded, PointFits
    <3>5. QED
      BY <1>10, <2>3, <2>4, <3>3, <3>4 DEF Promised
  <2>6. CASE pc[w] = "fail"
    <3>1. Fail(w)
      BY <2>6 DEF Succeed
    <3>2. CASE jobs'[cur[w]].status = "failed"
      <4>1. EmbedFailed'
        BY <1>2, <1>3, <1>4, <1>12, <3>2 DEF EmbedFailed, Has, Ids
      <4>2. QED
        BY <2>4, <4>1 DEF Promised
    <3>3. CASE jobs'[cur[w]].status = "pending"
      <4> PICK c : c = cur[w]
        OBVIOUS
      <4>1. c \in EmbedJobs'
        BY <1>2, <1>3, <1>4, <1>12, <3>3 DEF EmbedJobs, Ids
      <4>2. \A v \in Workers : ~Executing(v, c)'
        <5> SUFFICES ASSUME NEW v \in Workers, Executing(v, c)' PROVE FALSE
          OBVIOUS
        <5>1. v # w
          BY <1>1, <1>5 DEF Executing
        <5>2. Executing(v, cur[w])
          BY <1>1, <1>5, <5>1 DEF Executing
        <5>3. QED
          BY <1>2, <5>1, <5>2
      <4>3. Coming'
        BY <4>1, <4>2 DEF Coming
      <4>4. QED
        BY <2>4, <4>3 DEF Promised
    <3>4. QED
      BY <1>4, <3>1, <3>2, <3>3
  <2>7. QED
    BY <1>1, <2>5, <2>6
<1>13. QED
  BY <1>8, <1>11, <1>12

-----------------------------------------------------------------------------
(* One more step of a reading changes its place, and its text.             *)
LEMMA ReadingGoesOn ==
    ASSUME SeenOK, NEW w \in Workers, seen[w].step # "unread", NEW step, NEW text
    PROVE  /\ LET r == [seen[w] EXCEPT !.step = step]
              IN  /\ r.step = step /\ r.found = seen[w].found /\ r.busy = seen[w].busy
                  /\ r.payload = seen[w].payload /\ r.text = seen[w].text
           /\ LET r == [seen[w] EXCEPT !.step = step, !.text = text]
              IN  /\ r.step = step /\ r.found = seen[w].found /\ r.busy = seen[w].busy
                  /\ r.payload = seen[w].payload /\ r.text = text
<1>1. ReadOK(seen[w], published)
  BY HandlerRead
<1>2. seen[w] \in ReadRow(published, {seen[w].payload})
  BY <1>1 DEF ReadOK
<1>3. QED
  BY <1>2 DEF ReadRow

(* A handler that reads on is the only one to change what it has read.     *)
LEMMA ReadingKeepsBase ==
    ASSUME Settings, Calm, Base, NEW w \in Workers, pc[w] = "execute", NEW r,
           seen' = [seen EXCEPT ![w] = r], UNCHANGED <<queueVars, memory, payload>>,
           \A d \in Docs : doc'[d].status = doc[d].status,
           /\ Type(w) = "embed_memory" => r.found /\ r.payload = payload[cur[w]]
           /\ Type(w) = "ingest" /\ r.found => doc[Target(w)].status # "absent"
           /\ Type(w) = "rebuild" /\ r.step = "called" => ~r.busy
    PROVE  /\ Base'
           /\ SameEmbedJobs /\ (EmbedFailed => EmbedFailed')
           /\ \A v \in Workers : \A j : Executing(v, j)' <=> Executing(v, j)
           /\ pc' = pc /\ seen'[w] = r /\ \A v \in Workers \ {w} : seen'[v] = seen[v]
           /\ \A j \in Ids : Wipes(j) /\ j # cur[w] => Wipes(j)'
           /\ UNCHANGED <<memory, payload>>
<1>1. /\ jobs' = jobs /\ pc' = pc /\ cur' = cur /\ requeued' = requeued
  BY DEF queueVars
<1>2. seen'[w] = r /\ \A v \in Workers \ {w} : seen'[v] = seen[v]
  BY DEF Settings, DataOK, SeenOK
<1>3. EmbedJobs' = EmbedJobs /\ Ids' = Ids
  BY <1>1 DEF EmbedJobs, Ids
<1>4. HeldRuns' /\ OneEmbed'
  BY <1>1, <1>3 DEF Base, HeldRuns, OneEmbed, Has
<1>5. \A v \in Workers : pc[v] = "execute" /\ Type(v) = "ingest" => Target(v) \in Docs
  BY HeldJob DEF Settings, IInv
<1>6. Type(w)' = Type(w) /\ Target(w)' = Target(w)
  BY <1>1 DEF Type, Target
<1>7. ReadFits(w)'
  BY <1>1, <1>2, <1>5, <1>6 DEF ReadFits
<1>8. ASSUME NEW v \in Workers \ {w}, seen'[v] # Unread
      PROVE  /\ seen'[v] = seen[v] /\ pc'[v] = "execute" /\ cur'[v] = cur[v]
             /\ jobs'[cur[v]].kind = jobs[cur[v]].kind
             /\ payload'[cur[v]] = payload[cur[v]]
             /\ Type(v) = "ingest" /\ doc[Target(v)].status # "absent"
                   => doc'[Target(v)].status # "absent"
  BY <1>1, <1>2, <1>5, <1>8 DEF Base, ReadFits
<1>9. \A v \in Workers : ReadFits(v)'
  <2>1. \A v \in Workers : seen'[v] # Unread =>
           \/ ReadFits(v)'
           \/ /\ seen'[v] = seen[v] /\ pc'[v] = "execute" /\ cur'[v] = cur[v]
              /\ jobs'[cur[v]].kind = jobs[cur[v]].kind
              /\ payload'[cur[v]] = payload[cur[v]]
              /\ Type(v) = "ingest" /\ doc[Target(v)].status # "absent"
                    => doc'[Target(v)].status # "absent"
    BY <1>7, <1>8
  <2>2. QED
    BY <2>1, ReadsKept DEF Base
<1>10. \A v \in Workers : \A j : Executing(v, j)' <=> Executing(v, j)
  BY <1>1 DEF Executing
<1>11. ASSUME NEW j \in Ids, Wipes(j), j # cur[w] PROVE Wipes(j)'
  <2>1. \A v \in Workers : Executing(v, j) => v # w
    BY <1>11 DEF Executing
  <2>2. QED
    BY <1>1, <1>2, <1>10, <1>11, <2>1 DEF Wipes, Has
<1>12. EmbedFailed => EmbedFailed'
  BY <1>1, <1>3 DEF EmbedFailed, Has
<1>13. QED
  BY <1>1, <1>2, <1>3, <1>4, <1>9, <1>10, <1>11, <1>12 DEF Base, SameEmbedJobs

(* A handler begins: it has called nobody.                                 *)
LEMMA BeginKeepsEmbed ==
    ASSUME Settings, Calm, Base, Promised, NEW w \in Workers, Begin(w)
    PROVE  Base' /\ Promised'
<1> DEFINE busy == \E j \in Ids : Has(j, "running") /\ j # cur[w]
           r == [step |-> "read", found |-> Found(w), coll |-> coll, busy |-> busy,
                 sources |-> Sources, payload |-> payload[cur[w]], text |-> {}]
<1>1. /\ seen' = [seen EXCEPT ![w] = r] /\ pc[w] = "execute" /\ seen[w] = Unread
      /\ UNCHANGED <<queueVars, doc, memory, point, unsent, payload>>
  BY DEF Begin, corpusVars
<1>2. r.found = Found(w) /\ r.payload = payload[cur[w]] /\ r.step = "read"
  OBVIOUS
<1> HIDE DEF r
<1>3. Type(w) = "embed_memory" => Found(w)
  BY <1>1, HeldJob DEF Found, Calm, Settings, IInv
<1>4. Type(w) = "ingest" /\ Found(w) => doc[Target(w)].status # "absent"
  BY <1>1, HeldJob DEF Found, Settings, IInv
<1>5. /\ Base' /\ SameEmbedJobs /\ (EmbedFailed => EmbedFailed')
      /\ \A v \in Workers : \A j : Executing(v, j)' <=> Executing(v, j)
      /\ pc' = pc /\ seen'[w] = r /\ \A v \in Workers \ {w} : seen'[v] = seen[v]
      /\ \A j \in Ids : Wipes(j) /\ j # cur[w] => Wipes(j)'
  <2>1. \A d \in Docs : doc'[d].status = doc[d].status
    BY <1>1
  <2>2. UNCHANGED <<queueVars, memory, payload>>
    BY <1>1
  <2>3. /\ Type(w) = "embed_memory" => r.found /\ r.payload = payload[cur[w]]
        /\ Type(w) = "ingest" /\ r.found => doc[Target(w)].status # "absent"
        /\ Type(w) = "rebuild" /\ r.step = "called" => ~r.busy
    BY <1>2, <1>3, <1>4
  <2>4. QED
    BY <1>1, <2>1, <2>2, <2>3, ReadingKeepsBase
<1>6. SameEmbedders
  BY <1>1, <1>2, <1>5 DEF SameEmbedders
<1>7. (\E j \in Ids : Wipes(j)) => (\E j \in Ids : Wipes(j))'
  <2>1. ~Wipes(cur[w])
    BY <1>1 DEF Wipes, Executing, Unread
  <2>2. Ids' = Ids
    BY <1>1 DEF queueVars, Ids
  <2>3. QED
    BY <1>5, <2>1, <2>2
<1>8. QED
  BY <1>1, <1>5, <1>6, <1>7, PromiseKept

(* The points go: the memory will follow.                                  *)
LEMMA CallKeepsEmbed ==
    ASSUME Settings, Calm, Base, Promised, NEW w \in Workers, CallQdrant(w)
    PROVE  Base' /\ Promised'
<1> DEFINE r == [seen[w] EXCEPT !.step = "called"]
<1>1. /\ pc[w] = "execute" /\ seen[w].step = "read" /\ seen[w].found
      /\ Type(w) \in {"ingest", "rebuild"} /\ (Type(w) = "rebuild" => ~seen[w].busy)
      /\ UNCHANGED <<queueVars, memory, payload>>
  BY DEF CallQdrant, At
<1>2. seen' = [seen EXCEPT ![w] = r]
  BY DEF CallQdrant
<1>3. r.step = "called" /\ r.found = seen[w].found /\ r.busy = seen[w].busy
  BY <1>1, ReadingGoesOn DEF Settings, DataOK
<1> HIDE DEF r
<1>4. \A d \in Docs : doc'[d].status = doc[d].status
  <2>1. doc \in [Docs -> DocRow]
    BY DEF Settings, DataOK, DocsOK
  <2>2. PICK docs : DropPoints(docs)
    BY DEF CallQdrant
  <2>3. \A d \in Docs : doc'[d].status = doc[d].status
    BY <2>1, <2>2 DEF DropPoints, AfterCall, DocRow
  <2>4. QED
    BY <2>3
<1>5. seen[w] # Unread /\ ReadFits(w)
  BY <1>1 DEF Unread, Base
<1>6. /\ Type(w) = "embed_memory" => r.found /\ r.payload = payload[cur[w]]
      /\ Type(w) = "ingest" /\ r.found => doc[Target(w)].status # "absent"
      /\ Type(w) = "rebuild" /\ r.step = "called" => ~r.busy
  BY <1>1, <1>3, <1>5 DEF ReadFits
<1>7. /\ Base' /\ SameEmbedJobs /\ (EmbedFailed => EmbedFailed')
      /\ \A v \in Workers : \A j : Executing(v, j)' <=> Executing(v, j)
      /\ pc' = pc /\ seen'[w] = r /\ \A v \in Workers \ {w} : seen'[v] = seen[v]
      /\ UNCHANGED <<memory, payload>>
  BY <1>1, <1>2, <1>4, <1>6, ReadingKeepsBase
<1>8. /\ cur[w] \in Ids /\ Has(cur[w], "running")
      /\ \A v \in Workers : Executing(v, cur[w]) <=> v = w
  BY <1>1, HolderAlone DEF Busy
<1>9. PointFits'
  <2> PICK c : c = cur[w]
    OBVIOUS
  <2>1. jobs[c].kind.type \in {"ingest", "rebuild"}
    BY <1>1 DEF Type
  <2>2. Wipes(c)'
    BY <1>1, <1>3, <1>7, <1>8, <2>1 DEF Wipes, Has, queueVars
  <2>3. c \in Ids'
    BY <1>1, <1>8 DEF queueVars, Ids
  <2>4. QED
    BY <2>2, <2>3 DEF PointFits
<1>10. ASSUME NEW v \in Workers, NEW j \in EmbedJobs, Executing(v, j)
       PROVE  seen'[v] = seen[v]
  <2>1. v # w
    BY <1>1, <1>10 DEF Executing, EmbedJobs, Type
  <2>2. QED
    BY <1>7, <2>1
<1>11. Coming => Coming'
  BY <1>7, <1>9, <1>10 DEF Coming, OnItsWay, SameEmbedJobs
<1>12. Embedded => Embedded'
  <2>1. \A j \in EmbedJobs : Has(j, "running") => Has(j, "running")'
    BY <1>7 DEF SameEmbedJobs, Has
  <2>2. QED
    BY <1>7, <1>9, <2>1 DEF Embedded, SameEmbedJobs
<1>13. QED
  BY <1>7, <1>11, <1>12 DEF Promised, SameEmbedJobs

(* EMBED reads the text it will embed, and writes its point.               *)
LEMMA PointKeepsEmbed ==
    ASSUME Settings, Calm, Base, Promised, NEW w \in Workers, ClearPoint(w) \/ UpsertPoint(w)
    PROVE  Base' /\ Promised'
<1> DEFINE r == IF seen[w].step = "read"
                THEN [seen[w] EXCEPT !.step = "cleared", !.text = memory.text]
                ELSE [seen[w] EXCEPT !.step = "called"]
<1>1. /\ pc[w] = "execute" /\ seen[w].step \in {"read", "cleared"} /\ Type(w) = "embed_memory"
      /\ UNCHANGED <<queueVars, doc, memory, payload>>
      /\ seen[w].step = "cleared" => point' = seen[w].text \/ unsent'
  BY DEF ClearPoint, UpsertPoint, At
<1>2. seen' = [seen EXCEPT ![w] = r]
  <2>1. CASE ClearPoint(w)
    BY <2>1 DEF ClearPoint, At, Settings, DataOK, SeenOK
  <2>2. CASE UpsertPoint(w)
    BY <2>2 DEF UpsertPoint, At
  <2>3. QED
    BY <2>1, <2>2
<1>3. /\ seen[w].step = "read" => r.step = "cleared" /\ r.text = memory.text
      /\ seen[w].step = "cleared" => r.step = "called" /\ r.text = seen[w].text
      /\ r.found = seen[w].found /\ r.payload = seen[w].payload
  BY <1>1, ReadingGoesOn DEF Settings, DataOK
<1> HIDE DEF r
<1>4. seen[w] # Unread /\ ReadFits(w)
  BY <1>1 DEF Unread, Base
<1>5. /\ Type(w) = "embed_memory" => r.found /\ r.payload = payload[cur[w]]
      /\ Type(w) = "ingest" /\ r.found => doc[Target(w)].status # "absent"
      /\ Type(w) = "rebuild" /\ r.step = "called" => ~r.busy
  BY <1>1, <1>3, <1>4 DEF ReadFits
<1>6. /\ Base' /\ SameEmbedJobs /\ (EmbedFailed => EmbedFailed')
      /\ \A v \in Workers : \A j : Executing(v, j)' <=> Executing(v, j)
      /\ pc' = pc /\ seen'[w] = r
      /\ UNCHANGED <<memory, payload>>
  <2>1. \A d \in Docs : doc'[d].status = doc[d].status
    BY <1>1
  <2>2. QED
    BY <1>1, <1>2, <1>5, <2>1, ReadingKeepsBase
<1>7. /\ cur[w] \in EmbedJobs /\ \A v \in Workers : Executing(v, cur[w]) <=> v = w
      /\ \A j \in EmbedJobs : j = cur[w]
  <2>1. cur[w] \in EmbedJobs /\ \A v \in Workers : Executing(v, cur[w]) <=> v = w
    BY <1>1, HolderAlone DEF Busy, EmbedJobs, Type, Has
  <2>2. QED
    BY <2>1 DEF Base, OneEmbed
<1>8. ~Embedded
  BY <1>1, <1>7 DEF Embedded
<1>9. Coming => Coming'
  <2> PICK c : c = cur[w]
    OBVIOUS
  <2> SUFFICES ASSUME Coming PROVE Coming'
    OBVIOUS
  <2>1. OnItsWay(w)
    BY <1>7 DEF Coming
  <2>2. seen[w].step = "cleared" => point' = memory'.text \/ unsent'
    BY <1>1, <1>6, <2>1 DEF OnItsWay
  <2>3. OnItsWay(w)'
    BY <1>1, <1>3, <1>6, <2>1, <2>2 DEF OnItsWay, PointFits
  <2>4. \A v \in Workers : Executing(v, c)' => OnItsWay(v)'
    BY <1>6, <1>7, <2>3
  <2>5. c \in EmbedJobs'
    BY <1>6, <1>7 DEF SameEmbedJobs
  <2>6. QED
    BY <2>4, <2>5 DEF Coming
<1>10. QED
  BY <1>6, <1>8, <1>9 DEF Promised, SameEmbedJobs

-----------------------------------------------------------------------------
(* What a transaction on the table does to rows of each sort.              *)
LEMMA InsertedRows ==
    ASSUME Settings, NEW dropped, NEW spared, NEW batch \in Batches,
           jobs' = Transact(dropped, spared, batch)
    PROVE  /\ Ids \subseteq Ids'
           /\ \A j \in Ids : /\ jobs'[j].kind = jobs[j].kind
                             /\ jobs[j].status # "pending" => jobs'[j] = jobs[j]
                             /\ jobs[j].kind.target \notin dropped => jobs'[j] = jobs[j]
                             /\ jobs'[j].status \in {jobs[j].status, "deleted"}
           /\ \A j \in Ids' \ Ids : \E i \in DOMAIN batch :
                 j = Len(jobs) + i /\ jobs'[j] = NewRow(batch[i])
           /\ \A i \in DOMAIN batch : Len(jobs) + i \in Ids' \ Ids
<1>1. /\ jobs \in Seq(Row) /\ DOMAIN jobs = 1..Len(jobs) /\ Len(jobs) \in Nat
      /\ \A j \in DOMAIN jobs : jobs[j] \in Row
  BY LenProperties, ElementOfSeq DEF Settings, IInv, TypeOK
<1>2. TransactEffect(dropped, spared, batch)
  BY <1>1, TransactTable, JobQueueAssumption
<1>3. Len(batch) \in Nat /\ DOMAIN batch = 1..Len(batch)
  BY LenProperties, JobQueueAssumption
<1>4. ASSUME NEW j \in Ids
      PROVE  /\ jobs'[j].kind = jobs[j].kind
             /\ jobs[j].status # "pending" => jobs'[j] = jobs[j]
             /\ jobs[j].kind.target \notin dropped => jobs'[j] = jobs[j]
             /\ jobs'[j].status \in {jobs[j].status, "deleted"}
  <2>1. /\ [jobs[j] EXCEPT !.status = "deleted"].kind = jobs[j].kind
        /\ [jobs[j] EXCEPT !.status = "deleted"].status = "deleted"
    BY <1>1, RowWrites, JobQueueAssumption DEF Ids, Statuses
  <2>2. jobs'[j] = IF /\ jobs[j].status = "pending"
                      /\ jobs[j].kind.target \in dropped
                      /\ j \notin spared
                   THEN [jobs[j] EXCEPT !.status = "deleted"]
                   ELSE jobs[j]
    BY <1>2 DEF TransactEffect, Ids
  <2>3. QED
    BY <2>1, <2>2
<1>5. Ids \subseteq Ids' /\ \A i \in DOMAIN batch : Len(jobs) + i \in Ids' \ Ids
  BY <1>1, <1>2, <1>3 DEF TransactEffect, Ids
<1>6. ASSUME NEW j \in Ids' \ Ids
      PROVE  \E i \in DOMAIN batch : j = Len(jobs) + i /\ jobs'[j] = NewRow(batch[i])
  <2>1. PICK i \in DOMAIN batch : j = Len(jobs) + i
    BY <1>2 DEF TransactEffect, Ids
  <2>2. jobs'[Len(jobs) + i] = NewRow(batch[i])
    BY <1>2 DEF TransactEffect
  <2>3. QED
    BY <2>1, <2>2
<1>7. QED
  BY <1>4, <1>5, <1>6

(* A step on the table by which workers only go on or let go, and which    *)
(* spares what is RUNNING.                                                 *)
SparesHolders ==
    /\ Ids \subseteq Ids'
    /\ \A j \in Ids : Has(j, "running") => jobs'[j] = jobs[j] /\ payload'[j] = payload[j]
    /\ \A w \in Workers : pc'[w] \in Busy => pc[w] \in Busy /\ cur'[w] = cur[w]
    /\ \A w \in Workers : seen'[w] # Unread => seen'[w] = seen[w] /\ pc'[w] = pc[w]
    /\ \A d \in Docs : doc[d].status # "absent" => doc'[d].status # "absent"

(* What such workers hold and have read fits as before.                    *)
LEMMA SparedHoldersFit ==
    ASSUME Settings, Calm, Base, SparesHolders
    PROVE  HeldRuns' /\ \A w \in Workers : ReadFits(w)'
<1>1. HeldRuns'
  <2> SUFFICES ASSUME NEW w \in Workers, pc'[w] \in Busy PROVE Has(cur[w], "running")' /\ cur'[w] = cur[w]
    BY DEF HeldRuns, Has
  <2>1. pc[w] \in Busy /\ cur'[w] = cur[w]
    BY DEF SparesHolders
  <2>2. cur[w] \in Ids /\ Has(cur[w], "running")
    BY <2>1, HolderAlone
  <2>3. QED
    BY <2>1, <2>2 DEF SparesHolders, Has
<1>2. ASSUME NEW w \in Workers, seen'[w] # Unread
      PROVE  /\ seen'[w] = seen[w] /\ pc'[w] = "execute" /\ cur'[w] = cur[w]
             /\ jobs'[cur[w]].kind = jobs[cur[w]].kind
             /\ payload'[cur[w]] = payload[cur[w]]
             /\ Type(w) = "ingest" /\ doc[Target(w)].status # "absent"
                   => doc'[Target(w)].status # "absent"
  <2>1. seen'[w] = seen[w] /\ pc'[w] = pc[w] /\ pc[w] = "execute"
    BY <1>2 DEF SparesHolders, Base, ReadFits
  <2>2. cur[w] \in Ids /\ Has(cur[w], "running") /\ cur'[w] = cur[w]
    BY <2>1, HolderAlone DEF Busy, SparesHolders
  <2>3. Type(w) = "ingest" => Target(w) \in Docs
    BY <2>1, HeldJob DEF Settings, IInv
  <2>4. QED
    BY <2>1, <2>2, <2>3 DEF SparesHolders
<1>3. QED
  BY <1>1, <1>2, ReadsKept DEF Base

(* Workers that execute nothing else than before.                          *)
LEMMA SparedWipes ==
    ASSUME Settings, Calm, Base, SparesHolders, NEW j \in Ids, Wipes(j),
           \A w \in Workers : Executing(w, j) => pc'[w] = pc[w] /\ seen'[w] = seen[w]
    PROVE  j \in Ids' /\ Wipes(j)'
<1>1. j \in Ids' /\ jobs'[j] = jobs[j]
  BY DEF SparesHolders, Wipes
<1>2. \A w \in Workers : Executing(w, j)' => Executing(w, j)
  BY DEF Executing, SparesHolders, Busy
<1>3. QED
  BY <1>1, <1>2 DEF Wipes, Has

(* A transaction that inserts no EMBED job, and drops none of the          *)
(* collection's or leaves no text, keeps the promise.                      *)
LEMMA InsertKeepsBase ==
    ASSUME Settings, Calm, Base, SparesHolders, NEW dropped, NEW spared, NEW batch \in Batches,
           jobs' = Transact(dropped, spared, batch),
           \A i \in DOMAIN batch : batch[i].type # "embed_memory"
    PROVE  /\ Base'
           /\ Collection \notin dropped => SameEmbedJobs
           /\ EmbedFailed => EmbedFailed'
<1>1. /\ Ids \subseteq Ids'
      /\ \A j \in Ids : /\ jobs'[j].kind = jobs[j].kind
                        /\ jobs[j].status # "pending" => jobs'[j] = jobs[j]
                        /\ jobs[j].kind.target \notin dropped => jobs'[j] = jobs[j]
                        /\ jobs'[j].status \in {jobs[j].status, "deleted"}
      /\ \A j \in Ids' \ Ids : \E i \in DOMAIN batch :
            j = Len(jobs) + i /\ jobs'[j] = NewRow(batch[i])
  BY InsertedRows
<1>2. ASSUME NEW j \in EmbedJobs' PROVE j \in EmbedJobs
  <2>1. j \in Ids
    <3> SUFFICES ASSUME j \notin Ids PROVE FALSE
      OBVIOUS
    <3>1. PICK i \in DOMAIN batch : jobs'[j] = NewRow(batch[i])
      BY <1>1 DEF EmbedJobs
    <3>2. jobs'[j].kind = batch[i]
      BY <3>1 DEF NewRow
    <3>3. QED
      BY <3>2 DEF EmbedJobs
  <2>2. jobs'[j].status # "deleted"
    BY DEF EmbedJobs
  <2>3. QED
    BY <1>1, <2>1, <2>2 DEF EmbedJobs
<1>3. OneEmbed'
  BY <1>2 DEF Base, OneEmbed
<1>4. ASSUME Collection \notin dropped PROVE SameEmbedJobs
  <2>1. ASSUME NEW j \in EmbedJobs PROVE jobs'[j] = jobs[j] /\ j \in EmbedJobs'
    <3>1. j \in Ids /\ jobs[j].kind \in MemoryKind /\ jobs[j].kind.type = "embed_memory"
      BY DEF EmbedJobs, Settings, JobsFit
    <3>2. jobs[j].kind.target = Collection
      BY <3>1, MemoryAssumption DEF MemoryKind, Kind
    <3>3. jobs'[j] = jobs[j]
      BY <1>1, <1>4, <3>1, <3>2
    <3>4. QED
      BY <1>1, <3>1, <3>3 DEF EmbedJobs
  <2>2. QED
    BY <1>2, <2>1 DEF SameEmbedJobs
<1>5. EmbedFailed => EmbedFailed'
  BY <1>1 DEF EmbedFailed, Has
<1>6. QED
  BY <1>3, <1>4, <1>5, SparedHoldersFit DEF Base

(* A request keeps the promise.                                            *)
LEMMA RequestKeepsEmbed ==
    ASSUME Settings, Calm, Base, Promised, NEW dropped, NEW batch \in Batches,
           Request(dropped, batch), \A i \in DOMAIN batch : batch[i].type # "embed_memory",
           Collection \notin dropped, UNCHANGED <<memory, point, unsent, payload, seen>>,
           \A d \in Docs : doc[d].status # "absent" => doc'[d].status # "absent"
    PROVE  Base' /\ Promised'
<1>1. jobs' = Transact(dropped, {}, batch) /\ pc' = pc /\ cur' = cur
  BY DEF Request
<1>2. SparesHolders
  BY <1>1, InsertedRows DEF SparesHolders, Has
<1>3. Base' /\ SameEmbedJobs /\ (EmbedFailed => EmbedFailed')
  BY <1>1, <1>2, InsertKeepsBase
<1>4. \A j \in Ids : Wipes(j) => j \in Ids' /\ Wipes(j)'
  BY <1>1, <1>2, SparedWipes
<1>5. SameEmbedders
  BY <1>1 DEF SameEmbedders, Executing
<1>6. QED
  BY <1>3, <1>4, <1>5, PromiseKept

-----------------------------------------------------------------------------
(* A handler that ends leaves the others alone.                            *)
LEMMA EndingSpares ==
    ASSUME Settings, Calm, Base, NEW w \in Workers, pc[w] = "execute", Forget(w),
           NEW step \in {"succeed", "fail"}, pc' = [pc EXCEPT ![w] = step], cur' = cur,
           \/ jobs' = jobs
           \/ \E dropped, spared : \E batch \in Batches : jobs' = Transact(dropped, spared, batch),
           \A j \in Ids : Has(j, "running") => payload'[j] = payload[j],
           \A d \in Docs : doc[d].status # "absent" => doc'[d].status # "absent"
    PROVE  /\ SparesHolders
           /\ pc'[w] = step /\ \A v \in Workers \ {w} : pc'[v] = pc[v] /\ seen'[v] = seen[v]
           /\ cur[w] \in Ids /\ Has(cur[w], "running")
           /\ \A v \in Workers : Executing(v, cur[w]) <=> v = w
           /\ \A j \in Ids : Wipes(j) /\ j # cur[w] => j \in Ids' /\ Wipes(j)'
<1>1. /\ pc'[w] = step /\ \A v \in Workers \ {w} : pc'[v] = pc[v] /\ seen'[v] = seen[v]
      /\ seen'[w] = Unread
  BY DEF Settings, IInv, TypeOK, DataOK, SeenOK, Forget
<1>2. Ids \subseteq Ids' /\ \A j \in Ids : Has(j, "running") => jobs'[j] = jobs[j]
  <2>1. CASE jobs' = jobs
    BY <2>1 DEF Ids
  <2>2. CASE \E dropped, spared : \E batch \in Batches : jobs' = Transact(dropped, spared, batch)
    BY <2>2, InsertedRows DEF Has
  <2>3. QED
    BY <2>1, <2>2
<1>3. SparesHolders
  BY <1>1, <1>2 DEF SparesHolders, Busy
<1>4. /\ cur[w] \in Ids /\ Has(cur[w], "running")
      /\ \A v \in Workers : Executing(v, cur[w]) <=> v = w
  BY HolderAlone DEF Busy
<1>5. ASSUME NEW j \in Ids, Wipes(j), j # cur[w] PROVE j \in Ids' /\ Wipes(j)'
  <2>1. \A v \in Workers : Executing(v, j) => v # w
    BY <1>5 DEF Executing
  <2>2. QED
    BY <1>1, <1>3, <1>5, <2>1, SparedWipes
<1>6. QED
  BY <1>1, <1>3, <1>4, <1>5

(* One that had nothing to do with the memory, or failed before it had     *)
(* deleted any point, leaves its promise.                                  *)
LEMMA EndingKeepsPromise ==
    ASSUME Settings, Calm, Base, Promised, NEW w \in Workers, pc[w] = "execute", Forget(w),
           NEW step \in {"succeed", "fail"}, pc' = [pc EXCEPT ![w] = step], cur' = cur,
           SameEmbedJobs, EmbedFailed => EmbedFailed', UNCHANGED <<memory, point, unsent, payload>>,
           \A j \in Ids : Wipes(j) /\ j # cur[w] => j \in Ids' /\ Wipes(j)',
           ~Wipes(cur[w]), Type(w) = "embed_memory" => step = "fail"
    PROVE  Promised'
<1>1. pc'[w] = step /\ \A v \in Workers \ {w} : pc'[v] = pc[v] /\ seen'[v] = seen[v]
  BY DEF Settings, IInv, TypeOK, DataOK, SeenOK, Forget
<1>2. SameEmbedders
  <2> SUFFICES ASSUME NEW v \in Workers, NEW j \in EmbedJobs, Executing(v, j)'
               PROVE  /\ Executing(v, j)
                      /\ \/ pc'[v] = pc[v] /\ seen'[v] = seen[v]
                         \/ pc[v] = "execute" /\ pc'[v] = "fail"
    BY DEF SameEmbedders
  <2>1. CASE v # w
    BY <1>1, <2>1 DEF Executing
  <2>2. CASE v = w
    <3>1. j = cur[w]
      BY <2>2 DEF Executing
    <3>2. Type(w) = "embed_memory"
      BY <3>1 DEF EmbedJobs, Type
    <3>3. QED
      BY <1>1, <2>2, <3>1, <3>2 DEF Executing
  <2>3. QED
    BY <2>1, <2>2
<1>3. (\E j \in Ids : Wipes(j)) => (\E j \in Ids : Wipes(j))'
  OBVIOUS
<1>4. QED
  BY <1>2, <1>3, PromiseKept

(* A handler that raises: if it was to clear the memory it had no reason.  *)
LEMMA RaiseKeepsEmbed ==
    ASSUME Settings, Calm, Base, Promised, NEW w \in Workers, Refuse(w) \/ Abort(w)
    PROVE  Base' /\ Promised'
<1>1. /\ pc[w] = "execute" /\ Forget(w) /\ pc' = [pc EXCEPT ![w] = "fail"]
      /\ UNCHANGED <<jobs, cur, doc, memory, point, unsent, payload>>
  BY DEF Refuse, Abort, RaiseError, Goto, corpusVars
<1>2. /\ SparesHolders
      /\ \A j \in Ids : Wipes(j) /\ j # cur[w] => j \in Ids' /\ Wipes(j)'
      /\ \A v \in Workers : Executing(v, cur[w]) <=> v = w
  BY <1>1, EndingSpares
<1>3. EmbedJobs' = EmbedJobs /\ Ids' = Ids
  BY <1>1 DEF EmbedJobs, Ids
<1>4. Base'
  BY <1>2, <1>3, SparedHoldersFit DEF Base, OneEmbed
<1>5. ~Wipes(cur[w])
  <2> SUFFICES ASSUME Wipes(cur[w]) PROVE FALSE
    OBVIOUS
  <2>1. Type(w) \in {"ingest", "rebuild"} /\ seen[w].step = "called"
    BY <1>2 DEF Wipes, Type
  <2>2. ~Abort(w)
    BY <2>1 DEF Abort, At
  <2>3. Refused(w) /\ seen[w] # Unread
    BY <2>2 DEF Refuse
  <2>4. seen[w].found
    BY <2>1, <2>3 DEF Settings, DataOK, SeenOK, ReadOK
  <2>5. ReadFits(w) /\ coll
    BY DEF Base, Calm
  <2>6. QED
    BY <2>1, <2>3, <2>4, <2>5 DEF Refused, ReadFits
<1>6. SameEmbedJobs /\ (EmbedFailed => EmbedFailed')
  BY <1>1, <1>3 DEF SameEmbedJobs, EmbedFailed, Has
<1>7. Promised'
  BY <1>1, <1>2, <1>5, <1>6, EndingKeepsPromise
<1>8. QED
  BY <1>4, <1>7

(* Ingestions and rebuilds that end: no memory is left to embed.           *)
LEMMA ClearingKeepsEmbed ==
    ASSUME Settings, Calm, Base, NEW w \in Workers, Ingest(w) \/ IngestRefused(w) \/ Rebuild(w)
    PROVE  Base' /\ Promised'
<1>1. Promised'
  <2>1. memory' = NoMemory
    BY DEF Ingest, IngestRefused, Rebuild
  <2>2. memory'.text = {}
    BY <2>1 DEF NoMemory
  <2>3. QED
    BY <2>2, NothingPromised
<1>2. /\ pc[w] = "execute" /\ Forget(w) /\ cur' = cur /\ payload' = payload
  BY DEF Ingest, IngestRefused, Rebuild, Commit, CommitWork, RaiseError, At
<1>3. \A d \in Docs : doc[d].status # "absent" => doc'[d].status # "absent"
  <2>1. doc \in [Docs -> DocRow]
    BY DEF Settings, DataOK, DocsOK
  <2>2. CASE Ingest(w)
    BY <2>1, <2>2 DEF Ingest
  <2>3. CASE IngestRefused(w)
    BY <2>1, <2>3 DEF IngestRefused, DocRow
  <2>4. CASE Rebuild(w)
    BY <2>1, <2>4 DEF Rebuild, DocRow
  <2>5. QED
    BY <2>2, <2>3, <2>4
<1>4. CASE IngestRefused(w)
  <2>1. pc' = [pc EXCEPT ![w] = "fail"] /\ jobs' = jobs
    BY <1>4 DEF IngestRefused, RaiseError, Goto
  <2>2. SparesHolders
    BY <1>2, <1>3, <2>1, EndingSpares
  <2>3. OneEmbed'
    BY <2>1 DEF Base, OneEmbed, EmbedJobs, Ids
  <2>4. QED
    BY <1>1, <2>2, <2>3, SparedHoldersFit DEF Base
<1>5. ASSUME NEW dropped, NEW batch \in ProperBatches, CommitWork(w, dropped, batch),
             \A i \in DOMAIN batch : batch[i].type # "embed_memory"
      PROVE  Base'
  <2>1. /\ pc' = [pc EXCEPT ![w] = "succeed"] /\ batch \in Batches
        /\ jobs' = Transact(dropped, {cur[w]}, batch)
    BY <1>5 DEF CommitWork, Goto, ProperBatches
  <2>2. \E drop, spared : \E b \in Batches : jobs' = Transact(drop, spared, b)
    BY <2>1
  <2>3. SparesHolders
    BY <1>2, <1>3, <2>1, <2>2, EndingSpares
  <2>4. QED
    BY <1>5, <2>1, <2>3, InsertKeepsBase
<1>6. CASE Ingest(w)
  <2>1. Target(w) \in Docs
    BY <1>6, HeldJob DEF Ingest, At, Settings, IInv
  <2>2. Ensure("check", Target(w)) \in ProperBatches
    BY <2>1, ProperJob, SmallBatch
  <2>3. \A i \in DOMAIN Ensure("check", Target(w)) : Ensure("check", Target(w))[i].type # "embed_memory"
    BY DEF Ensure, Job
  <2>4. CommitWork(w, {}, Ensure("check", Target(w)))
    BY <1>6 DEF Ingest, Commit
  <2>5. QED
    BY <1>1, <1>5, <2>2, <2>3, <2>4
<1>7. CASE Rebuild(w)
  <2>1. PICK batch \in [1..Cardinality(Present) -> {Job("ingest", d) : d \in Present}] :
           Commit(w, Targets, batch)
    BY <1>7 DEF Rebuild
  <2>2. Present \subseteq Docs /\ Cardinality(Present) \in 0..Cardinality(Docs)
    <3>1. Present \subseteq Docs
      BY DEF Present
    <3>2. IsFiniteSet(Present) /\ Cardinality(Present) <= Cardinality(Docs)
      BY <3>1, FS_Subset, MemoryAssumption
    <3>3. Cardinality(Present) \in Nat /\ Cardinality(Docs) \in Nat
      BY <3>2, FS_CardinalityType, MemoryAssumption
    <3>4. QED
      BY <3>1, <3>2, <3>3
  <2>3. batch \in [1..Cardinality(Present) -> MemoryKind]
    BY <2>2, ProperJob
  <2>4. batch \in ProperBatches
    BY <2>2, <2>3, ProperBatch
  <2>5. \A i \in DOMAIN batch : batch[i].type # "embed_memory"
    BY DEF Job
  <2>6. QED
    BY <1>1, <1>5, <2>1, <2>4, <2>5 DEF Commit
<1>8. QED
  BY <1>4, <1>6, <1>7

(* A check publishes, or not; the memory is none of its business.          *)
LEMMA CheckKeepsEmbed ==
    ASSUME Settings, Calm, Base, Promised, NEW w \in Workers, Check(w)
    PROVE  Base' /\ Promised'
<1>1. /\ pc[w] = "execute" /\ Forget(w) /\ cur' = cur /\ pc' = [pc EXCEPT ![w] = "succeed"]
      /\ Type(w) = "check" /\ jobs' = Transact({}, {cur[w]}, <<>>)
      /\ UNCHANGED <<memory, point, unsent, payload>>
  BY DEF Check, Commit, CommitWork, Goto, At
<1>2. \A d \in Docs : doc[d].status # "absent" => doc'[d].status # "absent"
  <2>1. doc \in [Docs -> DocRow]
    BY DEF Settings, DataOK, DocsOK
  <2>2. QED
    BY <2>1 DEF Check, DocRow
<1>3. <<>> \in Batches
  BY SmallBatch DEF ProperBatches
<1>4. \E drop, spared : \E b \in Batches : jobs' = Transact(drop, spared, b)
  BY <1>1, <1>3
<1>5. /\ SparesHolders
      /\ \A j \in Ids : Wipes(j) /\ j # cur[w] => j \in Ids' /\ Wipes(j)'
  BY <1>1, <1>2, <1>4, EndingSpares
<1>6. Base' /\ SameEmbedJobs /\ (EmbedFailed => EmbedFailed')
  <2>1. \A i \in DOMAIN <<>> : <<>>[i].type # "embed_memory"
    OBVIOUS
  <2>2. Collection \notin {}
    OBVIOUS
  <2>3. QED
    BY <1>1, <1>3, <1>5, <2>1, <2>2, InsertKeepsBase
<1>7. ~Wipes(cur[w])
  BY <1>1 DEF Wipes, Type
<1>8. Promised'
  BY <1>1, <1>5, <1>6, <1>7, EndingKeepsPromise
<1>9. QED
  BY <1>6, <1>8

-----------------------------------------------------------------------------
(* EMBED ends: the text it read is the text that is there, and it had no   *)
(* reason to leave it out.                                                 *)
LEMMA EmbedKeepsEmbed ==
    ASSUME Settings, Calm, Base, Promised, NEW w \in Workers, EmbedMemory(w)
    PROVE  Base' /\ Promised'
<1>1. /\ pc[w] = "execute" /\ Forget(w) /\ cur' = cur /\ pc' = [pc EXCEPT ![w] = "succeed"]
      /\ Type(w) = "embed_memory" /\ jobs' = Transact({}, {cur[w]}, <<>>)
      /\ UNCHANGED <<doc, point, unsent, payload>>
  BY DEF EmbedMemory, Commit, CommitWork, Goto, At
<1>2. <<>> \in Batches
  BY SmallBatch DEF ProperBatches
<1>3. \E drop, spared : \E b \in Batches : jobs' = Transact(drop, spared, b)
  BY <1>1, <1>2
<1>4. /\ SparesHolders
      /\ pc'[w] = "succeed" /\ cur[w] \in Ids /\ Has(cur[w], "running")
      /\ \A v \in Workers : Executing(v, cur[w]) <=> v = w
      /\ \A j \in Ids : Wipes(j) /\ j # cur[w] => j \in Ids' /\ Wipes(j)'
  BY <1>1, <1>3, EndingSpares
<1>5. Base' /\ SameEmbedJobs /\ (EmbedFailed => EmbedFailed')
  <2>1. \A i \in DOMAIN <<>> : <<>>[i].type # "embed_memory"
    OBVIOUS
  <2>2. Collection \notin {}
    OBVIOUS
  <2>3. QED
    BY <1>1, <1>2, <1>4, <2>1, <2>2, InsertKeepsBase
<1>6. Promised'
  <2>1. memory \in MemoryRow
    BY DEF Settings, DataOK, MemoryOK
  <2>2. /\ memory'.text = memory.text
        /\ memory'.code = IF ~NothingToEmbed(w) THEN seen[w].text
                          ELSE IF seen[w].payload.obsolete THEN {} ELSE memory.code
        /\ memory'.embedded = (memory.embedded \/ (~NothingToEmbed(w) /\ memory.text # {}))
    BY <2>1 DEF EmbedMemory, MemoryRow
  <2> SUFFICES ASSUME memory.text # {} PROVE Promised'
    BY <2>2 DEF Promised
  <2>3. /\ cur[w] \in EmbedJobs /\ \A j \in EmbedJobs : j = cur[w]
    BY <1>1, <1>4 DEF EmbedJobs, Has, Type, Base, OneEmbed
  <2>4. \A j \in EmbedJobs' : ~payload'[j].deleteOnly
    BY <1>1, <1>5 DEF Promised, SameEmbedJobs
  <2>5. CASE EmbedFailed
    BY <1>5, <2>4, <2>5 DEF Promised
  <2>6. CASE Embedded
    BY <1>1, <1>4, <2>3, <2>6 DEF Embedded
  <2>7. CASE Coming
    <3>1. seen[w].text = memory.text /\ (seen[w].step = "called" => PointFits)
      BY <1>1, <1>4, <2>3, <2>7 DEF Coming, OnItsWay, EmbedMemory, At
    <3>2. ~seen[w].payload.deleteOnly
      <4>1. seen[w] # Unread
        BY DEF EmbedMemory, At, Unread
      <4>2. seen[w].payload = payload[cur[w]]
        BY <1>1, <4>1 DEF Base, ReadFits
      <4>3. QED
        BY <2>3, <4>2 DEF Promised
    <3>3. ~NothingToEmbed(w)
      BY <3>1, <3>2 DEF NothingToEmbed
    <3>4. PointFits
      BY <3>1, <3>3 DEF EmbedMemory, At
    <3>5. PointFits'
      <4>1. ~Wipes(cur[w])
        BY <1>1 DEF Wipes, Type
      <4>2. QED
        BY <1>1, <1>4, <2>2, <3>4, <4>1 DEF PointFits
    <3>6. \A j \in EmbedJobs' : Has(j, "running")' /\ j = cur[w]
      BY <1>4, <1>5, <2>3 DEF SameEmbedJobs, Has
    <3>7. ASSUME NEW j \in EmbedJobs', NEW v \in Workers, Executing(v, j)'
          PROVE  pc'[v] = "succeed"
      <4>1. Executing(v, cur[w])
        BY <1>1, <1>4, <3>6, <3>7 DEF Executing, SparesHolders, Busy
      <4>2. QED
        BY <1>4, <4>1
    <3>8. Embedded'
      BY <2>2, <3>1, <3>3, <3>5, <3>6, <3>7 DEF Embedded
    <3>9. QED
      BY <2>4, <3>8 DEF Promised
  <2>8. QED
    BY <2>5, <2>6, <2>7 DEF Promised
<1>7. QED
  BY <1>5, <1>6

(* A BUILD writes a text and asks for its embedding: by a new job, or by   *)
(* one that has not begun.                                                 *)
LEMMA BuildKeepsEmbed ==
    ASSUME Settings, Calm, Calm', Base, Promised, NEW w \in Workers, BuildMemory(w)
    PROVE  Base' /\ Promised'
<1> DEFINE text == seen[w].sources
           batch == Ensure("embed_memory", Collection)
           request == [deleteOnly |-> text = {}, obsolete |-> text = {} /\ memory.text # {}]
           new == Len(jobs) + 1
<1>1. /\ pc[w] = "execute" /\ Forget(w) /\ cur' = cur /\ pc' = [pc EXCEPT ![w] = "succeed"]
      /\ jobs' = Transact({}, {cur[w]}, batch) /\ doc' = doc
      /\ Fits(batch) /\ RequestEmbedding(request)
  BY DEF BuildMemory, Commit, CommitWork, Goto, At
<1>2. memory'.text = text /\ (request.deleteOnly <=> text = {})
  BY DEF BuildMemory, Settings, DataOK, MemoryOK, MemoryRow
<1>3. batch \in Batches
  BY ProperJob, SmallBatch DEF ProperBatches
<1>4. /\ payload \in [1..MaxJobs -> Payload] /\ DOMAIN jobs = 1..Len(jobs) /\ Len(jobs) \in Nat
      /\ cur[w] \in Ids
  BY <1>1, LenProperties, HolderAlone DEF Settings, DataOK, MemoryOK, IInv, TypeOK, Busy
<1>5. ~swallowed' /\ ~swallowed
  BY DEF Calm, Undisturbed
<1>6. \E drop, spared : \E b \in Batches : jobs' = Transact(drop, spared, b)
  BY <1>1, <1>3
<1>7. /\ Ids \subseteq Ids'
      /\ \A j \in Ids : jobs'[j] = jobs[j]
      /\ \A j \in Ids' \ Ids : \E i \in DOMAIN batch :
            j = Len(jobs) + i /\ jobs'[j] = NewRow(batch[i])
      /\ \A i \in DOMAIN batch : Len(jobs) + i \in Ids' \ Ids
  <2> HIDE DEF batch
  <2>1. PICK none, held : none = {} /\ held = {cur[w]}
    OBVIOUS
  <2>2. jobs' = Transact(none, held, batch)
    BY <1>1, <2>1
  <2>3. \A j \in Ids : jobs[j].kind.target \notin none
    BY <2>1
  <2>4. QED
    BY <1>3, <2>2, <2>3, InsertedRows
<1>8. ASSUME \A j \in Ids : Has(j, "running") => payload'[j] = payload[j]
      PROVE  SparesHolders
  <2>1. \A d \in Docs : doc[d].status # "absent" => doc'[d].status # "absent"
    BY <1>1
  <2>2. QED
    BY <1>1, <1>6, <1>8, <2>1, EndingSpares
<1>9. CASE EmbedJobs = {}
  <2>1. batch = <<Job("embed_memory", Collection)>> /\ new \in 1..MaxJobs
        /\ payload' = [payload EXCEPT ![new] = request]
    <3>1. ActiveJobs("embed_memory", Collection) = {}
      BY <1>9, EmbedJobsActive
    <3>2. batch = <<Job("embed_memory", Collection)>>
      BY <3>1 DEF Ensure
    <3>3. payload' = [payload EXCEPT ![new] = request]
      BY <1>1, <3>1 DEF RequestEmbedding
    <3>4. new \in 1..MaxJobs
      <4> HIDE DEF batch
      <4>1. Len(batch) = 1
        BY <3>2
      <4>2. QED
        BY <1>1, <1>4, <4>1, JobQueueAssumption DEF Fits
    <3>5. QED
      BY <3>2, <3>3, <3>4
  <2>2. payload'[new] = request /\ \A j \in Ids : payload'[j] = payload[j]
    BY <1>4, <2>1 DEF Ids
  <2> HIDE DEF request
  <2>3. /\ Ids' \ Ids = {new}
        /\ jobs'[new].kind.type = "embed_memory" /\ jobs'[new].status = "pending"
    <3>1. DOMAIN batch = {1} /\ batch[1] = Job("embed_memory", Collection)
      BY <2>1
    <3> HIDE DEF batch
    <3>2. Ids' \ Ids = {new} /\ jobs'[new] = NewRow(Job("embed_memory", Collection))
      BY <1>7, <3>1
    <3>3. QED
      BY <3>2 DEF NewRow, Job
  <2> HIDE DEF batch, text
  <2> PICK n : n = new
    OBVIOUS
  <2> HIDE DEF new
  <2>4. EmbedJobs' = {n}
    <3>1. \A j \in Ids : j \notin EmbedJobs'
      BY <1>7, <1>9 DEF EmbedJobs
    <3>2. QED
      BY <2>3, <3>1 DEF EmbedJobs
  <2>5. SparesHolders
    BY <1>8, <2>2
  <2>6. Base'
    BY <2>4, <2>5, SparedHoldersFit DEF Base, OneEmbed
  <2>7. \A v \in Workers : ~Executing(v, n)'
    <3> SUFFICES ASSUME NEW v \in Workers, Executing(v, n)' PROVE FALSE
      OBVIOUS
    <3>1. pc[v] \in Busy /\ cur'[v] = cur[v] /\ cur'[v] = n
      BY <2>5 DEF SparesHolders, Executing, Busy
    <3>2. cur[v] \in Ids
      BY <3>1, HolderAlone
    <3>3. QED
      BY <2>3, <3>1, <3>2
  <2>8. Coming'
    BY <2>4, <2>7 DEF Coming
  <2>9. Promised'
    BY <1>2, <2>2, <2>4, <2>8 DEF Promised
  <2>10. QED
    BY <2>6, <2>9
<1>10. CASE EmbedJobs # {}
  <2>1. PICK e \in EmbedJobs : EmbedJobs = {e}
    BY <1>10 DEF Base, OneEmbed
  <2>2. ActiveJobs("embed_memory", Collection) = {e} /\ Min({e}) = e
    <3>1. e \in Nat
      BY <1>4 DEF EmbedJobs, Ids
    <3>2. QED
      BY <2>1, <3>1, EmbedJobsActive DEF Min
  <2>3. batch = <<>> /\ Has(e, "pending")
        /\ payload' = [payload EXCEPT ![e] = Merged(payload[e], request)]
    BY <1>1, <1>5, <2>1, <2>2 DEF Ensure, RequestEmbedding
  <2>4. e \in 1..MaxJobs /\ e \in Ids
    <3>1. Len(jobs) <= MaxJobs
      BY <1>1, <1>4, <2>3, JobQueueAssumption DEF Fits
    <3>2. QED
      BY <1>4, <3>1, JobQueueAssumption DEF EmbedJobs, Ids
  <2>5. payload'[e] = Merged(payload[e], request) /\ \A j \in Ids : j # e => payload'[j] = payload[j]
    BY <1>4, <2>3, <2>4
  <2>6. payload'[e].deleteOnly <=> text = {}
    BY <1>2, <2>5 DEF Merged
  <2> HIDE DEF request, text
  <2>7. SparesHolders
    BY <1>8, <2>3, <2>5 DEF Has
  <2>8. EmbedJobs' = {e}
    <3>1. Ids' = Ids
      <4>1. DOMAIN batch = {}
        BY <2>3
      <4> HIDE DEF batch
      <4>2. QED
        BY <1>7, <4>1
    <3>2. QED
      BY <1>7, <2>1, <3>1 DEF EmbedJobs
  <2> HIDE DEF batch
  <2>9. Base'
    BY <2>7, <2>8, SparedHoldersFit DEF Base, OneEmbed
  <2>10. \A v \in Workers : ~Executing(v, e)'
    <3> SUFFICES ASSUME NEW v \in Workers, Executing(v, e)' PROVE FALSE
      OBVIOUS
    <3>1. pc[v] \in Busy /\ cur'[v] = cur[v] /\ cur'[v] = e
      BY <2>7 DEF SparesHolders, Executing, Busy
    <3>2. Has(cur[v], "running")
      BY <3>1, HolderAlone
    <3>3. QED
      BY <2>3, <3>1, <3>2 DEF Has
  <2>11. Coming'
    BY <2>8, <2>10 DEF Coming
  <2>12. Promised'
    BY <1>2, <2>6, <2>8, <2>11 DEF Promised
  <2>13. QED
    BY <2>9, <2>12
<1>11. QED
  BY <1>9, <1>10

-----------------------------------------------------------------------------
(* Requests do not touch EMBED jobs; a deletion ends the calm.             *)
LEMMA AskKeepsEmbed ==
    ASSUME Settings, Calm, Calm', Base, Promised, Ask
    PROVE  Base' /\ Promised'
<1>1. ASSUME NEW dropped, NEW batch \in ProperBatches, Request(dropped, batch),
             \A i \in DOMAIN batch : batch[i].type # "embed_memory",
             Collection \notin dropped, UNCHANGED <<memory, point, unsent, payload, seen>>,
             \A d \in Docs : doc[d].status # "absent" => doc'[d].status # "absent"
      PROVE  Base' /\ Promised'
  BY <1>1, RequestKeepsEmbed DEF ProperBatches
<1>2. CASE EnqueueMemory
  <2>1. Ensure("build_memory", Collection) \in ProperBatches
    BY ProperJob, SmallBatch
  <2>2. \A i \in DOMAIN Ensure("build_memory", Collection) :
            Ensure("build_memory", Collection)[i].type # "embed_memory"
    BY DEF Ensure, Job
  <2>3. /\ Request({}, Ensure("build_memory", Collection))
        /\ UNCHANGED <<memory, point, unsent, payload, seen, doc>>
    BY <1>2 DEF EnqueueMemory, corpusVars
  <2> HIDE DEF Ensure
  <2>4. QED
    BY <1>1, <2>1, <2>2, <2>3
<1>3. CASE RequestRebuild
  <2> DEFINE batch == <<Job("rebuild", Collection)>>
  <2>1. batch \in ProperBatches
    BY ProperJob, SmallBatch
  <2>2. \A i \in DOMAIN batch : batch[i].type # "embed_memory"
    BY DEF Job
  <2>3. Request({}, batch) /\ UNCHANGED <<memory, point, unsent, payload, seen, doc>>
    BY <1>3 DEF RequestRebuild, corpusVars
  <2> HIDE DEF batch
  <2>4. QED
    BY <1>1, <2>1, <2>2, <2>3
<1>4. ASSUME NEW d \in Docs, Upload(d) PROVE Base' /\ Promised'
  <2> DEFINE batch == <<Job("ingest", d)>>
  <2>1. batch \in ProperBatches
    BY ProperJob, SmallBatch
  <2>2. \A i \in DOMAIN batch : batch[i].type # "embed_memory"
    BY DEF Job
  <2>3. Request({d}, batch) /\ UNCHANGED <<memory, point, unsent, payload, seen>>
    BY <1>4 DEF Upload
  <2>4. \A c \in Docs : doc[c].status # "absent" => doc'[c].status # "absent"
    <3>1. doc \in [Docs -> DocRow]
      BY DEF Settings, DataOK, DocsOK
    <3>2. QED
      BY <1>4, <3>1 DEF Upload, DocRow
  <2>5. Collection \notin {d}
    BY MemoryAssumption
  <2> HIDE DEF batch
  <2>6. QED
    BY <1>1, <2>1, <2>2, <2>3, <2>4, <2>5
<1>5. ~StartDeletion /\ ~CommitDeletion
  BY DEF StartDeletion, CommitDeletion, Calm
<1>6. QED
  BY <1>2, <1>3, <1>4, <1>5 DEF Ask

(* Every step of the memory keeps what EmbedInv says.                      *)
LEMMA EmbedStep ==
    ASSUME Settings, EmbedInv, [MemoryNext]_memoryVars
    PROVE  EmbedInv'
<1> SUFFICES ASSUME Calm' PROVE Base' /\ Promised'
  BY DEF EmbedInv
<1>1. Calm /\ Base /\ Promised
  BY CalmEnds DEF EmbedInv
<1>2. ASSUME NEW w \in Workers, Poll(w) PROVE Base' /\ Promised'
  <2>1. UNCHANGED <<corpusVars, seen>>
    BY <1>2 DEF Poll
  <2>2. ~ClaimUnhandled(w)
    <3> SUFFICES ASSUME ClaimUnhandled(w) PROVE FALSE
      OBVIOUS
    <3>1. jobs[cur[w]] \in Row
      BY HeldRow DEF ClaimUnhandled, Settings, IInv
    <3>2. QED
      BY <3>1, MemoryAssumption DEF ClaimUnhandled, Row, Kind
  <2>3. CASE Claim(w)
    BY <1>1, <2>1, <2>3, ClaimKeepsEmbed
  <2>4. CASE Succeed(w) \/ Fail(w)
    BY <1>1, <2>1, <2>4, ReportKeepsEmbed
  <2>5. CASE Start(w) \/ ScanStale(w) \/ RequeueStale(w) \/ RequeueRolledBack(w)
             \/ Pick(w) \/ ClaimLost(w)
    BY <1>1, <2>1, <2>5, QuietKeepsEmbed
  <2>6. QED
    BY <1>2, <2>2, <2>3, <2>4, <2>5 DEF Poll, Loop
<1>3. ASSUME NEW w \in Workers, Work(w) PROVE Base' /\ Promised'
  <2>1. CASE Begin(w)
    BY <1>1, <2>1, BeginKeepsEmbed
  <2>2. CASE CallQdrant(w)
    BY <1>1, <2>2, CallKeepsEmbed
  <2>3. CASE ClearPoint(w) \/ UpsertPoint(w)
    BY <1>1, <2>3, PointKeepsEmbed
  <2>4. CASE BuildMemory(w)
    BY <1>1, <2>4, BuildKeepsEmbed
  <2>5. CASE EmbedMemory(w)
    BY <1>1, <2>5, EmbedKeepsEmbed
  <2>6. CASE Ingest(w) \/ IngestRefused(w) \/ Rebuild(w)
    BY <1>1, <2>6, ClearingKeepsEmbed
  <2>7. CASE Check(w)
    BY <1>1, <2>7, CheckKeepsEmbed
  <2>8. CASE Refuse(w)
    BY <1>1, <2>8, RaiseKeepsEmbed
  <2>9. QED
    BY <1>3, <2>1, <2>2, <2>3, <2>4, <2>5, <2>6, <2>7, <2>8 DEF Work, Write
<1>4. ASSUME NEW w \in Workers, Break(w) PROVE Base' /\ Promised'
  <2>1. CASE Abort(w)
    BY <1>1, <2>1, RaiseKeepsEmbed
  <2>2. CASE Crash(w) /\ Forget(w) /\ UNCHANGED corpusVars
    BY <1>1, <2>2, QuietKeepsEmbed
  <2>3. QED
    BY <1>4, <2>1, <2>2 DEF Break
<1>5. ASSUME UNCHANGED <<jobs, pc, cur, corpusVars, seen>> PROVE Base' /\ Promised'
  <2>1. \A w \in Workers : pc'[w] \in Busy =>
            pc'[w] = pc[w] /\ cur'[w] = cur[w] /\ seen'[w] = seen[w]
    BY <1>5
  <2>2. \A w \in Workers : seen'[w] # Unread => pc'[w] = "execute"
    BY <1>1, <1>5 DEF Base, ReadFits
  <2>3. QED
    BY <1>1, <1>5, <2>1, <2>2, HoldersLeave
<1>6. ASSUME NEW j \in Ids, Time(j) PROVE Base' /\ Promised'
  BY <1>5, <1>6 DEF Time, Expire
<1>7. CASE Ask
  BY <1>1, <1>7, AskKeepsEmbed
<1>8. CASE UNCHANGED memoryVars
  BY <1>5, <1>8 DEF memoryVars, queueVars
<1>9. QED
  BY <1>2, <1>3, <1>4, <1>6, <1>7, <1>8 DEF MemoryNext

(* At first nobody works and there is no memory.                           *)
LEMMA EmbedInit == MemoryInit => EmbedInv
<1> SUFFICES ASSUME MemoryInit PROVE Base /\ Promised
  BY DEF EmbedInv
<1>1. /\ jobs = <<>> /\ memory.text = {} /\ \A w \in Workers : pc[w] = "down" /\ seen[w] = Unread
  BY DEF MemoryInit, Init, NoMemory
<1>2. EmbedJobs = {}
  BY <1>1 DEF EmbedJobs, Ids
<1>3. QED
  BY <1>1, <1>2 DEF Base, Promised, HeldRuns, OneEmbed, ReadFits, Busy

(* The embedding's invariant, with all that the other proofs know.         *)
LEMMA EmbedInvariant == MemorySpec => [](Settings /\ EmbedInv)
<1>1. MemorySpec => []IInv
  BY MemoryRefinesQueue, Invariance, PTL
<1>2. IInv /\ (TypeOK /\ JobsFit /\ DataOK) => Settings
  BY DEF Settings
<1>3. MemorySpec => []Settings
  BY <1>1, <1>2, MemoryInvariant, PTL
<1>4. Settings /\ EmbedInv /\ [MemoryNext]_memoryVars => EmbedInv'
  BY EmbedStep
<1>5. QED
  BY <1>3, <1>4, EmbedInit, PTL DEF MemorySpec

(* The collection's memory is made from published generations, and when    *)
(* the queue has settled without a failure, a swallowed request or a       *)
(* recovered job, its code is that of its present text, and so is its      *)
(* point unless an optional Qdrant lost its last upsert: whatever          *)
(* ingestions, rebuilds, builds and embeddings came between, in whatever   *)
(* order the workers took them, and whichever calls to Qdrant were lost.   *)
(* When Qdrant is required the point always fits.                          *)
THEOREM MemoryStaysSound == MemorySpec => []MemoryIsSound
<1>1. Settings /\ EmbedInv => MemoryIsEmbedded
  <2> SUFFICES ASSUME Settings, EmbedInv, Undisturbed, Quiet, coll, ~leaving, ~EmbedFailed,
                      memory.text # {}
               PROVE  /\ memory.embedded /\ memory.code = memory.text
                      /\ point = memory.text \/ (unsent /\ ~QdrantRequired)
    BY DEF MemoryIsEmbedded
  <2>1. Promised
    BY DEF EmbedInv, Calm
  <2>2. EmbedJobs = {} /\ \A j \in Ids : ~Has(j, "running")
    BY DEF Quiet, EmbedJobs, Has
  <2>3. Embedded
    BY <2>1, <2>2 DEF Promised, Coming
  <2>4. unsent => ~QdrantRequired
    BY DEF Settings, DataOK, FlagsOK
  <2>5. QED
    BY <2>2, <2>3, <2>4 DEF Embedded, PointFits, Wipes
<1>2. QED
  BY <1>1, MemoryWasPublished, EmbedInvariant, PTL DEF MemoryIsSound

-----------------------------------------------------------------------------
(* Searches of the collection: what a search hands out has been            *)
(* published, whatever is ingested, rebuilt or deleted between its steps.  *)

SearchRow == [step : SearchStep, documents : [Docs -> DocStatuses],
              chunks : Text, summaries : Text, memory : Text]

(* Candidates exist from the beginning; the collection's summary comes     *)
(* from what was published as soon as it is read; chunks are known to be   *)
(* published when they have been validated.                                *)
SearchOK(s) ==
    /\ search[s] \in SearchRow
    /\ Existing(search[s].chunks)
    /\ search[s].memory \subseteq published
    /\ search[s].step \in {"chunks", "done"} => search[s].chunks \subseteq published

SearchInv == DOMAIN search = Searchers /\ search = [s \in Searchers |-> search[s]]
             /\ \A s \in Searchers : SearchOK(s)

-----------------------------------------------------------------------------
(* Sets of generations of the collection that exist.                       *)
LEMMA TextsOfNow ==
    ASSUME DataOK
    PROVE  /\ QdrantHits \in Text /\ Existing(QdrantHits)
           /\ LocalHits \in Text /\ Existing(LocalHits)
           /\ memory.text \in Text /\ memory.text \subseteq published
           /\ point \in Text /\ point \subseteq published
<1>1. ASSUME NEW h \in QdrantHits
      PROVE  h \in Generation /\ h[2] \in 1..doc[h[1]].made
  <2>1. PICK d \in Docs, g \in UNION {doc[c].points : c \in Docs} : h = <<d, g>>
    BY DEF QdrantHits, Points
  <2>2. h[1] = d /\ h[2] = g /\ g \in doc[d].points
    BY <2>1 DEF QdrantHits
  <2>3. doc[d].points \subseteq 1..doc[d].made /\ doc[d].made \in Nat
    BY DEF DataOK, DocsOK, RowOK, DocRow
  <2>4. QED
    BY <2>1, <2>2, <2>3 DEF Generation
<1>2. ASSUME NEW h \in LocalHits
      PROVE  h \in Generation /\ h[2] \in 1..doc[h[1]].made
  <2>1. PICK d \in Docs : doc[d].rows > 0 /\ h = <<d, doc[d].rows>>
    BY DEF LocalHits
  <2>2. h[1] = d /\ h[2] = doc[d].rows
    BY <2>1
  <2>3. doc[d].rows \in Nat /\ doc[d].made \in Nat /\ doc[d].rows <= doc[d].made
    BY DEF DataOK, DocsOK, RowOK, DocRow
  <2>4. doc[d].rows \in 1..doc[d].made
    BY <2>1, <2>3
  <2>5. QED
    BY <2>1, <2>2, <2>3, <2>4 DEF Generation
<1>3. published \in SUBSET Generation /\ memory.text \subseteq published
      /\ point \subseteq published
  BY DEF DataOK, DocsOK, MemoryOK, Text
<1>4. QED
  BY <1>1, <1>2, <1>3 DEF Text, Existing

(* A search that rests is not disturbed by the memory's steps.             *)
LEMMA SearchUntouched ==
    ASSUME DataOK, SearchInv, Grows, DataOK', UNCHANGED search
    PROVE  SearchInv'
<1>1. ASSUME NEW s \in Searchers PROVE SearchOK(s)'
  <2>1. SearchOK(s) /\ search[s].chunks \in SUBSET Generation
    BY DEF SearchInv, SearchOK, SearchRow, Text
  <2>2. \A h \in search[s].chunks :
           h[1] \in Docs /\ h[2] \in 1..doc[h[1]].made
    BY <2>1 DEF SearchOK, Existing, Generation
  <2>3. \A d \in Docs : doc[d].made \in Nat /\ doc'[d].made \in Nat
                        /\ doc[d].made <= doc'[d].made
    BY DEF DataOK, DocsOK, DocRow, Grows
  <2>4. Existing(search[s].chunks)'
    BY <2>2, <2>3 DEF Existing
  <2>5. QED
    BY <2>1, <2>4 DEF SearchOK, Grows
<1>2. QED
  BY <1>1 DEF SearchInv

(* A step of one search leaves the memory and the other searches alone.    *)
LEMMA SearchAdvances ==
    ASSUME SearchInv, UNCHANGED <<corpusVars, seen>>, NEW s \in Searchers,
           NEW row \in SearchRow, search' = [search EXCEPT ![s] = row],
           Existing(row.chunks), row.memory \subseteq published,
           row.step \in {"chunks", "done"} => row.chunks \subseteq published
    PROVE  SearchInv'
<1>1. \A t \in Searchers : search'[t] = IF t = s THEN row ELSE search[t]
  BY DEF SearchInv
<1>2. search' = [t \in Searchers |-> search'[t]] /\ DOMAIN search' = Searchers
  BY DEF SearchInv
<1>3. ASSUME NEW t \in Searchers PROVE SearchOK(t)'
  BY <1>1 DEF SearchInv, SearchOK, corpusVars, Existing
<1>4. QED
  BY <1>2, <1>3 DEF SearchInv

(* A search that has not begun.                                            *)
LEMMA IdleRow ==
    Idle \in SearchRow /\ Idle.chunks = {} /\ Idle.memory = {} /\ Idle.step = "idle"
BY DEF Idle, SearchRow, SearchStep, DocStatuses, Text

(* Each step of a search.                                                  *)
LEMMA SearchStepKeeps ==
    ASSUME DataOK, SearchInv, NEW s \in Searchers,
           ListDocuments(s) \/ CheckPublication(s) \/ Retrieve(s)
           \/ ValidateChunks(s) \/ ValidateSummaries(s)
    PROVE  SearchInv' /\ UNCHANGED <<corpusVars, seen>>
<1>1. UNCHANGED <<corpusVars, seen>>
  BY DEF ListDocuments, CheckPublication, Retrieve, ValidateChunks, ValidateSummaries, memoryVars
<1>2. SearchOK(s) /\ search[s] \in SearchRow
  BY DEF SearchInv, SearchOK
<1>3. CASE ListDocuments(s)
  <2> DEFINE next == IF coll THEN "listed" ELSE "refused"
             statuses == [d \in Docs |-> doc[d].status]
             row == [Idle EXCEPT !.step = next, !.documents = statuses]
  <2>1. next \in SearchStep /\ next \notin {"chunks", "done"}
    BY DEF SearchStep
  <2>2. statuses \in [Docs -> DocStatuses]
    BY DEF DataOK, DocsOK, DocRow
  <2>3. search' = [search EXCEPT ![s] = row]
    BY <1>3 DEF ListDocuments, Advance
  <2> HIDE DEF next, statuses
  <2>4. Idle \in SearchRow /\ Idle.chunks = {} /\ Idle.memory = {}
    BY IdleRow
  <2>5. row \in SearchRow /\ row.chunks = {} /\ row.memory = {} /\ row.step = next
    BY <2>1, <2>2, <2>4 DEF SearchRow
  <2> HIDE DEF row
  <2>6. QED
    BY <1>1, <2>1, <2>3, <2>5, SearchAdvances DEF Existing
<1>4. CASE CheckPublication(s)
  <2> DEFINE next == IF Publishable(search[s].documents) THEN "checked" ELSE "refused"
             row == [search[s] EXCEPT !.step = next]
  <2>1. next \in SearchStep /\ next \notin {"chunks", "done"}
    BY DEF SearchStep
  <2>2. search' = [search EXCEPT ![s] = row]
    BY <1>4 DEF CheckPublication, Advance
  <2> HIDE DEF next
  <2>3. row \in SearchRow /\ row.chunks = search[s].chunks
        /\ row.memory = search[s].memory /\ row.step = next
    BY <1>2, <2>1 DEF SearchRow
  <2> HIDE DEF row
  <2>4. QED
    BY <1>1, <1>2, <2>1, <2>2, <2>3, SearchAdvances DEF SearchOK
<1>5. CASE Retrieve(s)
  <2>1. ASSUME NEW hits \in Text, Existing(hits), NEW text \in Text, text \subseteq published,
               search' = [search EXCEPT ![s] = [search[s] EXCEPT !.step = "retrieved",
                             !.chunks = hits, !.summaries = hits, !.memory = text]]
        PROVE  SearchInv'
    <3> DEFINE row == [search[s] EXCEPT !.step = "retrieved",
                          !.chunks = hits, !.summaries = hits, !.memory = text]
    <3>1. row \in SearchRow /\ row.chunks = hits /\ row.memory = text /\ row.step = "retrieved"
      BY <1>2 DEF SearchRow, SearchStep
    <3>2. search' = [search EXCEPT ![s] = row]
      BY <2>1
    <3> HIDE DEF row
    <3>3. QED
      BY <1>1, <2>1, <3>1, <3>2, SearchAdvances
  <2>2. \/ search' = [search EXCEPT ![s] = [search[s] EXCEPT !.step = "retrieved",
              !.chunks = QdrantHits, !.summaries = QdrantHits, !.memory = point]]
        \/ search' = [search EXCEPT ![s] = [search[s] EXCEPT !.step = "retrieved",
              !.chunks = LocalHits, !.summaries = LocalHits, !.memory = memory.text]]
    BY <1>5 DEF Retrieve, Advance
  <2>3. QED
    BY <1>1, <2>1, <2>2, TextsOfNow
<1>6. CASE ValidateChunks(s)
  <2> DEFINE hits == PublishedChunks(search[s].chunks)
             row == [search[s] EXCEPT !.step = "chunks", !.chunks = hits]
  <2>1. hits \subseteq search[s].chunks
    BY DEF PublishedChunks, Rehydrated
  <2>2. search[s].chunks \in SUBSET Generation
    BY <1>2 DEF SearchRow, Text
  <2>3. ASSUME NEW h \in hits PROVE h \in published
    <3>1. h \in Generation /\ doc[h[1]].rows = h[2] /\ doc[h[1]].status = "ready"
      BY <2>1, <2>2 DEF PublishedChunks, Rehydrated
    <3>2. h[1] \in Docs /\ h = <<h[1], h[2]>>
      BY <3>1 DEF Generation
    <3>3. QED
      BY <3>1, <3>2 DEF DataOK, DocsOK
  <2>4. hits \in Text /\ Existing(hits)
    BY <1>2, <2>1, <2>2 DEF Text, Existing, SearchOK
  <2>5. search' = [search EXCEPT ![s] = row]
    BY <1>6 DEF ValidateChunks, Advance
  <2>6. hits \subseteq published
    BY <2>3
  <2> HIDE DEF hits
  <2>7. row \in SearchRow /\ row.chunks = hits /\ row.memory = search[s].memory
    BY <1>2, <2>4 DEF SearchRow, SearchStep
  <2> HIDE DEF row
  <2>8. QED
    BY <1>1, <1>2, <2>4, <2>5, <2>6, <2>7, SearchAdvances DEF SearchOK
<1>7. CASE ValidateSummaries(s)
  <2> DEFINE found == {h \in Rehydrated(search[s].summaries) :
                          h[1] \in ReadyIds(search[s].documents)}
             text == IF search[s].memory = {} THEN {} ELSE memory.text
             row == [search[s] EXCEPT !.step = "done", !.summaries = found, !.memory = text]
  <2>1. found \in Text
    BY <1>2 DEF Rehydrated, SearchRow, Text
  <2>2. text \in Text /\ text \subseteq published
    BY TextsOfNow DEF Text
  <2>3. search' = [search EXCEPT ![s] = row] /\ search[s].step = "chunks"
    BY <1>7 DEF ValidateSummaries, Advance
  <2> HIDE DEF found, text
  <2>4. row \in SearchRow /\ row.chunks = search[s].chunks /\ row.memory = text
    BY <1>2, <2>1, <2>2 DEF SearchRow, SearchStep
  <2> HIDE DEF row
  <2>5. QED
    BY <1>1, <1>2, <2>2, <2>3, <2>4, SearchAdvances DEF SearchOK
<1>8. QED
  BY <1>1, <1>3, <1>4, <1>5, <1>6, <1>7

-----------------------------------------------------------------------------
SearchInvariant == TypeOK /\ JobsFit /\ DataOK /\ SearchInv

(* The invariant of the memory is not disturbed by searches.               *)
LEMMA SearchesDisturbNothing ==
    ASSUME TypeOK, JobsFit, DataOK, UNCHANGED <<queueVars, corpusVars, seen>>
    PROVE  TypeOK' /\ JobsFit' /\ DataOK'
<1>1. TypeOK' /\ JobsFit'
  BY QueueStepIsNext, TypeStep, JobsStayFit, JobQueueAssumption
<1>2. DataOK'
  BY QuietData
<1>3. QED
  BY <1>1, <1>2

(* Every step of the memory or of a search preserves it.                   *)
LEMMA SearchInvariantStep == SearchInvariant /\ [SearchNext]_searchVars => SearchInvariant'
<1> SUFFICES ASSUME SearchInvariant, [SearchNext]_searchVars PROVE SearchInvariant'
  OBVIOUS
<1> USE DEF SearchInvariant
<1>1. CASE [MemoryNext]_memoryVars /\ UNCHANGED search
  BY <1>1, QueueKept, DataStep, SearchUntouched
<1>2. ASSUME NEW s \in Searchers,
             ListDocuments(s) \/ CheckPublication(s) \/ Retrieve(s)
             \/ ValidateChunks(s) \/ ValidateSummaries(s)
      PROVE  SearchInvariant'
  <2>1. UNCHANGED queueVars
    BY <1>2 DEF ListDocuments, CheckPublication, Retrieve, ValidateChunks, ValidateSummaries,
                memoryVars
  <2>2. QED
    BY <1>2, <2>1, SearchStepKeeps, SearchesDisturbNothing
<1>3. QED
  BY <1>1, <1>2 DEF SearchNext, searchVars

(* In the beginning nobody searches.                                       *)
LEMMA SearchInvariantInit == SearchInit => SearchInvariant
<1> SUFFICES ASSUME SearchInit PROVE SearchInvariant
  OBVIOUS
<1>1. SearchInv
  BY IdleRow DEF SearchInit, SearchInv, SearchOK, Existing
<1>2. QED
  BY <1>1, QueueInit, DataInit DEF SearchInit, SearchInvariant

(* A search holds generations that exist and hands out published ones: its *)
(* chunks were READY when they were validated, and the generations behind  *)
(* the summary of the collection that it cites had been published, however *)
(* its steps interleave with ingestions, rebuilds and deletions.           *)
THEOREM EvidencePublished == SearchSpec => []EvidenceIsSound
<1>1. SearchInvariant => EvidenceIsSound
  <2> SUFFICES ASSUME SearchInvariant PROVE EvidenceIsSound
    OBVIOUS
  <2>1. MemoryTypeOK
    BY TypesFollow DEF SearchInvariant
  <2>2. search \in [Searchers -> SearchRow] /\ \A s \in Searchers : SearchOK(s)
    BY DEF SearchInvariant, SearchInv, SearchOK
  <2>3. SearchTypeOK
    BY <2>1, <2>2 DEF SearchTypeOK, SearchRow, SearchOK
  <2>4. EvidenceWasPublished
    BY <2>2 DEF EvidenceWasPublished, SearchOK
  <2>5. QED
    BY <2>3, <2>4 DEF EvidenceIsSound
<1>2. QED
  BY <1>1, SearchInvariantInit, SearchInvariantStep, PTL DEF SearchSpec

=============================================================================
