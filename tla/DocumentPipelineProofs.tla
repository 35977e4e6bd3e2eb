----------------------- MODULE DocumentPipelineProofs -----------------------
(***************************************************************************)
(* Theorems about DocumentPipeline, for any number of documents, requests, *)
(* workers, errors and faults: the pipeline is a client of the job queue   *)
(* that obeys its rules, its variables keep their types, and on a          *)
(* single-worker backend a rebuild leaves nothing of the past behind.      *)
(***************************************************************************)
EXTENDS DocumentPipeline, JobQueueProofs, FiniteSetTheorems

(* The jobs of the pipeline: REBUILD works on the collection, every other  *)
(* type on a document.                                                     *)
PipelineKind ==
    {k \in Kind : IF k.type = "rebuild" THEN k.target = Collection
                                        ELSE k.target \in Docs}

ProperBatches == {b \in Batches : \A i \in DOMAIN b : b[i] \in PipelineKind}

JobsFit == \A j \in Ids : jobs[j].kind \in PipelineKind

-----------------------------------------------------------------------------
(* Batches.  A document's job and a REBUILD of the collection are proper.  *)
LEMMA ProperJob ==
    /\ \A type \in PipelineTypes \ {"rebuild"}, d \in Docs :
          Job(type, d) \in PipelineKind
    /\ Job("rebuild", Collection) \in PipelineKind
BY PipelineAssumption DEF Job, Kind, PipelineKind, PipelineTypes

(* At most BatchBound such jobs make a proper batch,                       *)
LEMMA ProperBatch ==
    ASSUME NEW n \in 0..BatchBound, NEW batch \in [1..n -> PipelineKind]
    PROVE  batch \in ProperBatches
<1>1. batch \in [1..n -> Kind] /\ DOMAIN batch = 1..n
  BY DEF PipelineKind
<1>2. batch \in Batches
  BY <1>1, PipelineAssumption DEF FollowUps
<1>3. QED
  BY <1>1, <1>2 DEF ProperBatches

(* in particular the empty batch and a single job.                         *)
LEMMA SmallBatch ==
    /\ <<>> \in ProperBatches
    /\ \A k \in PipelineKind : <<k>> \in ProperBatches
<1>1. 0 \in 0..BatchBound /\ 1 \in 0..BatchBound
  BY PipelineAssumption
<1>2. <<>> \in [1..0 -> PipelineKind]
  OBVIOUS
<1>3. ASSUME NEW k \in PipelineKind
      PROVE  <<k>> \in [1..1 -> PipelineKind]
  OBVIOUS
<1>4. QED
  BY <1>1, <1>2, <1>3, ProperBatch

(* A sequence of at most n jobs; ensure_pending yields at most one.        *)
Few(n, s) == s \in Seq(PipelineKind) /\ Len(s) <= n

(* ensure_pending creates one job of the wanted stage or none.             *)
LEMMA EnsureIsFew ==
    ASSUME NEW type \in PipelineTypes \ {"rebuild"}, NEW d \in Docs
    PROVE  Few(1, Ensure(type, d))
<1>1. Few(1, <<>>)
  BY EmptySeq DEF Few
<1>2. Few(1, <<Job(type, d)>>)
  BY ProperJob DEF Few
<1>3. QED
  BY <1>1, <1>2 DEF Ensure

(* Numbers of jobs add up,                                                 *)
LEMMA FewConcat ==
    ASSUME NEW m \in Nat, NEW n \in Nat, NEW s, NEW t, Few(m, s), Few(n, t)
    PROVE  Few(m + n, s \o t)
<1>1. /\ s \o t \in Seq(PipelineKind) /\ Len(s \o t) = Len(s) + Len(t)
      /\ Len(s) \in Nat /\ Len(t) \in Nat
  BY ConcatProperties, LenProperties DEF Few
<1>2. QED
  BY <1>1 DEF Few

(* and three jobs are still a batch.                                       *)
LEMMA FewIsProper ==
    ASSUME NEW n \in 0..3, NEW s, Few(n, s)
    PROVE  s \in ProperBatches
<1>1. s \in [1..Len(s) -> PipelineKind] /\ Len(s) \in Nat
  BY LenProperties, SeqDef DEF Few
<1>2. Len(s) \in 0..BatchBound
  BY <1>1, PipelineAssumption DEF Few
<1>3. QED
  BY <1>1, <1>2, ProperBatch

(* Fan-out of EXTRACT, and whatever a repair asks for.                     *)
LEMMA ThreeEnsured ==
    ASSUME NEW d \in Docs,
           NEW a \in PipelineTypes \ {"rebuild"},
           NEW b \in PipelineTypes \ {"rebuild"},
           NEW c \in PipelineTypes \ {"rebuild"}
    PROVE  Ensure(a, d) \o Ensure(b, d) \o Ensure(c, d) \in ProperBatches
<1>1. Few(1, Ensure(a, d)) /\ Few(1, Ensure(b, d)) /\ Few(1, Ensure(c, d))
  BY EnsureIsFew
<1>2. Few(1 + 1, Ensure(a, d) \o Ensure(b, d))
  BY <1>1, FewConcat
<1>3. Few((1 + 1) + 1, Ensure(a, d) \o Ensure(b, d) \o Ensure(c, d))
  BY <1>1, <1>2, FewConcat
<1>4. QED
  BY <1>3, FewIsProper

(* A repair creates at most three jobs, all of the document repaired.      *)
LEMMA RepairsAreProper ==
    ASSUME NEW d \in Docs
    PROVE  Repairs(d) \in ProperBatches
<1> DEFINE missing == Missing(d)
           props  == IF "proposition_embeddings" \in missing
                     THEN Ensure("embed_propositions", d) ELSE <<>>
           sums   == CASE "summaries" \in missing -> Ensure("summarize", d)
                       [] "summaries" \notin missing /\ "summary_embeddings" \in missing
                            -> Ensure("embed_summaries", d)
                       [] OTHER -> <<>>
           graph  == CASE "graph" \in missing -> Ensure("graph", d)
                       [] "graph" \notin missing /\ "visual" \in missing
                            -> Ensure("visual", d)
                       [] OTHER -> <<>>
           repairs == props \o sums \o graph
<1>1. \A type \in PipelineTypes \ {"rebuild"} : Few(1, Ensure(type, d))
  BY EnsureIsFew
<1>2. Few(1, <<>>)
  BY EmptySeq DEF Few
<1>3. /\ {"embed_propositions", "summarize", "embed_summaries", "graph", "visual",
          "extract", "check"} \subseteq PipelineTypes \ {"rebuild"}
  BY DEF PipelineTypes
<1>4. Few(1, props)
  BY <1>1, <1>2, <1>3
<1>5. Few(1, sums)
  BY <1>1, <1>2, <1>3
<1>6. Few(1, graph)
  BY <1>1, <1>2, <1>3
<1>7. Few(1 + 1, props \o sums)
  <2> HIDE DEF props, sums
  <2> QED
    BY <1>4, <1>5, FewConcat
<1>8. Few((1 + 1) + 1, repairs)
  <2> HIDE DEF props, sums, graph
  <2> QED
    BY <1>6, <1>7, FewConcat
<1>9. /\ repairs \in ProperBatches
      /\ Ensure("extract", d) \in ProperBatches
      /\ Ensure("check", d) \in ProperBatches
      /\ <<>> \in ProperBatches
  <2> HIDE DEF repairs
  <2> QED
    BY <1>1, <1>2, <1>3, <1>8, FewIsProper
<1>10. Repairs(d) = CASE Active(d, Upstream) -> <<>>
         [] ~Active(d, Upstream) /\ "propositions" \in missing -> Ensure("extract", d)
         [] OTHER -> IF repairs = <<>> THEN Ensure("check", d) ELSE repairs
  BY DEF Repairs
<1>11. QED
  <2> HIDE DEF repairs, missing
  <2> QED
    BY <1>9, <1>10

(* REBUILD inserts at most one job per document.                           *)
LEMMA ParseJobsAreProper ==
    ASSUME NEW w \in Workers, NEW batch \in ParseJobs(w)
    PROVE  batch \in ProperBatches
<1>1. PICK order \in Bijection(1..Cardinality(Listed(w)), Listed(w)) :
         batch = [i \in DOMAIN order |-> Job("parse", order[i])]
  BY DEF ParseJobs
<1>2. Listed(w) \subseteq Docs
  BY DEF Listed
<1>3. Cardinality(Listed(w)) \in Nat /\ Cardinality(Listed(w)) <= BatchBound
  <2>1. /\ IsFiniteSet(Listed(w))
        /\ Cardinality(Listed(w)) <= Cardinality(Docs)
    BY <1>2, FS_Subset, PipelineAssumption
  <2>2. Cardinality(Listed(w)) \in Nat /\ Cardinality(Docs) \in Nat
    BY <2>1, FS_CardinalityType, PipelineAssumption
  <2>3. QED
    BY <2>1, <2>2, PipelineAssumption
<1>4. order \in [1..Cardinality(Listed(w)) -> Listed(w)]
  BY DEF Bijection, Injection
<1>5. batch \in [1..Cardinality(Listed(w)) -> PipelineKind]
  BY <1>1, <1>2, <1>4, ProperJob DEF PipelineTypes
<1>6. QED
  BY <1>3, <1>5, ProperBatch

-----------------------------------------------------------------------------
(***************************************************************************)
(* Every step of the pipeline is a step of the queue.                      *)
(***************************************************************************)
Acts(w) ==
    \E dropped \in SUBSET Targets, batch \in ProperBatches :
        Fits(batch) /\ CommitWork(w, dropped, batch)

AsksFor ==
    \E dropped \in SUBSET Targets, batch \in ProperBatches :
        Fits(batch) /\ Request(dropped, batch)

QueueStep ==
    \/ \E w \in Workers : Start(w) \/ Loop(w) \/ Fault(w) \/ RaiseError(w) \/ Acts(w)
    \/ \E j \in Ids : Expire(j) \/ Outlive(j)
    \/ AsksFor

(* What a worker holds is a job of the pipeline.                           *)
LEMMA HeldJob ==
    ASSUME TypeOK, JobsFit, NEW w \in Workers, pc[w] = "execute"
    PROVE  /\ cur[w] \in Ids
           /\ Type(w) \in PipelineTypes
           /\ Type(w) = "rebuild" => Target(w) = Collection
           /\ Type(w) # "rebuild" => Target(w) \in Docs
           /\ Target(w) \in Targets
<1>1. cur[w] \in Ids
  BY DEF TypeOK
<1>2. jobs[cur[w]].kind \in PipelineKind
  BY <1>1 DEF JobsFit
<1>3. QED
  BY <1>1, <1>2, PipelineAssumption DEF PipelineKind, Kind, Type, Target

(* The handlers commit proper batches or raise.                            *)
LEMMA WriteActs ==
    ASSUME TypeOK, JobsFit, NEW w \in Workers, Write(w)
    PROVE  Acts(w) \/ RaiseError(w)
<1>1. pc[w] = "execute"
  BY DEF Write, Parse, ParseRefused, Normalize, Segment, Embed, Extract,
         EmbedPropositions, GenerateSummaries, EmbedSummaries, BuildGraph,
         IndexVisualPages, CheckReadiness, Rebuild, Skip, Refuse, Turn
<1>2. ASSUME NEW dropped \in SUBSET Targets, NEW batch \in ProperBatches,
             Fits(batch), CommitWork(w, dropped, batch)
      PROVE  Acts(w)
  BY <1>2 DEF Acts
<1>3. ASSUME NEW d, NEW row, NEW batch \in ProperBatches, Commit(w, d, row, batch)
      PROVE  Acts(w)
  BY <1>2, <1>3 DEF Commit
<1>4. ASSUME Type(w) \in PipelineTypes \ {"rebuild"}
      PROVE  /\ Target(w) \in Docs
             /\ \A type \in PipelineTypes \ {"rebuild"} :
                   /\ <<Job(type, Target(w))>> \in ProperBatches
                   /\ Ensure(type, Target(w)) \in ProperBatches
             /\ <<>> \in ProperBatches
  BY <1>1, <1>4, HeldJob, ProperJob, SmallBatch, EnsureIsFew, FewIsProper
<1>5. CASE Parse(w)
  <2>1. Type(w) = "parse"
    BY <1>5 DEF Parse, Turn
  <2>2. <<Job("normalize", Target(w))>> \in ProperBatches
    BY <1>4, <2>1 DEF PipelineTypes
  <2>3. QED
    BY <1>3, <1>5, <2>2 DEF Parse
<1>6. CASE ParseRefused(w)
  BY <1>6 DEF ParseRefused
<1>7. CASE Normalize(w)
  <2>1. Type(w) = "normalize"
    BY <1>7 DEF Normalize, Turn
  <2>2. <<Job("segment", Target(w))>> \in ProperBatches
    BY <1>4, <2>1 DEF PipelineTypes
  <2>3. QED
    BY <1>3, <1>7, <2>2 DEF Normalize
<1>8. CASE Segment(w)
  <2>1. Type(w) = "segment"
    BY <1>8 DEF Segment, Turn
  <2>2. <<Job("embed", Target(w))>> \in ProperBatches
    BY <1>4, <2>1 DEF PipelineTypes
  <2>3. QED
    BY <1>3, <1>8, <2>2 DEF Segment
<1>9. CASE Embed(w)
  <2>1. Type(w) = "embed"
    BY <1>9 DEF Embed, Turn
  <2>2. <<Job("extract", Target(w))>> \in ProperBatches
    BY <1>4, <2>1 DEF PipelineTypes
  <2>3. QED
    BY <1>3, <1>9, <2>2 DEF Embed
<1>10. CASE Extract(w)
  <2>1. Type(w) = "extract"
    BY <1>10 DEF Extract, Turn
  <2>2. Ensure("embed_propositions", Target(w)) \o Ensure("summarize", Target(w))
           \o Ensure("graph", Target(w)) \in ProperBatches
    BY <1>4, <2>1, ThreeEnsured DEF PipelineTypes
  <2>3. QED
    BY <1>3, <1>10, <2>2 DEF Extract
<1>11. CASE EmbedPropositions(w)
  <2>1. Type(w) = "embed_propositions"
    BY <1>11 DEF EmbedPropositions, Turn
  <2>2. Ensure("check", Target(w)) \in ProperBatches
    BY <1>4, <2>1 DEF PipelineTypes
  <2>3. QED
    BY <1>3, <1>11, <2>2 DEF EmbedPropositions
<1>12. CASE GenerateSummaries(w)
  <2>1. Type(w) = "summarize"
    BY <1>12 DEF GenerateSummaries, Turn
  <2>2. Ensure("embed_summaries", Target(w)) \in ProperBatches
    BY <1>4, <2>1 DEF PipelineTypes
  <2>3. QED
    BY <1>3, <1>12, <2>2 DEF GenerateSummaries
<1>13. CASE EmbedSummaries(w)
  <2>1. Type(w) = "embed_summaries"
    BY <1>13 DEF EmbedSummaries, Turn
  <2>2. Ensure("check", Target(w)) \in ProperBatches
    BY <1>4, <2>1 DEF PipelineTypes
  <2>3. QED
    BY <1>3, <1>13, <2>2 DEF EmbedSummaries
<1>14. CASE BuildGraph(w)
  <2>1. Type(w) = "graph"
    BY <1>14 DEF BuildGraph, Turn
  <2>2. Ensure(IF Visual THEN "visual" ELSE "check", Target(w)) \in ProperBatches
    BY <1>4, <2>1 DEF PipelineTypes
  <2>3. QED
    BY <1>3, <1>14, <2>2 DEF BuildGraph
<1>15. CASE IndexVisualPages(w)
  <2>1. Type(w) = "visual"
    BY <1>15 DEF IndexVisualPages, Turn
  <2>2. Ensure("check", Target(w)) \in ProperBatches
    BY <1>4, <2>1 DEF PipelineTypes
  <2>3. QED
    BY <1>3, <1>15, <2>2 DEF IndexVisualPages
<1>16. CASE CheckReadiness(w)
  BY <1>3, <1>16, SmallBatch DEF CheckReadiness
<1>17. CASE Rebuild(w)
  <2>1. Obsolete(w) \subseteq Targets
    BY PipelineAssumption DEF Obsolete, Listed
  <2>2. PICK batch \in ParseJobs(w) : Fits(batch) /\ CommitWork(w, Obsolete(w), batch)
    BY <1>17 DEF Rebuild
  <2>3. batch \in ProperBatches
    BY ParseJobsAreProper
  <2>4. QED
    BY <1>2, <2>1, <2>2, <2>3
<1>18. CASE Skip(w)
  BY <1>3, <1>18, SmallBatch DEF Skip
<1>19. CASE Refuse(w)
  BY <1>19 DEF Refuse
<1>20. QED
  BY <1>5, <1>6, <1>7, <1>8, <1>9, <1>10, <1>11, <1>12, <1>13, <1>14, <1>15,
     <1>16, <1>17, <1>18, <1>19 DEF Write

(* Requests insert proper batches or nothing.                              *)
LEMMA AskAsks ==
    ASSUME Ask
    PROVE  AsksFor \/ UNCHANGED queueVars
<1>1. ASSUME NEW dropped \in SUBSET Targets, NEW batch \in ProperBatches,
             Fits(batch), Request(dropped, batch)
      PROVE  AsksFor
  BY <1>1 DEF AsksFor
<1>2. /\ <<Job("rebuild", Collection)>> \in ProperBatches
      /\ \A d \in Docs : /\ <<Job("parse", d)>> \in ProperBatches
                         /\ Ensure("check", d) \in ProperBatches
                         /\ {d} \subseteq Targets
  BY ProperJob, SmallBatch, EnsureIsFew, FewIsProper, PipelineAssumption
     DEF PipelineTypes
<1>3. CASE RequestRebuild
  BY <1>1, <1>2, <1>3 DEF RequestRebuild
<1>4. ASSUME NEW d \in Docs, Register(d)
      PROVE  AsksFor
  BY <1>1, <1>2, <1>4 DEF Register
<1>5. ASSUME NEW d \in Docs, RepairNothing(d)
      PROVE  AsksFor
  BY <1>1, <1>2, <1>5 DEF RepairNothing
<1>6. ASSUME NEW d \in Docs, RepairBase(d)
      PROVE  AsksFor \/ UNCHANGED queueVars
  BY <1>1, <1>2, <1>6 DEF RepairBase
<1>7. ASSUME NEW d \in Docs, RepairLayers(d)
      PROVE  AsksFor
  BY <1>1, <1>7, RepairsAreProper DEF RepairLayers
<1>8. QED
  BY <1>3, <1>4, <1>5, <1>6, <1>7 DEF Ask, Resume

(* So does every other step: it is the queue's, or none of its business.   *)
LEMMA PipelineQueueStep ==
    ASSUME TypeOK, JobsFit, [PipelineNext]_pipelineVars
    PROVE  QueueStep \/ UNCHANGED queueVars
<1>1. ASSUME NEW w \in Workers, Poll(w) PROVE QueueStep
  BY <1>1 DEF Poll, QueueStep
<1>2. ASSUME NEW w \in Workers, Begin(w) \/ UseQdrant(w)
      PROVE  UNCHANGED queueVars
  BY <1>2 DEF Begin, UseQdrant, CallQdrant, MissQdrant, AtQdrant
<1>3. ASSUME NEW w \in Workers, Write(w) PROVE QueueStep
  BY <1>3, WriteActs DEF QueueStep
<1>4. ASSUME NEW w \in Workers, Break(w) PROVE QueueStep
  BY <1>4 DEF Break, Abort, QueueStep, Fault
<1>5. ASSUME NEW j \in Ids, Expire(j) \/ Outlive(j) PROVE QueueStep
  BY <1>5 DEF QueueStep
<1>6. CASE Ask
  BY <1>6, AskAsks DEF QueueStep
<1>7. CASE UNCHANGED pipelineVars
  BY <1>7 DEF pipelineVars
<1>8. QED
  BY <1>1, <1>2, <1>3, <1>4, <1>5, <1>6, <1>7 DEF PipelineNext, Work

(* The steps of the queue the pipeline takes are steps of JobQueue.        *)
LEMMA QueueStepIsNext == QueueStep => Next
BY DEF QueueStep, Acts, AsksFor, ProperBatches, Next, Handler, Api

(* Workers never change what a row is about, and proper batches keep the   *)
(* table fit.                                                              *)
LEMMA JobsStayFit ==
    ASSUME TypeOK, JobsFit, QueueStep \/ UNCHANGED queueVars
    PROVE  JobsFit'
<1> USE JobQueueAssumption DEF Ids
<1>0. /\ jobs \in Seq(Row) /\ DOMAIN jobs = 1..Len(jobs) /\ Len(jobs) \in Nat
      /\ \A j \in DOMAIN jobs : jobs[j] \in Row
  BY LenProperties, ElementOfSeq DEF TypeOK
<1>1. ASSUME DOMAIN jobs' = DOMAIN jobs,
             \A j \in DOMAIN jobs : jobs'[j].kind = jobs[j].kind
      PROVE  JobsFit'
  BY <1>1 DEF JobsFit
<1>2. ASSUME NEW dropped, NEW spared, NEW batch \in ProperBatches,
             jobs' = Transact(dropped, spared, batch)
      PROVE  JobsFit'
  <2>1. TransactEffect(dropped, spared, batch)
    BY <1>0, <1>2, TransactTable DEF ProperBatches
  <2>2. ASSUME NEW j \in DOMAIN jobs PROVE jobs'[j].kind \in PipelineKind
    <3>1. \/ jobs'[j] = jobs[j]
          \/ jobs'[j] = [jobs[j] EXCEPT !.status = "deleted"]
      BY <2>1 DEF TransactEffect
    <3>2. [jobs[j] EXCEPT !.status = "deleted"].kind = jobs[j].kind
      BY <1>0, RowWrites DEF Statuses
    <3>3. QED
      BY <3>1, <3>2 DEF JobsFit
  <2>3. ASSUME NEW j \in DOMAIN jobs' \ DOMAIN jobs
        PROVE  jobs'[j].kind \in PipelineKind
    <3>1. PICK i \in DOMAIN batch : j = Len(jobs) + i
      BY <2>1 DEF TransactEffect
    <3>2. jobs'[j] = NewRow(batch[i])
      BY <2>1, <3>1 DEF TransactEffect
    <3>3. NewRow(batch[i]).kind = batch[i]
      BY DEF NewRow
    <3>4. QED
      BY <3>2, <3>3 DEF ProperBatches
  <2>4. QED
    BY <2>2, <2>3 DEF JobsFit
<1>3. ASSUME NEW w \in Workers, Claim(w) PROVE JobsFit'
  BY <1>0, <1>1, <1>3, ClaimRows DEF Row
<1>4. ASSUME NEW w \in Workers, ClaimUnhandled(w) PROVE JobsFit'
  BY <1>0, <1>1, <1>4, ClaimUnhandledRows DEF Row, Failed
<1>5. ASSUME NEW w \in Workers, Succeed(w) PROVE JobsFit'
  BY <1>0, <1>1, <1>5, SucceedRows DEF Row
<1>6. ASSUME NEW w \in Workers, Fail(w) PROVE JobsFit'
  BY <1>0, <1>1, <1>6, FailRows DEF Row, Failed
<1>7. ASSUME NEW w \in Workers, RequeueStale(w) PROVE JobsFit'
  BY <1>0, <1>1, <1>7, RequeueRows DEF Row
<1>8. ASSUME NEW w \in Workers, Acts(w) PROVE JobsFit'
  BY <1>2, <1>8 DEF Acts, CommitWork
<1>9. CASE AsksFor
  BY <1>2, <1>9 DEF AsksFor, Request
<1>10. CASE UNCHANGED jobs
  BY <1>1, <1>10
<1>11. ASSUME NEW w \in Workers,
              \/ Start(w) \/ ScanStale(w) \/ RequeueRolledBack(w)
              \/ Pick(w) \/ ClaimLost(w) \/ RaiseError(w) \/ Fault(w)
       PROVE  UNCHANGED jobs
  BY <1>11 DEF Start, ScanStale, RequeueRolledBack, Pick, Release, ClaimLost,
               RaiseError, Fault, Crash, SucceedNotCommitted, FailNotCommitted
<1>12. ASSUME NEW w \in Workers, Loop(w) PROVE JobsFit'
  BY <1>3, <1>4, <1>5, <1>6, <1>7, <1>10, <1>11, <1>12 DEF Loop
<1>13. ASSUME NEW j \in Ids, Expire(j) \/ Outlive(j) PROVE UNCHANGED jobs
  BY <1>13 DEF Expire, Outlive
<1>14. CASE UNCHANGED queueVars
  BY <1>10, <1>14 DEF queueVars
<1>15. QED
  BY <1>8, <1>9, <1>10, <1>11, <1>12, <1>13, <1>14 DEF QueueStep

(* The two together are inductive.                                         *)
LEMMA QueuePart == PipelineSpec => [](TypeOK /\ JobsFit)
<1>1. PipelineInit => TypeOK /\ JobsFit
  <2> SUFFICES ASSUME PipelineInit PROVE TypeOK /\ JobsFit
    OBVIOUS
  <2>1. Init /\ TypeOK
    BY TypeInit, JobQueueAssumption DEF PipelineInit
  <2>2. Ids = {}
    BY <2>1 DEF Init, Ids
  <2>3. QED
    BY <2>1, <2>2 DEF JobsFit
<1>2. TypeOK /\ JobsFit /\ [PipelineNext]_pipelineVars => (TypeOK /\ JobsFit)'
  <2> SUFFICES ASSUME TypeOK, JobsFit, [PipelineNext]_pipelineVars
               PROVE  TypeOK' /\ JobsFit'
    OBVIOUS
  <2>1. QueueStep \/ UNCHANGED queueVars
    BY PipelineQueueStep
  <2>2. QED
    BY <2>1, QueueStepIsNext, TypeStep, JobsStayFit, JobQueueAssumption
<1>3. QED
  BY <1>1, <1>2, PTL DEF PipelineSpec

(* The pipeline is a client of the queue: whatever handlers and requests   *)
(* do to the table is what JobQueue allows them.                           *)
THEOREM PipelineRefinesQueue == PipelineSpec => Spec
<1>1. PipelineInit => Init
  BY DEF PipelineInit
<1>2. TypeOK /\ JobsFit /\ [PipelineNext]_pipelineVars => [Next]_queueVars
  BY PipelineQueueStep, QueueStepIsNext
<1>3. QED
  BY <1>1, <1>2, QueuePart, PTL DEF PipelineSpec, Spec

(* ImplementsWorkLease, of the whole pipeline: with the worker lock every  *)
(* transaction of a handler, every request, crash and recovery gives out,  *)
(* ends or loses leases as a work queue may.                               *)
THEOREM PipelineIsWorkLease ==
    ASSUME Exclusive
    PROVE  PipelineSpec => ImplementsWorkLease
BY PipelineRefinesQueue, QueueIsWorkLease, PTL

(* So the guarantees of the queue are guarantees of the pipeline's jobs.   *)
THEOREM PipelineKeepsQueuePromises ==
    PipelineSpec => /\ [](SuccessNeedsWork /\ SharedOnlyIfRequeued)
                    /\ [](OneExecutor /\ RetryBudget)
                    /\ OutcomeIsFinal
<1>1. QED
  BY PipelineRefinesQueue, SuccessIsEarned, ClaimExcludes, LockExcludes,
     BudgetIsKept, OutcomesAreFinal, PTL

-----------------------------------------------------------------------------
(***************************************************************************)
(* Types.  What a handler read at its start is no younger than what is     *)
(* there now: batch numbers only grow.                                     *)
(***************************************************************************)
SeenIsOld ==
    \A w \in Workers : seen[w].step # "unread" =>
        \A d \in Docs : MadeBy(doc[d].made, seen[w].doc[d].rows)

SeenType == {[step |-> "unread"]} \cup SeenRow

DataOK ==
    /\ doc \in [Docs -> DocRow]
    /\ \A d \in Docs : MadeBy(doc[d].made, doc[d].rows)
    /\ payload \in [1..MaxJobs -> SUBSET Nat]
    /\ seen \in [Workers -> SeenType]
    /\ errors \in 0..MaxErrors
    /\ requests \in 0..MaxRequests
    /\ SeenIsOld

(* A document may become `row` when it was `old`.                          *)
Fine(row, old) ==
    row \in DocRow /\ MadeBy(row.made, row.rows) /\ old.made <= row.made

(* New batches, and rows whose embedding is marked, are artifacts.         *)
LEMMA NewIsArtifact ==
    ASSUME NEW layer \in Layers, NEW id \in Nat, NEW of \in SUBSET Nat
    PROVE  /\ New(layer, id, of) \in Artifact
           /\ New(layer, id, of).id = id /\ New(layer, id, of).of = of
BY DEF New, Artifact

(* Marking rows as embedded changes nothing else of them.                 *)
LEMMA MarkedAreArtifacts ==
    ASSUME NEW n \in Nat, NEW rows \in SUBSET Artifact, MadeBy(n, rows), NEW which
    PROVE  /\ MarkEmbedded(rows, which) \in SUBSET Artifact
           /\ MadeBy(n, MarkEmbedded(rows, which))
<1>1. ASSUME NEW q \in MarkEmbedded(rows, which)
      PROVE  q \in Artifact /\ q.id <= n /\ q.of \subseteq 0..n
  <2>1. PICK r \in rows : q = r \/ q = [r EXCEPT !.embedded = TRUE]
    BY DEF MarkEmbedded
  <2>2. r \in Artifact /\ r.id <= n /\ r.of \subseteq 0..n
    BY DEF MadeBy
  <2>3. /\ [r EXCEPT !.embedded = TRUE] \in Artifact
        /\ [r EXCEPT !.embedded = TRUE].id = r.id
        /\ [r EXCEPT !.embedded = TRUE].of = r.of
    BY <2>2 DEF Artifact
  <2>4. QED
    BY <2>1, <2>2, <2>3
<1>2. QED
  BY <1>1 DEF MadeBy

(* The ids of a layer are numbers of batches made.                         *)
LEMMA IdsAreMade ==
    ASSUME NEW s \in DocRow, NEW n \in Nat, MadeBy(n, s.rows), NEW layer
    PROVE  IdsOf(s, layer) \subseteq 0..n
BY DEF IdsOf, Layer, DocRow, Artifact, MadeBy

(* Writing the status, or the rows, of a document.                         *)
LEMMA Rewritten ==
    ASSUME DataOK, NEW d \in Docs,
           NEW status \in DocStatuses, NEW rows \in SUBSET Artifact,
           NEW made \in Nat, doc[d].made <= made, MadeBy(made, rows)
    PROVE  /\ Fine(doc[d], doc[d])
           /\ Fine([doc[d] EXCEPT !.status = status], doc[d])
           /\ MadeBy(doc[d].made, rows) =>
                /\ Fine([doc[d] EXCEPT !.rows = rows], doc[d])
                /\ Fine([doc[d] EXCEPT !.status = status, !.rows = rows], doc[d])
           /\ Fine([doc[d] EXCEPT !.made = made, !.rows = rows], doc[d])
           /\ Fine([doc[d] EXCEPT !.status = status, !.made = made, !.rows = rows],
                   doc[d])
<1>1. doc[d] \in DocRow /\ MadeBy(doc[d].made, doc[d].rows)
  BY DEF DataOK
<1>2. doc[d].made \in Nat /\ doc[d].made <= doc[d].made
  BY <1>1 DEF DocRow
<1>3. QED
  BY <1>1, <1>2 DEF Fine, DocRow

(* A step that keeps each variable in its type and each document fine.     *)
LEMMA DataKept ==
    ASSUME DataOK,
           doc' \in [Docs -> DocRow], \A d \in Docs : Fine(doc'[d], doc[d]),
           payload' \in [1..MaxJobs -> SUBSET Nat],
           seen' \in [Workers -> SeenType],
           \A w \in Workers : seen'[w].step # "unread" =>
              \/ seen'[w].doc = doc
              \/ seen[w].step # "unread" /\ seen'[w].doc = seen[w].doc,
           errors' \in 0..MaxErrors, requests' \in 0..MaxRequests
    PROVE  DataOK'
<1>1. ASSUME NEW w \in Workers, seen'[w].step # "unread", NEW d \in Docs
      PROVE  MadeBy(doc'[d].made, seen'[w].doc[d].rows)
  <2>1. MadeBy(doc[d].made, seen'[w].doc[d].rows)
    BY <1>1 DEF DataOK, SeenIsOld
  <2>2. doc[d].made \in Nat /\ doc'[d].made \in Nat /\ doc[d].made <= doc'[d].made
    BY DEF DataOK, Fine, DocRow
  <2>3. seen'[w] \in SeenRow
    BY <1>1 DEF SeenType
  <2>4. \A r \in seen'[w].doc[d].rows : r.id \in Nat
    BY <2>3 DEF SeenRow, DocRow, Artifact
  <2>5. QED
    BY <2>1, <2>2, <2>4 DEF MadeBy
<1>2. QED
  BY <1>1 DEF DataOK, Fine, SeenIsOld

(* The same for a handler that commits or fails: only its own document.    *)
LEMMA DataKeptByWorker ==
    ASSUME DataOK, NEW w \in Workers, Forget(w),
           NEW d \in Docs, NEW row, Fine(row, doc[d]), doc' = [doc EXCEPT ![d] = row],
           payload' \in [1..MaxJobs -> SUBSET Nat],
           errors' \in 0..MaxErrors, UNCHANGED requests
    PROVE  DataOK'
<1>1. doc' \in [Docs -> DocRow] /\ doc'[d] = row
  BY DEF DataOK, Fine
<1>2. ASSUME NEW e \in Docs PROVE Fine(doc'[e], doc[e])
  <2>1. CASE e = d
    BY <1>1, <2>1
  <2>2. CASE e # d
    BY <2>2 DEF DataOK, Fine, DocRow
  <2>3. QED
    BY <2>1, <2>2
<1>3. /\ seen' \in [Workers -> SeenType]
      /\ \A v \in Workers : seen'[v] = seen[v] \/ seen'[v] = [step |-> "unread"]
  BY DEF DataOK, Forget, SeenType
<1>4. \A v \in Workers : seen'[v].step # "unread" => seen'[v] = seen[v]
  BY <1>3
<1>5. requests' \in 0..MaxRequests
  BY DEF DataOK
<1>6. QED
  BY <1>1, <1>2, <1>3, <1>4, <1>5, DataKept

(* What a handler past its start has read.                                 *)
LEMMA ReadIsTyped ==
    ASSUME DataOK, NEW w \in Workers, seen[w].step # "unread"
    PROVE  /\ seen[w] \in SeenRow
           /\ \A d \in Docs : /\ seen[w].doc[d] \in DocRow
                              /\ MadeBy(doc[d].made, seen[w].doc[d].rows)
<1>1. seen[w] \in SeenRow
  BY DEF DataOK, SeenType
<1>2. QED
  BY <1>1 DEF DataOK, SeenIsOld, SeenRow

(* What survives a cleanup, with the new nodes.                            *)
LEMMA ReparsedIsFine ==
    ASSUME DataOK, NEW d \in Docs, NEW s, NEW status \in DocStatuses,
           NEW nodes, nodes \in {{}, {New("node", 0, {})}}
    PROVE  Fine(Reparsed(d, s, status, nodes), doc[d])
<1> DEFINE rows == Survivors(d, s) \cup nodes
<1>1. doc[d] \in DocRow /\ MadeBy(doc[d].made, doc[d].rows)
  BY DEF DataOK
<1>2. Survivors(d, s) \subseteq doc[d].rows
  BY DEF Survivors
<1>3. /\ New("node", 0, {}) \in Artifact
      /\ New("node", 0, {}).id = 0 /\ New("node", 0, {}).of = {}
  BY NewIsArtifact DEF Layers
<1>4. doc[d].rows \in SUBSET Artifact /\ doc[d].made \in Nat
  BY <1>1 DEF DocRow
<1>5. rows \in SUBSET Artifact
  BY <1>2, <1>3, <1>4
<1>6. MadeBy(doc[d].made, rows)
  BY <1>1, <1>2, <1>3, <1>4 DEF MadeBy
<1>7. Reparsed(d, s, status, nodes) = [doc[d] EXCEPT !.status = status, !.rows = rows]
  BY DEF Reparsed
<1>8. QED
  <2> HIDE DEF rows
  <2>1. doc[d].made <= doc[d].made
    BY <1>4
  <2>2. Fine([doc[d] EXCEPT !.status = status, !.rows = rows], doc[d])
    BY <1>4, <1>5, <1>6, <2>1, Rewritten
  <2>3. QED
    BY <1>7, <2>2

(* New rows beside the old ones.                                           *)
LEMMA AddedIsFine ==
    ASSUME DataOK, NEW d \in Docs, NEW made \in Nat, doc[d].made <= made,
           NEW new \in SUBSET Artifact, MadeBy(made, new)
    PROVE  /\ doc[d].rows \cup new \in SUBSET Artifact
           /\ MadeBy(made, doc[d].rows \cup new)
<1>1. doc[d] \in DocRow /\ MadeBy(doc[d].made, doc[d].rows)
  BY DEF DataOK
<1>2. \A r \in doc[d].rows : r.id \in Nat /\ doc[d].made \in Nat
  BY <1>1 DEF DocRow, Artifact
<1>3. \A r \in doc[d].rows : r.id <= made /\ r.of \subseteq 0..made
  BY <1>1, <1>2 DEF MadeBy
<1>4. QED
  BY <1>1, <1>3 DEF MadeBy, DocRow

(* upsert_scopes keeps or adds artifacts of known batches.                 *)
LEMMA SummarizedIsFine ==
    ASSUME DataOK, NEW d \in Docs, NEW s \in DocRow, MadeBy(doc[d].made, s.rows)
    PROVE  /\ Summarized(d, s) \in SUBSET Artifact
           /\ MadeBy(doc[d].made, Summarized(d, s))
<1> DEFINE wanted == {New("section", c, {c}) : c \in IdsOf(s, "chunk")}
                     \cup {New("document", 0, IdsOf(s, "chunk"))}
           kept == {r \in doc[d].rows : \A q \in wanted : SameRow(q, r) => q.of = r.of}
<1>1. doc[d] \in DocRow /\ MadeBy(doc[d].made, doc[d].rows) /\ doc[d].made \in Nat
  BY DEF DataOK, DocRow
<1>2. IdsOf(s, "chunk") \subseteq 0..doc[d].made
  BY <1>1, IdsAreMade
<1>3. ASSUME NEW c \in IdsOf(s, "chunk")
      PROVE  /\ New("section", c, {c}) \in Artifact
             /\ New("section", c, {c}).id <= doc[d].made
             /\ New("section", c, {c}).of \subseteq 0..doc[d].made
  BY <1>1, <1>2, NewIsArtifact DEF Layers
<1>4. /\ New("document", 0, IdsOf(s, "chunk")) \in Artifact
      /\ New("document", 0, IdsOf(s, "chunk")).id <= doc[d].made
      /\ New("document", 0, IdsOf(s, "chunk")).of \subseteq 0..doc[d].made
  BY <1>1, <1>2, NewIsArtifact DEF Layers
<1>5. wanted \in SUBSET Artifact /\ MadeBy(doc[d].made, wanted)
  BY <1>3, <1>4 DEF MadeBy
<1>6. Summarized(d, s) \subseteq doc[d].rows \cup wanted
  <2>1. Summarized(d, s) = kept \cup {q \in wanted : \A r \in kept : ~SameRow(q, r)}
    BY DEF Summarized
  <2>2. QED
    BY <2>1
<1>7. doc[d].rows \in SUBSET Artifact
  BY <1>1 DEF DocRow
<1>8. QED
  <2> HIDE DEF wanted
  <2> QED
    BY <1>1, <1>5, <1>6, <1>7 DEF MadeBy

(* Handlers keep the types: one case per handler.                          *)
LEMMA WriteKeepsData ==
    ASSUME TypeOK, JobsFit, DataOK, NEW w \in Workers, Write(w)
    PROVE  DataOK'
<1> DEFINE d == Target(w)
           s == Mine(w)
<1>1. pc[w] = "execute" /\ seen[w].step # "unread"
  BY DEF Write, Parse, ParseRefused, Normalize, Segment, Embed, Extract,
         EmbedPropositions, GenerateSummaries, EmbedSummaries, BuildGraph,
         IndexVisualPages, CheckReadiness, Rebuild, Skip, Refuse, Turn
<1>2. ASSUME Type(w) # "rebuild"
      PROVE  /\ d \in Docs
             /\ s \in DocRow /\ MadeBy(doc[d].made, s.rows)
             /\ doc[d] \in DocRow /\ MadeBy(doc[d].made, doc[d].rows)
             /\ doc[d].made \in Nat /\ doc[d].made + 1 \in Nat
             /\ doc[d].made <= doc[d].made /\ doc[d].made <= doc[d].made + 1
             /\ doc[d].rows \in SUBSET Artifact
  <2>1. d \in Docs
    BY <1>1, <1>2, HeldJob
  <2>2. s \in DocRow /\ MadeBy(doc[d].made, s.rows)
    BY <1>1, <2>1, ReadIsTyped DEF Mine
  <2>3. doc[d] \in DocRow /\ MadeBy(doc[d].made, doc[d].rows)
    BY <2>1 DEF DataOK
  <2>4. QED
    BY <2>1, <2>2, <2>3 DEF DocRow
<1>3. payload \in [1..MaxJobs -> SUBSET Nat] /\ errors \in 0..MaxErrors
  BY DEF DataOK
<1>4. ASSUME Type(w) # "rebuild", NEW row, Fine(row, doc[d]), NEW batch,
             Commit(w, d, row, batch), payload' \in [1..MaxJobs -> SUBSET Nat]
      PROVE  DataOK'
  <2>1. /\ Forget(w) /\ doc' = [doc EXCEPT ![d] = row]
        /\ UNCHANGED <<errors, requests>>
    BY <1>4 DEF Commit
  <2>2. errors' \in 0..MaxErrors
    BY <1>3, <2>1
  <2>3. d \in Docs
    BY <1>2, <1>4
  <2> HIDE DEF d
  <2>4. QED
    BY <1>4, <2>1, <2>2, <2>3, DataKeptByWorker
<1>5. CASE Parse(w)
  <2>1. Type(w) # "rebuild"
    BY <1>5 DEF Parse, Turn
  <2>2. Fine(Reparsed(d, s, "parsed", {New("node", 0, {})}), doc[d])
    BY <1>2, <2>1, ReparsedIsFine DEF DocStatuses
  <2>3. QED
    BY <1>3, <1>4, <1>5, <2>1, <2>2 DEF Parse
<1>6. CASE ParseRefused(w)
  <2>1. Type(w) # "rebuild"
    BY <1>6 DEF ParseRefused, Turn
  <2>2. Fine(Reparsed(d, s, "failed", {New("node", 0, {})}), doc[d])
    BY <1>2, <2>1, ReparsedIsFine DEF DocStatuses
  <2>3. /\ doc' = [doc EXCEPT ![d] = Reparsed(d, s, "failed", {New("node", 0, {})})]
        /\ Forget(w) /\ UNCHANGED <<payload, errors, requests>>
    BY <1>6 DEF ParseRefused
  <2> HIDE DEF d, s
  <2>4. QED
    BY <1>2, <1>3, <2>1, <2>2, <2>3, DataKeptByWorker
<1>7. CASE Normalize(w)
  <2>1. Type(w) # "rebuild"
    BY <1>7 DEF Normalize, Turn
  <2>2. Fine([doc[d] EXCEPT !.status = "normalized"], doc[d])
    BY <1>2, <2>1, Rewritten DEF DocStatuses
  <2>3. QED
    BY <1>3, <1>4, <1>7, <2>1, <2>2 DEF Normalize
<1>8. CASE Segment(w)
  <2> DEFINE id == doc[d].made + 1
             chunks == IF HasText(d, s) THEN {New("chunk", id, {})} ELSE {}
             rows == doc[d].rows \cup chunks
             row == [doc[d] EXCEPT !.status = "segmented", !.made = id, !.rows = rows]
  <2>1. Type(w) # "rebuild"
    BY <1>8 DEF Segment, Turn
  <2>2. /\ New("chunk", id, {}) \in Artifact
        /\ New("chunk", id, {}).id = id /\ New("chunk", id, {}).of = {}
    BY <1>2, <2>1, NewIsArtifact DEF Layers
  <2>3. chunks \in SUBSET Artifact /\ MadeBy(id, chunks)
    BY <1>2, <2>1, <2>2 DEF MadeBy
  <2>4. rows \in SUBSET Artifact /\ MadeBy(id, rows)
    <3> HIDE DEF chunks
    <3> QED
      BY <1>2, <2>1, <2>3, AddedIsFine
  <2>5. Fine(row, doc[d])
    <3> HIDE DEF rows
    <3> QED
      BY <1>2, <2>1, <2>4, Rewritten DEF DocStatuses
  <2>6. Commit(w, d, row, <<Job("embed", d)>>) /\ UNCHANGED payload
    BY <1>8 DEF Segment
  <2>7. QED
    <3> HIDE DEF row
    <3> QED
      BY <1>3, <1>4, <2>1, <2>5, <2>6
<1>9. CASE Embed(w)
  <2> DEFINE rows == MarkEmbedded(doc[d].rows, Unembedded(s))
  <2>1. Type(w) # "rebuild"
    BY <1>9 DEF Embed, Turn
  <2>2. rows \in SUBSET Artifact /\ MadeBy(doc[d].made, rows)
    BY <1>2, <2>1, MarkedAreArtifacts
  <2>3. Fine([doc[d] EXCEPT !.status = "indexed", !.rows = rows], doc[d])
    <3> HIDE DEF rows
    <3> QED
      BY <1>2, <2>1, <2>2, Rewritten DEF DocStatuses
  <2>4. QED
    BY <1>3, <1>4, <1>9, <2>1, <2>3 DEF Embed
<1>10. CASE Extract(w)
  <2> DEFINE id == doc[d].made + 1
             new == {New("proposition", id, IdsOf(s, "chunk"))}
             rows == doc[d].rows \cup new
             fresh == [doc[d] EXCEPT !.made = id, !.rows = rows]
             row == IF Layer(s, "proposition") = {} THEN fresh ELSE doc[d]
             batch == Ensure("embed_propositions", d) \o Ensure("summarize", d)
                         \o Ensure("graph", d)
  <2>1. Type(w) # "rebuild"
    BY <1>10 DEF Extract, Turn
  <2>2. IdsOf(s, "chunk") \subseteq 0..doc[d].made
    BY <1>2, <2>1, IdsAreMade
  <2>3. /\ New("proposition", id, IdsOf(s, "chunk")) \in Artifact
        /\ New("proposition", id, IdsOf(s, "chunk")).id = id
        /\ New("proposition", id, IdsOf(s, "chunk")).of = IdsOf(s, "chunk")
    BY <1>2, <2>1, <2>2, NewIsArtifact DEF Layers
  <2>4. new \in SUBSET Artifact /\ MadeBy(id, new)
    BY <1>2, <2>1, <2>2, <2>3 DEF MadeBy
  <2>5. rows \in SUBSET Artifact /\ MadeBy(id, rows)
    <3> HIDE DEF new
    <3> QED
      BY <1>2, <2>1, <2>4, AddedIsFine
  <2>6. Fine(fresh, doc[d]) /\ Fine(doc[d], doc[d])
    <3> HIDE DEF rows
    <3> QED
      BY <1>2, <2>1, <2>5, Rewritten DEF DocStatuses
  <2>7. Fine(row, doc[d])
    <3> HIDE DEF fresh
    <3> QED
      BY <2>6
  <2>8. Commit(w, d, row, batch) /\ UNCHANGED payload
    BY <1>10 DEF Extract
  <2>9. QED
    <3> HIDE DEF row, batch
    <3> QED
      BY <1>3, <1>4, <2>1, <2>7, <2>8
<1>11. CASE EmbedPropositions(w)
  <2> DEFINE rows == MarkEmbedded(doc[d].rows, Layer(s, "proposition"))
  <2>1. Type(w) # "rebuild"
    BY <1>11 DEF EmbedPropositions, Turn
  <2>2. rows \in SUBSET Artifact /\ MadeBy(doc[d].made, rows)
    BY <1>2, <2>1, MarkedAreArtifacts
  <2>3. Fine([doc[d] EXCEPT !.rows = rows], doc[d])
    <3> HIDE DEF rows
    <3> QED
      BY <1>2, <2>1, <2>2, Rewritten DEF DocStatuses
  <2>4. QED
    BY <1>3, <1>4, <1>11, <2>1, <2>3 DEF EmbedPropositions
<1>12. CASE GenerateSummaries(w)
  <2>1. Type(w) # "rebuild"
    BY <1>12 DEF GenerateSummaries, Turn
  <2>2. /\ Summarized(d, s) \in SUBSET Artifact
        /\ MadeBy(doc[d].made, Summarized(d, s))
    BY <1>2, <2>1, SummarizedIsFine
  <2>3. Fine([doc[d] EXCEPT !.rows = Summarized(d, s)], doc[d])
    BY <1>2, <2>1, <2>2, Rewritten DEF DocStatuses
  <2>4. IdsOf(s, "chunk") \subseteq 0..doc[d].made
    BY <1>2, <2>1, IdsAreMade
  <2>5. IdsOf(s, "chunk") \in SUBSET Nat
    BY <1>2, <2>1, <2>4
  <2>6. /\ Commit(w, d, [doc[d] EXCEPT !.rows = Summarized(d, s)],
                  Ensure("embed_summaries", d))
        /\ \/ payload' = payload
           \/ payload' = [payload EXCEPT ![Len(jobs) + 1] = IdsOf(s, "chunk")]
    BY <1>12 DEF GenerateSummaries
  <2>7. payload' \in [1..MaxJobs -> SUBSET Nat]
    BY <1>3, <2>5, <2>6
  <2>8. QED
    BY <1>4, <2>1, <2>3, <2>6, <2>7
<1>13. CASE EmbedSummaries(w)
  <2> DEFINE chosen == {r \in Layer(s, "section") : r.id \in payload[cur[w]]}
                       \cup Layer(s, "document")
             rows == MarkEmbedded(doc[d].rows, chosen)
  <2>1. Type(w) # "rebuild"
    BY <1>13 DEF EmbedSummaries, Turn
  <2>2. rows \in SUBSET Artifact /\ MadeBy(doc[d].made, rows)
    BY <1>2, <2>1, MarkedAreArtifacts
  <2>3. Fine([doc[d] EXCEPT !.rows = rows], doc[d])
    <3> HIDE DEF rows
    <3> QED
      BY <1>2, <2>1, <2>2, Rewritten DEF DocStatuses
  <2>4. QED
    BY <1>3, <1>4, <1>13, <2>1, <2>3 DEF EmbedSummaries
<1>14. CASE BuildGraph(w)
  <2> DEFINE edges == {New("edge", p, {p}) : p \in IdsOf(s, "proposition")}
             rows == doc[d].rows \cup edges
  <2>1. Type(w) # "rebuild"
    BY <1>14 DEF BuildGraph, Turn
  <2>2. IdsOf(s, "proposition") \subseteq 0..doc[d].made
    BY <1>2, <2>1, IdsAreMade
  <2>3. ASSUME NEW p \in IdsOf(s, "proposition")
        PROVE  /\ New("edge", p, {p}) \in Artifact
               /\ New("edge", p, {p}).id <= doc[d].made
               /\ New("edge", p, {p}).of \subseteq 0..doc[d].made
    BY <1>2, <2>1, <2>2, NewIsArtifact DEF Layers
  <2>4. edges \in SUBSET Artifact /\ MadeBy(doc[d].made, edges)
    BY <2>3 DEF MadeBy
  <2>5. rows \in SUBSET Artifact /\ MadeBy(doc[d].made, rows)
    <3> HIDE DEF edges
    <3> QED
      BY <1>2, <2>1, <2>4, AddedIsFine
  <2>6. Fine([doc[d] EXCEPT !.rows = rows], doc[d])
    <3> HIDE DEF rows
    <3> QED
      BY <1>2, <2>1, <2>5, Rewritten DEF DocStatuses
  <2>7. QED
    BY <1>3, <1>4, <1>14, <2>1, <2>6 DEF BuildGraph
<1>15. CASE IndexVisualPages(w)
  <2> DEFINE pages == IF Layer(s, "node") = {} THEN {} ELSE {New("page", 0, {})}
             rows == doc[d].rows \cup pages
  <2>1. Type(w) # "rebuild"
    BY <1>15 DEF IndexVisualPages, Turn
  <2>2. /\ New("page", 0, {}) \in Artifact
        /\ New("page", 0, {}).id = 0 /\ New("page", 0, {}).of = {}
    BY NewIsArtifact DEF Layers
  <2>3. pages \in SUBSET Artifact /\ MadeBy(doc[d].made, pages)
    BY <1>2, <2>1, <2>2 DEF MadeBy
  <2>4. rows \in SUBSET Artifact /\ MadeBy(doc[d].made, rows)
    <3> HIDE DEF pages
    <3> QED
      BY <1>2, <2>1, <2>3, AddedIsFine
  <2>5. Fine([doc[d] EXCEPT !.rows = rows], doc[d])
    <3> HIDE DEF rows
    <3> QED
      BY <1>2, <2>1, <2>4, Rewritten DEF DocStatuses
  <2>6. QED
    BY <1>3, <1>4, <1>15, <2>1, <2>5 DEF IndexVisualPages
<1>16. CASE CheckReadiness(w)
  <2> DEFINE status == Barrier(d, s, seen[w].ready)
  <2>1. Type(w) # "rebuild"
    BY <1>16 DEF CheckReadiness, Turn
  <2>2. status \in DocStatuses
    BY <1>2, <2>1 DEF Barrier, DocStatuses, DocRow
  <2>3. Fine([doc[d] EXCEPT !.status = status], doc[d])
    <3> HIDE DEF status
    <3> QED
      BY <1>2, <2>1, <2>2, Rewritten
  <2>4. QED
    BY <1>3, <1>4, <1>16, <2>1, <2>3 DEF CheckReadiness
<1>17. CASE Rebuild(w)
  <2>1. \A e \in Docs : Fine(Restarted(w)[e], doc[e])
    <3>1. ASSUME NEW e \in Docs
          PROVE  Fine(Reparsed(e, seen[w].doc[e], "registered", {}), doc[e])
      BY ReparsedIsFine DEF DocStatuses
    <3>2. ASSUME NEW e \in Docs PROVE Fine(doc[e], doc[e])
      BY DEF DataOK, Fine, DocRow
    <3>3. QED
      BY <3>1, <3>2 DEF Restarted
  <2>2. Restarted(w) \in [Docs -> DocRow]
    <3>1. \A e \in Docs : Restarted(w)[e] \in DocRow
      BY <2>1 DEF Fine
    <3>2. Restarted(w) = [e \in Docs |-> Restarted(w)[e]]
      BY DEF Restarted
    <3>3. QED
      BY <3>1, <3>2
  <2>3. /\ doc' = Restarted(w) /\ Forget(w)
        /\ UNCHANGED <<payload, errors, requests>>
    BY <1>17 DEF Rebuild
  <2>4. /\ seen' \in [Workers -> SeenType]
        /\ \A v \in Workers : seen'[v].step # "unread" => seen'[v] = seen[v]
    BY <2>3 DEF DataOK, Forget, SeenType
  <2>5. requests' \in 0..MaxRequests
    BY <2>3 DEF DataOK
  <2>6. QED
    BY <1>3, <2>1, <2>2, <2>3, <2>4, <2>5, DataKept
<1>18. CASE Skip(w)
  <2>1. Type(w) # "rebuild"
    BY <1>18 DEF Skip, NothingToDo
  <2>2. Fine(doc[d], doc[d])
    BY <1>2, <2>1 DEF Fine
  <2>3. QED
    BY <1>3, <1>4, <1>18, <2>1, <2>2 DEF Skip
<1>19. CASE Refuse(w)
  <2>1. /\ doc' = doc /\ Forget(w)
        /\ UNCHANGED <<payload, errors, requests>>
    BY <1>19 DEF Refuse
  <2>2. \A e \in Docs : Fine(doc[e], doc[e])
    BY DEF DataOK, Fine, DocRow
  <2>3. /\ seen' \in [Workers -> SeenType]
        /\ \A v \in Workers : seen'[v].step # "unread" => seen'[v] = seen[v]
    BY <2>1 DEF DataOK, Forget, SeenType
  <2>4. doc' \in [Docs -> DocRow] /\ requests' \in 0..MaxRequests
    BY <2>1 DEF DataOK
  <2>5. QED
    BY <1>3, <2>1, <2>2, <2>3, <2>4, DataKept
<1>20. QED
  BY <1>5, <1>6, <1>7, <1>8, <1>9, <1>10, <1>11, <1>12, <1>13, <1>14, <1>15,
     <1>16, <1>17, <1>18, <1>19 DEF Write

(* A step that leaves the documents' data alone.                           *)
LEMMA QuietData ==
    ASSUME DataOK, UNCHANGED <<doc, payload>>,
           seen' \in [Workers -> SeenType],
           \A w \in Workers : seen'[w].step # "unread" =>
              \/ seen'[w].doc = doc
              \/ seen[w].step # "unread" /\ seen'[w].doc = seen[w].doc,
           errors' \in 0..MaxErrors, requests' \in 0..MaxRequests
    PROVE  DataOK'
<1>1. \A d \in Docs : Fine(doc'[d], doc[d])
  BY DEF DataOK, Fine, DocRow
<1>2. doc' \in [Docs -> DocRow] /\ payload' \in [1..MaxJobs -> SUBSET Nat]
  BY DEF DataOK
<1>3. QED
  BY <1>1, <1>2, DataKept

(* A call to Qdrant, answered or swallowed, leaves all of a document alone *)
(* but its points and the history of what was missed.                      *)
CallOnly(w) ==
    /\ pc[w] = "execute" /\ seen[w].step = "read" /\ NeedsQdrant(w)
    /\ seen' = [seen EXCEPT ![w].step = "called"]
    /\ UNCHANGED <<queueVars, payload, requests>>
    /\ \A d \in Docs : /\ doc'[d].status = doc[d].status
                       /\ doc'[d].rows = doc[d].rows
                       /\ doc'[d].made = doc[d].made

LEMMA CallTouchesPoints ==
    ASSUME doc \in [Docs -> DocRow], NEW w \in Workers, UseQdrant(w)
    PROVE  CallOnly(w)
<1>1. AtQdrant(w)
  BY DEF UseQdrant, CallQdrant, MissQdrant
<1>2. ASSUME NEW d \in Docs
      PROVE  /\ doc'[d].status = doc[d].status /\ doc'[d].rows = doc[d].rows
             /\ doc'[d].made = doc[d].made
  <2>1. doc[d] \in DocRow
    OBVIOUS
  <2>2. CASE CallQdrant(w)
    <3>1. doc'[d] = [doc[d] EXCEPT !.points = PointsAfterCall(w, d),
                                   !.missed = @ \ Upserted(w, d)]
      BY <2>2 DEF CallQdrant
    <3>2. QED
      BY <2>1, <3>1 DEF DocRow
  <2>3. CASE MissQdrant(w)
    <3>1. doc'[d] = [doc[d] EXCEPT !.missed = @ \cup Upserted(w, d)]
      BY <2>3 DEF MissQdrant
    <3>2. QED
      BY <2>1, <3>1 DEF DocRow
  <2>4. QED
    BY <2>2, <2>3 DEF UseQdrant
<1>3. QED
  BY <1>1, <1>2 DEF CallOnly, AtQdrant

(* It writes ids of batches only.                                          *)
LEMMA CallIsTyped ==
    ASSUME TypeOK, JobsFit, DataOK, NEW w \in Workers, UseQdrant(w)
    PROVE  /\ doc' \in [Docs -> DocRow]
           /\ errors' \in 0..MaxErrors
<1>1. doc \in [Docs -> DocRow] /\ errors \in 0..MaxErrors
  BY DEF DataOK
<1>2. pc[w] = "execute" /\ seen[w].step = "read" /\ NeedsQdrant(w)
  BY DEF UseQdrant, CallQdrant, MissQdrant, AtQdrant
<1>3. ASSUME NEW d \in Docs PROVE Upserted(w, d) \in SUBSET Nat
  <2>1. CASE Type(w) = "embed" /\ d = Target(w)
    <3>1. Mine(w) \in DocRow
      BY <1>2, <2>1, ReadIsTyped DEF Mine
    <3>2. {r.id : r \in Unembedded(Mine(w))} \in SUBSET Nat
      BY <3>1 DEF Unembedded, Layer, DocRow, Artifact
    <3>3. QED
      BY <2>1, <3>2 DEF Upserted
  <2>2. CASE ~(Type(w) = "embed" /\ d = Target(w))
    BY <2>2 DEF Upserted
  <2>3. QED
    BY <2>1, <2>2
<1>4. ASSUME NEW d \in Docs PROVE PointsAfterCall(w, d) \in SUBSET Nat
  <2>1. doc[d].points \in SUBSET Nat
    BY <1>1 DEF DocRow
  <2>2. CASE Type(w) = "rebuild"
    BY <2>2 DEF PointsAfterCall
  <2>3. CASE Type(w) # "rebuild" /\ d # Target(w)
    BY <2>1, <2>3 DEF PointsAfterCall
  <2>4. CASE Type(w) = "parse" /\ d = Target(w)
    BY <2>4 DEF PointsAfterCall
  <2>5. CASE Type(w) = "embed" /\ d = Target(w)
    <3>1. PointsAfterCall(w, d) = doc[d].points \cup Upserted(w, d)
      BY <2>5 DEF PointsAfterCall
    <3>2. QED
      BY <1>3, <2>1, <3>1
  <2>6. QED
    BY <1>2, <2>2, <2>3, <2>4, <2>5 DEF NeedsQdrant
<1>5. CASE CallQdrant(w)
  <2>1. doc' = [d \in Docs |-> [doc[d] EXCEPT !.points = PointsAfterCall(w, d),
                                             !.missed = @ \ Upserted(w, d)]]
        /\ errors' = errors
    BY <1>5 DEF CallQdrant
  <2>2. ASSUME NEW d \in Docs
        PROVE  [doc[d] EXCEPT !.points = PointsAfterCall(w, d),
                              !.missed = @ \ Upserted(w, d)] \in DocRow
    BY <1>1, <1>4 DEF DocRow
  <2>3. QED
    BY <1>1, <2>1, <2>2
<1>6. CASE MissQdrant(w)
  <2>1. /\ doc' = [d \in Docs |-> [doc[d] EXCEPT !.missed = @ \cup Upserted(w, d)]]
        /\ errors < MaxErrors /\ errors' = errors + 1
    BY <1>6 DEF MissQdrant
  <2>2. ASSUME NEW d \in Docs
        PROVE  [doc[d] EXCEPT !.missed = @ \cup Upserted(w, d)] \in DocRow
    BY <1>1, <1>3 DEF DocRow
  <2>3. errors' \in 0..MaxErrors
    BY <1>1, <2>1, PipelineAssumption
  <2>4. QED
    BY <2>1, <2>2, <2>3
<1>7. QED
  BY <1>5, <1>6 DEF UseQdrant

(* So do beginnings, calls to Qdrant and failures,                         *)
LEMMA WorkKeepsData ==
    ASSUME TypeOK, JobsFit, DataOK, NEW w \in Workers,
           Begin(w) \/ UseQdrant(w) \/ Break(w)
    PROVE  DataOK'
<1>1. /\ payload \in [1..MaxJobs -> SUBSET Nat] /\ seen \in [Workers -> SeenType]
      /\ errors \in 0..MaxErrors /\ requests \in 0..MaxRequests
      /\ doc \in [Docs -> DocRow]
  BY DEF DataOK
<1>2. CASE Begin(w)
  <2> DEFINE read == [step  |-> "read",
                      doc   |-> doc,
                      ready |-> Type(w) = "check" /\ IsReady(Target(w)),
                      busy  |-> Type(w) = "rebuild"
                                /\ \E j \in Ids : Has(j, "running") /\ j # cur[w]]
  <2>1. read \in SeenRow /\ read.doc = doc
    BY <1>1 DEF SeenRow
  <2>2. /\ seen' = [seen EXCEPT ![w] = read]
        /\ UNCHANGED <<doc, payload, errors, requests>>
    BY <1>2 DEF Begin
  <2> HIDE DEF read
  <2>3. /\ seen' \in [Workers -> SeenType]
        /\ \A v \in Workers : seen'[v] = seen[v] \/ seen'[v].doc = doc
    BY <1>1, <2>1, <2>2 DEF SeenType
  <2>4. QED
    BY <1>1, <2>2, <2>3, QuietData
<1>3. CASE UseQdrant(w)
  <2>1. /\ pc[w] = "execute" /\ seen[w].step = "read"
        /\ seen' = [seen EXCEPT ![w].step = "called"]
        /\ UNCHANGED <<payload, requests>>
        /\ \A d \in Docs : doc'[d].rows = doc[d].rows /\ doc'[d].made = doc[d].made
    BY <1>1, <1>3, CallTouchesPoints DEF CallOnly
  <2>2. seen[w] \in SeenRow
    BY <2>1, ReadIsTyped
  <2>3. doc' \in [Docs -> DocRow] /\ errors' \in 0..MaxErrors
    BY <1>3, CallIsTyped
  <2>4. ASSUME NEW d \in Docs PROVE Fine(doc'[d], doc[d])
    <3>1. MadeBy(doc[d].made, doc[d].rows) /\ doc[d] \in DocRow
      BY DEF DataOK
    <3>2. QED
      BY <2>1, <2>3, <3>1 DEF Fine, DocRow
  <2>6. [seen[w] EXCEPT !.step = "called"] \in SeenRow
        /\ [seen[w] EXCEPT !.step = "called"].doc = seen[w].doc
    BY <2>2 DEF SeenRow
  <2>7. /\ seen' \in [Workers -> SeenType]
        /\ \A v \in Workers : v # w => seen'[v] = seen[v]
        /\ seen'[w] = [seen[w] EXCEPT !.step = "called"]
    BY <1>1, <2>1, <2>6 DEF SeenType
  <2>8. \A v \in Workers : seen'[v].step # "unread" =>
           seen[v].step # "unread" /\ seen'[v].doc = seen[v].doc
    BY <2>1, <2>6, <2>7
  <2>9. QED
    BY <1>1, <2>1, <2>3, <2>4, <2>7, <2>8, DataKept
<1>4. ASSUME Forget(w)
      PROVE  /\ seen' \in [Workers -> SeenType]
             /\ \A v \in Workers : seen'[v].step # "unread" => seen'[v] = seen[v]
  BY <1>1, <1>4 DEF Forget, SeenType
<1>5. CASE Abort(w)
  <2>1. /\ pc[w] = "execute" /\ seen[w].step # "unread" /\ Forget(w)
        /\ errors < MaxErrors /\ errors' = errors + 1
        /\ UNCHANGED <<payload, requests>>
    BY <1>5 DEF Abort
  <2>2. errors' \in 0..MaxErrors
    BY <1>1, <2>1, PipelineAssumption
  <2>3. CASE Type(w) # "parse"
    <3>1. doc' = doc
      BY <1>5, <2>3 DEF Abort
    <3>2. QED
      BY <1>1, <1>4, <2>1, <2>2, <3>1, QuietData
  <2>4. CASE Type(w) = "parse"
    <3> DEFINE d == Target(w)
    <3>1. d \in Docs
      BY <2>1, <2>4, HeldJob
    <3>2. Fine([doc[d] EXCEPT !.status = "failed"], doc[d])
      <4>1. doc[d] \in DocRow /\ MadeBy(doc[d].made, doc[d].rows)
        BY <3>1 DEF DataOK
      <4>2. doc[d].made \in Nat /\ doc[d].rows \in SUBSET Artifact
            /\ doc[d].made <= doc[d].made
        BY <4>1 DEF DocRow
      <4>3. QED
        BY <3>1, <4>1, <4>2, Rewritten DEF DocStatuses
    <3>3. Fine(Reparsed(d, Mine(w), "failed", {}), doc[d])
      BY <3>1, ReparsedIsFine DEF DocStatuses
    <3>4. \/ doc' = [doc EXCEPT ![d] = [doc[d] EXCEPT !.status = "failed"]]
          \/ doc' = [doc EXCEPT ![d] = Reparsed(d, Mine(w), "failed", {})]
      BY <1>1, <1>5, <2>4, <3>1 DEF Abort
    <3> HIDE DEF d
    <3>5. CASE doc' = [doc EXCEPT ![d] = [doc[d] EXCEPT !.status = "failed"]]
      <4>1. payload' \in [1..MaxJobs -> SUBSET Nat] /\ UNCHANGED requests
        BY <1>1, <2>1
      <4>2. QED
        BY <2>1, <2>2, <3>1, <3>2, <3>5, <4>1, DataKeptByWorker
    <3>6. CASE doc' = [doc EXCEPT ![d] = Reparsed(d, Mine(w), "failed", {})]
      <4>1. payload' \in [1..MaxJobs -> SUBSET Nat] /\ UNCHANGED requests
        BY <1>1, <2>1
      <4>2. QED
        BY <2>1, <2>2, <3>1, <3>3, <3>6, <4>1, DataKeptByWorker
    <3>7. QED
      BY <3>4, <3>5, <3>6
  <2>5. QED
    BY <2>3, <2>4
<1>6. CASE Forget(w) /\ UNCHANGED <<doc, payload, errors, requests>>
  BY <1>1, <1>4, <1>6, QuietData
<1>7. CASE UNCHANGED docVars
  BY <1>1, <1>7, QuietData DEF docVars
<1>8. QED
  BY <1>2, <1>3, <1>5, <1>6, <1>7 DEF Break

(* and so do requests.                                                     *)
LEMMA AskKeepsData ==
    ASSUME DataOK, Ask
    PROVE  DataOK'
<1>1. /\ payload \in [1..MaxJobs -> SUBSET Nat] /\ seen \in [Workers -> SeenType]
      /\ errors \in 0..MaxErrors /\ requests \in 0..MaxRequests
      /\ doc \in [Docs -> DocRow]
  BY DEF DataOK
<1>2. ASSUME NEW request, Asked(request)
      PROVE  requests' \in 0..MaxRequests /\ UNCHANGED <<seen, errors>>
  BY <1>1, <1>2, PipelineAssumption DEF Asked
<1>3. requests' \in 0..MaxRequests /\ UNCHANGED <<seen, errors>>
  BY <1>2 DEF Ask, RequestRebuild, Register, Resume
<1>4. ASSUME UNCHANGED <<doc, payload>> PROVE DataOK'
  BY <1>1, <1>3, <1>4, QuietData
<1>5. ASSUME NEW d \in Docs, NEW status \in DocStatuses, SetStatus(d, status),
             payload' \in [1..MaxJobs -> SUBSET Nat]
      PROVE  DataOK'
  <2>1. doc' = [doc EXCEPT ![d].status = status]
    BY <1>5 DEF SetStatus
  <2>2. ASSUME NEW e \in Docs PROVE Fine(doc'[e], doc[e])
    <3>1. doc'[e] = doc[e] \/ doc'[e] = [doc[e] EXCEPT !.status = status]
      BY <1>1, <2>1
    <3>2. doc[e] \in DocRow /\ MadeBy(doc[e].made, doc[e].rows)
      BY DEF DataOK
    <3>3. QED
      BY <3>1, <3>2 DEF Fine, DocRow
  <2>3. doc' \in [Docs -> DocRow]
    BY <1>1, <2>1, <2>2 DEF Fine
  <2>4. QED
    BY <1>1, <1>3, <1>5, <2>2, <2>3, DataKept
<1>6. CASE RequestRebuild
  BY <1>4, <1>6 DEF RequestRebuild
<1>7. ASSUME NEW d \in Docs, Register(d) PROVE DataOK'
  BY <1>1, <1>5, <1>7 DEF Register, DocStatuses
<1>8. ASSUME NEW d \in Docs, RepairNothing(d) PROVE DataOK'
  BY <1>4, <1>8 DEF RepairNothing
<1>9. ASSUME NEW d \in Docs, RepairBase(d) PROVE DataOK'
  BY <1>1, <1>5, <1>9 DEF RepairBase, DocStatuses
<1>10. ASSUME NEW d \in Docs, RepairLayers(d) PROVE DataOK'
  <2>1. IdsOf(doc[d], "section") \in SUBSET Nat
    BY <1>1 DEF IdsOf, Layer, DocRow, Artifact
  <2>2. payload' \in [1..MaxJobs -> SUBSET Nat]
    BY <1>1, <1>10, <2>1 DEF RepairLayers
  <2>3. QED
    BY <1>5, <1>10, <2>2 DEF RepairLayers, DocStatuses
<1>11. QED
  BY <1>6, <1>7, <1>8, <1>9, <1>10 DEF Ask, Resume

(* So the data keep their types.                                           *)
LEMMA DataPart == PipelineSpec => []DataOK
<1>1. PipelineInit => DataOK
  <2> SUFFICES ASSUME PipelineInit PROVE DataOK
    OBVIOUS
  <2>1. /\ doc = [d \in Docs |-> NoDoc] /\ payload = [j \in 1..MaxJobs |-> {}]
        /\ seen = [w \in Workers |-> [step |-> "unread"]]
        /\ errors = 0 /\ requests = 0
    BY DEF PipelineInit
  <2>2. NoDoc \in DocRow /\ MadeBy(NoDoc.made, NoDoc.rows)
    BY DEF NoDoc, DocRow, DocStatuses, MadeBy
  <2>3. seen \in [Workers -> SeenType] /\ SeenIsOld
    BY <2>1 DEF SeenType, SeenIsOld
  <2>4. QED
    BY <2>1, <2>2, <2>3, PipelineAssumption DEF DataOK
<1>2. TypeOK /\ JobsFit /\ DataOK /\ [PipelineNext]_pipelineVars => DataOK'
  <2> SUFFICES ASSUME TypeOK, JobsFit, DataOK, [PipelineNext]_pipelineVars
               PROVE  DataOK'
    OBVIOUS
  <2>1. ASSUME UNCHANGED docVars PROVE DataOK'
    <3>1. /\ seen \in [Workers -> SeenType]
          /\ errors \in 0..MaxErrors /\ requests \in 0..MaxRequests
      BY DEF DataOK
    <3>2. QED
      BY <2>1, <3>1, QuietData DEF docVars
  <2>2. QED
    BY <2>1, WriteKeepsData, WorkKeepsData, AskKeepsData
       DEF PipelineNext, Poll, Work, pipelineVars
<1>3. QED
  BY <1>1, <1>2, QueuePart, PTL DEF PipelineSpec

(* Types of the queue's and the pipeline's variables, in every state.      *)
THEOREM PipelineTypeCorrect == PipelineSpec => []PipelineTypeOK
<1>1. TypeOK /\ DataOK => PipelineTypeOK
  BY DEF DataOK, PipelineTypeOK, SeenType
<1>2. QED
  BY <1>1, QueuePart, DataPart, PTL

-----------------------------------------------------------------------------
(***************************************************************************)
(* REBUILD on a single-worker backend.  Its test for RUNNING jobs is a     *)
(* read at its start that its commit relies on much later.  It stays true  *)
(* in between: no other process is up to claim a job, and requests only    *)
(* insert and delete PENDING rows.                                         *)
(***************************************************************************)
SeenWhileExecuting ==
    \A w \in Workers : pc[w] # "execute" => seen[w].step = "unread"

RebuildIsAlone ==
    \A w \in Workers :
        /\ pc[w] = "execute" /\ seen[w].step # "unread"
        /\ Type(w) = "rebuild" /\ ~seen[w].busy
        => \A j \in Ids : jobs[j].status = "running" => j = cur[w]

(* The polling loop and the bookkeeping move one worker, not a handler.    *)
LEMMA LoopMoves ==
    ASSUME TypeOK, NEW w \in Workers,
           Start(w) \/ Loop(w) \/ SucceedNotCommitted(w) \/ FailNotCommitted(w)
    PROVE  /\ pc[w] # "execute"
           /\ Loop(w) => pc[w] # "down"
           /\ \A v \in Workers \ {w} : pc'[v] = pc[v]
<1>1. \E step : Goto(w, step)
  BY DEF Start, Loop, ScanStale, RequeueStale, RequeueRolledBack, Pick, ClaimLost, Claim,
         ClaimUnhandled, Succeed, Fail, Release, SucceedNotCommitted, FailNotCommitted
<1>2. \A v \in Workers \ {w} : pc'[v] = pc[v]
  BY <1>1 DEF Goto, TypeOK
<1>3. pc[w] # "execute" /\ (Loop(w) => pc[w] # "down")
  BY DEF Start, Loop, ScanStale, RequeueStale, RequeueRolledBack, Pick, ClaimLost, Claim,
         ClaimUnhandled, Succeed, Fail, SucceedNotCommitted, FailNotCommitted
<1>4. QED
  BY <1>2, <1>3

(* What a handler has read is forgotten when it is left.                   *)
LEMMA SeenStep ==
    ASSUME TypeOK, DataOK, SeenWhileExecuting, [PipelineNext]_pipelineVars
    PROVE  SeenWhileExecuting'
<1>1. seen \in [Workers -> SeenType]
  BY DEF DataOK
<1>2. ASSUME NEW w \in Workers, Forget(w), \A v \in Workers \ {w} : pc'[v] = pc[v]
      PROVE  SeenWhileExecuting'
  BY <1>1, <1>2 DEF Forget, SeenWhileExecuting
<1>3. ASSUME UNCHANGED seen, \A v \in Workers : pc[v] = "execute" => pc'[v] = "execute"
      PROVE  SeenWhileExecuting'
  BY <1>3 DEF SeenWhileExecuting
<1>4. ASSUME NEW w \in Workers, Write(w) \/ Abort(w)
      PROVE  Forget(w) /\ \A v \in Workers \ {w} : pc'[v] = pc[v]
  <2>1. \A step : Goto(w, step) => \A v \in Workers \ {w} : pc'[v] = pc[v]
    BY DEF Goto
  <2>2. Forget(w)
    BY <1>4 DEF Write, Parse, ParseRefused, Normalize, Segment, Embed, Extract,
         EmbedPropositions, GenerateSummaries, EmbedSummaries, BuildGraph,
         IndexVisualPages, CheckReadiness, Rebuild, Skip, Refuse, Abort, Commit
  <2>3. \/ RaiseError(w)
        \/ \E dropped, batch : CommitWork(w, dropped, batch)
    BY <1>4 DEF Write, Parse, ParseRefused, Normalize, Segment, Embed, Extract,
         EmbedPropositions, GenerateSummaries, EmbedSummaries, BuildGraph,
         IndexVisualPages, CheckReadiness, Rebuild, Skip, Refuse, Abort, Commit
  <2>4. QED
    BY <2>1, <2>2, <2>3 DEF RaiseError, CommitWork
<1>5. ASSUME NEW w \in Workers, Crash(w) /\ Forget(w)
      PROVE  SeenWhileExecuting'
  BY <1>2, <1>5 DEF Crash, Goto
<1>6. ASSUME NEW w \in Workers, Begin(w) \/ UseQdrant(w)
      PROVE  SeenWhileExecuting'
  BY <1>1, <1>6 DEF Begin, UseQdrant, CallQdrant, MissQdrant, AtQdrant, queueVars,
                    SeenWhileExecuting
<1>7. ASSUME NEW w \in Workers, Poll(w)
      PROVE  SeenWhileExecuting'
  <2>1. UNCHANGED seen
    BY <1>7 DEF Poll, docVars
  <2>2. \A v \in Workers : pc[v] = "execute" => pc'[v] = "execute"
    BY <1>7, LoopMoves DEF Poll
  <2>3. QED
    BY <1>3, <2>1, <2>2
<1>8. ASSUME NEW w \in Workers,
             (SucceedNotCommitted(w) \/ FailNotCommitted(w)) /\ UNCHANGED docVars
      PROVE  SeenWhileExecuting'
  BY <1>3, <1>8, LoopMoves DEF docVars
<1>9. ASSUME NEW j \in Ids, (Expire(j) \/ Outlive(j)) /\ UNCHANGED docVars
      PROVE  SeenWhileExecuting'
  BY <1>3, <1>9 DEF Expire, Outlive, docVars
<1>10. CASE Ask
  BY <1>3, <1>10 DEF Ask, RequestRebuild, Register, Resume, RepairNothing, RepairBase,
                     RepairLayers, Asked, Request, queueVars
<1>11. CASE UNCHANGED pipelineVars
  BY <1>3, <1>11 DEF pipelineVars, queueVars, docVars
<1>12. QED
  BY <1>2, <1>4, <1>5, <1>6, <1>7, <1>8, <1>9, <1>10, <1>11
     DEF PipelineNext, Work, Break

(* Steps in which the workers stay where they are and no job becomes       *)
(* RUNNING.                                                                *)
LEMMA StaysAlone ==
    ASSUME TypeOK, RebuildIsAlone, UNCHANGED <<pc, cur, seen>>,
           DOMAIN jobs \subseteq DOMAIN jobs',
           \A j \in DOMAIN jobs : jobs'[j].kind = jobs[j].kind,
           \A j \in DOMAIN jobs' : jobs'[j].status = "running" =>
              j \in DOMAIN jobs /\ jobs[j].status = "running"
    PROVE  RebuildIsAlone'
<1> SUFFICES ASSUME NEW w \in Workers, pc'[w] = "execute", seen'[w].step # "unread",
                    Type(w)' = "rebuild", ~seen'[w].busy,
                    NEW j \in DOMAIN jobs', jobs'[j].status = "running"
             PROVE  j = cur'[w]
  BY DEF RebuildIsAlone, Ids
<1>1. cur[w] \in DOMAIN jobs
  BY DEF TypeOK, Ids
<1>2. Type(w) = "rebuild"
  BY <1>1 DEF Type
<1>3. QED
  BY <1>2 DEF RebuildIsAlone, Ids

(* So a rebuild that has found no RUNNING job stays the only one.          *)
LEMMA AloneStep ==
    ASSUME Exclusive, IInv, JobsFit, DataOK, SeenWhileExecuting, RebuildIsAlone,
           [PipelineNext]_pipelineVars
    PROVE  RebuildIsAlone'
<1> USE JobQueueAssumption
<1>0. TypeOK /\ LockHeld
  BY DEF IInv
<1>1. ASSUME NEW w \in Workers, pc[w] # "down",
             \/ pc'[w] # "execute" \/ seen'[w].step = "unread",
             \A v \in Workers \ {w} : pc'[v] = pc[v]
      PROVE  RebuildIsAlone'
  BY <1>0, <1>1 DEF LockHeld, RebuildIsAlone
<1>2. ASSUME NEW w \in Workers, Start(w)
      PROVE  RebuildIsAlone'
  <2>1. \A v \in Workers : pc'[v] # "execute"
    BY <1>0, <1>2 DEF Start, Goto, TypeOK
  <2>2. QED
    BY <2>1 DEF RebuildIsAlone
<1>3. ASSUME NEW w \in Workers, Loop(w), UNCHANGED docVars
      PROVE  RebuildIsAlone'
  <2>1. /\ pc[w] # "down" /\ pc[w] # "execute"
        /\ \A v \in Workers \ {w} : pc'[v] = pc[v]
    BY <1>0, <1>3, LoopMoves
  <2>2. seen'[w].step = "unread"
    BY <1>3, <2>1 DEF docVars, SeenWhileExecuting
  <2>3. QED
    BY <1>1, <2>1, <2>2
<1>4. ASSUME NEW w \in Workers, Write(w) \/ Abort(w)
      PROVE  RebuildIsAlone'
  <2>1. \/ RaiseError(w)
        \/ \E dropped, batch : CommitWork(w, dropped, batch)
    BY <1>4 DEF Write, Parse, ParseRefused, Normalize, Segment, Embed, Extract,
         EmbedPropositions, GenerateSummaries, EmbedSummaries, BuildGraph,
         IndexVisualPages, CheckReadiness, Rebuild, Skip, Refuse, Abort, Commit
  <2>2. pc[w] = "execute" /\ (pc' = [pc EXCEPT ![w] = "succeed"]
                             \/ pc' = [pc EXCEPT ![w] = "fail"])
    BY <2>1 DEF RaiseError, CommitWork, Goto
  <2>3. pc'[w] # "execute" /\ \A v \in Workers \ {w} : pc'[v] = pc[v]
    BY <1>0, <2>2 DEF TypeOK
  <2>4. QED
    BY <1>1, <2>2, <2>3
<1>5. ASSUME NEW w \in Workers, Fault(w)
      PROVE  RebuildIsAlone'
  <2>1. pc[w] # "down" /\ \E step \in {"down", "fail", "scan"} :
                             pc' = [pc EXCEPT ![w] = step]
    BY <1>5 DEF Fault, Crash, SucceedNotCommitted, FailNotCommitted, Goto, Release
  <2>2. pc'[w] # "execute" /\ \A v \in Workers \ {w} : pc'[v] = pc[v]
    BY <1>0, <2>1 DEF TypeOK
  <2>3. QED
    BY <1>1, <2>1, <2>2
<1>6. ASSUME NEW w \in Workers, Begin(w)
      PROVE  RebuildIsAlone'
  <2> DEFINE busy == /\ Type(w) = "rebuild"
                     /\ \E j \in Ids : Has(j, "running") /\ j # cur[w]
  <2>1. /\ pc[w] = "execute" /\ UNCHANGED <<jobs, pc, cur>>
        /\ seen'[w].busy = busy
    BY <1>6 DEF Begin, queueVars, DataOK
  <2>2. \A v \in Workers \ {w} : pc'[v] # "execute"
    BY <1>0, <2>1 DEF LockHeld
  <2>3. QED
    BY <2>1, <2>2 DEF RebuildIsAlone, Type, Ids, Has
<1>7. ASSUME NEW w \in Workers, UseQdrant(w)
      PROVE  RebuildIsAlone'
  <2>1. /\ seen[w].step = "read" /\ UNCHANGED <<jobs, pc, cur>>
        /\ seen' = [seen EXCEPT ![w].step = "called"]
    BY <1>7 DEF UseQdrant, CallQdrant, MissQdrant, AtQdrant, queueVars
  <2>2. seen[w] \in SeenRow /\ seen \in [Workers -> SeenType]
    BY <2>1, ReadIsTyped DEF DataOK
  <2>3. /\ seen'[w] = [seen[w] EXCEPT !.step = "called"]
        /\ \A v \in Workers \ {w} : seen'[v] = seen[v]
    BY <2>1, <2>2
  <2>4. seen'[w].busy = seen[w].busy
    BY <2>2, <2>3 DEF SeenRow
  <2>5. QED
    BY <2>1, <2>3, <2>4 DEF RebuildIsAlone, Type, Ids
<1>8. ASSUME NEW j \in Ids, Expire(j) \/ Outlive(j), UNCHANGED docVars
      PROVE  RebuildIsAlone'
  BY <1>0, <1>8, StaysAlone DEF Expire, Outlive, docVars
<1>9. CASE Ask
  <2>1. AsksFor \/ UNCHANGED queueVars
    BY <1>9, AskAsks
  <2>2. UNCHANGED seen
    BY <1>9 DEF Ask, RequestRebuild, Register, Resume, Asked
  <2>3. CASE UNCHANGED queueVars
    BY <1>0, <2>2, <2>3, StaysAlone DEF queueVars
  <2>4. CASE AsksFor
    <3>1. PICK dropped \in SUBSET Targets, batch \in ProperBatches :
             Request(dropped, batch)
      BY <2>4 DEF AsksFor
    <3>2. /\ jobs' = Transact(dropped, {}, batch) /\ UNCHANGED <<pc, cur>>
          /\ jobs \in Seq(Row) /\ batch \in Batches
      BY <1>0, <3>1 DEF Request, TypeOK, ProperBatches
    <3>3. TransactEffect(dropped, {}, batch)
      BY <3>2, TransactTable
    <3>4. /\ DOMAIN jobs \subseteq DOMAIN jobs'
          /\ \A j \in DOMAIN jobs :
                \/ jobs'[j] = jobs[j]
                \/ jobs'[j] = [jobs[j] EXCEPT !.status = "deleted"]
          /\ \A j \in DOMAIN jobs' \ DOMAIN jobs : jobs'[j].status = "pending"
      <4>1. \A j \in DOMAIN jobs' \ DOMAIN jobs : jobs'[j].status = "pending"
        BY <3>2, TransactRows
      <4>2. DOMAIN jobs \subseteq DOMAIN jobs'
        BY <3>2, TransactRows
      <4>3. QED
        BY <3>3, <4>1, <4>2 DEF TransactEffect
    <3>5. ASSUME NEW j \in DOMAIN jobs
          PROVE  /\ [jobs[j] EXCEPT !.status = "deleted"].kind = jobs[j].kind
                 /\ [jobs[j] EXCEPT !.status = "deleted"].status = "deleted"
      <4>1. jobs[j] \in Row
        BY <3>2, LenProperties, ElementOfSeq
      <4>2. QED
        BY <4>1, RowWrites DEF Statuses
    <3>6. /\ \A j \in DOMAIN jobs : jobs'[j].kind = jobs[j].kind
          /\ \A j \in DOMAIN jobs' : jobs'[j].status = "running" =>
                j \in DOMAIN jobs /\ jobs[j].status = "running"
      BY <3>4, <3>5
    <3>7. QED
      BY <1>0, <2>2, <3>2, <3>4, <3>6, StaysAlone
  <2>5. QED
    BY <2>1, <2>3, <2>4
<1>10. CASE UNCHANGED pipelineVars
  BY <1>0, <1>10, StaysAlone DEF pipelineVars, queueVars, docVars
<1>11. QED
  BY <1>2, <1>3, <1>4, <1>5, <1>6, <1>7, <1>8, <1>9, <1>10
     DEF PipelineNext, Poll, Work, Break, Fault

(* What RebuildStartsClean demands of a step.                              *)
CleanStep ==
    \A w \in Workers :
        pc[w] = "execute" /\ pc'[w] = "succeed" /\ Type(w) = "rebuild"
        => \A d \in Listed(w) : \E j \in DOMAIN jobs' :
              /\ jobs'[j].kind = Job("parse", d) /\ jobs'[j].status = "pending"
              /\ \A i \in DOMAIN jobs' :
                    jobs'[i].kind.target = d /\ i # j
                    => jobs'[i].status \notin {"pending", "running"}

(* The commit of REBUILD itself.                                           *)
LEMMA RebuildCleans ==
    ASSUME TypeOK, JobsFit, RebuildIsAlone, NEW w \in Workers, Rebuild(w),
           NEW d \in Listed(w)
    PROVE  \E j \in DOMAIN jobs' :
              /\ jobs'[j].kind = Job("parse", d) /\ jobs'[j].status = "pending"
              /\ \A i \in DOMAIN jobs' :
                    jobs'[i].kind.target = d /\ i # j
                    => jobs'[i].status \notin {"pending", "running"}
<1> USE JobQueueAssumption
<1>1. /\ pc[w] = "execute" /\ seen[w].step # "unread" /\ Type(w) = "rebuild"
      /\ ~seen[w].busy
  BY DEF Rebuild, Turn
<1>2. /\ d \in Docs /\ d # Collection /\ d \in Obsolete(w)
      /\ jobs[cur[w]].kind.target = Collection
  BY <1>1, HeldJob, PipelineAssumption DEF Listed, Obsolete, Target
<1>3. PICK batch \in ParseJobs(w) : jobs' = Transact(Obsolete(w), {cur[w]}, batch)
  BY DEF Rebuild, CommitWork
<1>4. PICK order \in Bijection(1..Cardinality(Listed(w)), Listed(w)) :
         batch = [i \in DOMAIN order |-> Job("parse", order[i])]
  BY <1>3 DEF ParseJobs
<1>5. /\ \A i, k \in DOMAIN order : order[i] = order[k] => i = k
      /\ \E k \in DOMAIN order : order[k] = d
  BY DEF Bijection, Injection, Surjection, IsInjective
<1>6. PICK k \in DOMAIN order : order[k] = d
  BY <1>5
<1>7. TransactEffect(Obsolete(w), {cur[w]}, batch)
  BY <1>3, ParseJobsAreProper, TransactTable DEF TypeOK, ProperBatches
<1>8. /\ jobs \in Seq(Row) /\ DOMAIN jobs = 1..Len(jobs) /\ Len(jobs) \in Nat
      /\ \A j \in DOMAIN jobs : jobs[j] \in Row
  BY LenProperties, ElementOfSeq DEF TypeOK
<1>9. /\ batch \in Seq(Kind) /\ DOMAIN batch = 1..Len(batch) /\ Len(batch) \in Nat
      /\ DOMAIN batch = DOMAIN order
  <2>1. batch \in Seq(Kind)
    BY <1>3, ParseJobsAreProper DEF ProperBatches, JobQueueAssumption, Kind
  <2>2. QED
    BY <1>4, <2>1, LenProperties
<1> DEFINE j == Len(jobs) + k
<1>10. j \in DOMAIN jobs' /\ jobs'[j] = NewRow(batch[k])
  BY <1>6, <1>7, <1>8, <1>9 DEF TransactEffect
<1>11. jobs'[j].kind = Job("parse", d) /\ jobs'[j].status = "pending"
  BY <1>4, <1>6, <1>10 DEF NewRow
<1>12. ASSUME NEW i \in DOMAIN jobs, jobs'[i].kind.target = d
       PROVE  jobs'[i].status \notin {"pending", "running"}
  <2>1. /\ [jobs[i] EXCEPT !.status = "deleted"].kind = jobs[i].kind
        /\ [jobs[i] EXCEPT !.status = "deleted"].status = "deleted"
    BY <1>8, RowWrites DEF Statuses
  <2>2. \/ jobs'[i] = [jobs[i] EXCEPT !.status = "deleted"]
        \/ /\ jobs'[i] = jobs[i]
           /\ \/ jobs[i].status # "pending"
              \/ jobs[i].kind.target \notin Obsolete(w)
              \/ i = cur[w]
    BY <1>7 DEF TransactEffect
  <2>3. i # cur[w]
    BY <1>2, <1>12, <2>1, <2>2
  <2>4. CASE jobs'[i] = jobs[i]
    BY <1>1, <1>2, <1>12, <2>1, <2>2, <2>3, <2>4 DEF RebuildIsAlone, Ids
  <2>5. QED
    BY <2>1, <2>2, <2>4
<1>13. ASSUME NEW i \in DOMAIN jobs' \ DOMAIN jobs, jobs'[i].kind.target = d
       PROVE  i = j
  <2>1. PICK n \in DOMAIN batch : i = Len(jobs) + n
    BY <1>7 DEF TransactEffect
  <2>2. jobs'[i] = NewRow(batch[n])
    BY <1>7, <2>1 DEF TransactEffect
  <2>3. batch[n] = Job("parse", order[n])
    BY <1>4, <1>9
  <2>4. jobs'[i].kind.target = order[n]
    BY <2>2, <2>3 DEF NewRow, Job
  <2>5. n = k
    BY <1>5, <1>6, <1>9, <1>13, <2>4
  <2>6. QED
    BY <2>1, <2>5
<1>14. QED
  <2> HIDE DEF j
  <2> QED
    BY <1>10, <1>11, <1>12, <1>13

(* A worker reports success of a REBUILD only by committing it.            *)
LEMMA CleanSteps ==
    ASSUME TypeOK, JobsFit, RebuildIsAlone, PipelineNext
    PROVE  CleanStep
<1> SUFFICES ASSUME NEW w \in Workers, pc[w] = "execute", pc'[w] = "succeed",
                    Type(w) = "rebuild"
             PROVE  Rebuild(w)
  BY RebuildCleans DEF CleanStep
<1>1. ASSUME NEW v \in Workers, Write(v) \/ Abort(v) \/ Crash(v) PROVE v = w
  <2>1. \/ RaiseError(v) \/ Crash(v)
        \/ \E dropped, batch : CommitWork(v, dropped, batch)
    BY <1>1 DEF Write, Parse, ParseRefused, Normalize, Segment, Embed, Extract,
         EmbedPropositions, GenerateSummaries, EmbedSummaries, BuildGraph,
         IndexVisualPages, CheckReadiness, Rebuild, Skip, Refuse, Abort, Commit
  <2>2. \E step : Goto(v, step)
    BY <2>1 DEF RaiseError, Crash, CommitWork
  <2>3. QED
    BY <2>2 DEF Goto, TypeOK
<1>2. ASSUME NEW v \in Workers, Poll(v) PROVE FALSE
  BY <1>2, LoopMoves DEF Poll
<1>3. ASSUME NEW v \in Workers, SucceedNotCommitted(v) \/ FailNotCommitted(v)
      PROVE  FALSE
  BY <1>3, LoopMoves
<1>4. ASSUME NEW v \in Workers, Begin(v) \/ UseQdrant(v) PROVE FALSE
  BY <1>4 DEF Begin, UseQdrant, CallQdrant, MissQdrant, AtQdrant, queueVars
<1>5. ASSUME NEW j \in Ids, Expire(j) \/ Outlive(j) PROVE FALSE
  BY <1>5 DEF Expire, Outlive
<1>6. ASSUME Ask PROVE FALSE
  BY <1>6, AskAsks DEF AsksFor, Request, queueVars
<1>7. ASSUME Abort(w) \/ Crash(w) PROVE FALSE
  <2>1. RaiseError(w) \/ Crash(w)
    BY <1>7 DEF Abort
  <2>2. pc' = [pc EXCEPT ![w] = "fail"] \/ pc' = [pc EXCEPT ![w] = "down"]
    BY <2>1 DEF RaiseError, Crash, Goto
  <2>3. QED
    BY <2>2 DEF TypeOK
<1>8. Write(w)
  BY <1>1, <1>2, <1>3, <1>4, <1>5, <1>6, <1>7 DEF PipelineNext, Work, Break
<1>9. ASSUME ParseRefused(w) \/ Refuse(w) PROVE FALSE
  <2>1. pc' = [pc EXCEPT ![w] = "fail"]
    BY <1>9 DEF ParseRefused, Refuse, RaiseError, Goto
  <2>2. QED
    BY <2>1 DEF TypeOK
<1>10. ~Skip(w)
  BY DEF Skip, NothingToDo
<1>11. QED
  BY <1>8, <1>9, <1>10
     DEF Write, Parse, Normalize, Segment, Embed, Extract, EmbedPropositions,
         GenerateSummaries, EmbedSummaries, BuildGraph, IndexVisualPages,
         CheckReadiness, Turn

(* With the worker lock of SQLite, a rebuild starts clean: when it has     *)
(* committed, each document it reset has exactly one live job, a PENDING   *)
(* PARSE, whatever requests, crashes and retries came before or meanwhile. *)
THEOREM RebuildIsClean ==
    ASSUME Exclusive
    PROVE  PipelineSpec => RebuildStartsClean
<1> DEFINE Inv == TypeOK /\ JobsFit /\ DataOK /\ IInv
           Alone == SeenWhileExecuting /\ RebuildIsAlone
<1>1. PipelineInit => Alone
  BY DEF PipelineInit, Init, SeenWhileExecuting, RebuildIsAlone
<1>2. Inv /\ Alone /\ [PipelineNext]_pipelineVars => Alone'
  BY SeenStep, AloneStep
<1>3. Inv /\ Alone /\ [PipelineNext]_pipelineVars => [CleanStep]_pipelineVars
  BY CleanSteps
<1>4. PipelineSpec => []Inv
  BY QueuePart, DataPart, PipelineRefinesQueue, Invariance, PTL
<1>5. RebuildStartsClean <=> [][CleanStep]_pipelineVars
  BY PTL DEF RebuildStartsClean, CleanStep
<1> HIDE DEF Inv, Alone
<1>6. QED
  BY <1>1, <1>2, <1>3, <1>4, <1>5, PTL DEF PipelineSpec

-----------------------------------------------------------------------------
(***************************************************************************)
(* What the pipeline promises of a document, with the single worker of     *)
(* SQLite and as long as documents are uploaded once and collections are   *)
(* rebuilt: each later stage is queued once, the status follows the table  *)
(* of transitions, READY means complete and published means searchable.    *)
(* The hypotheses on `Requests` are no convenience: registering a known    *)
(* file again and RESUME reset a document under a running handler, and TLC *)
(* has counterexamples then.                                               *)
(***************************************************************************)

(* Files are registered once, collections are rebuilt.                     *)
UploadsAndRebuilds == Requests \subseteq {"upload", "rebuild"}

(* What is proved already.                                                 *)
Known ==
    /\ TypeOK /\ JobsFit /\ DataOK /\ IInv
    /\ SeenWhileExecuting /\ RebuildIsAlone

(* Types, the queue's invariant and the readings of handlers, all at once. *)
LEMMA KnownHolds ==
    ASSUME Exclusive
    PROVE  PipelineSpec => []Known
<1> DEFINE Inv == TypeOK /\ JobsFit /\ DataOK /\ IInv
           Alone == SeenWhileExecuting /\ RebuildIsAlone
<1>1. PipelineInit => Alone
  BY DEF PipelineInit, Init, SeenWhileExecuting, RebuildIsAlone
<1>2. Inv /\ Alone /\ [PipelineNext]_pipelineVars => Alone'
  BY SeenStep, AloneStep
<1>3. PipelineSpec => []Inv
  BY QueuePart, DataPart, PipelineRefinesQueue, Invariance, PTL
<1>4. Inv /\ Alone => Known
  BY DEF Known
<1> HIDE DEF Inv, Alone
<1>5. QED
  BY <1>1, <1>2, <1>3, <1>4, PTL DEF PipelineSpec

(***************************************************************************)
(* The jobs of a document.  Those inserted since the last PARSE of it are  *)
(* of its current generation; a live job always is, and the types that     *)
(* occur in the generation tell how far the document has come.             *)
(***************************************************************************)
RowsOf(d) == {j \in Ids : jobs[j].kind.target = d}
Live(j)   == jobs[j].status \in {"pending", "running"}

Since(d, j) == \A i \in RowsOf(d) : jobs[i].kind.type = "parse" => i <= j

Reached(status) ==
    CASE status = "absent"     -> {}
      [] status = "registered" -> {"parse"}
      [] status = "parsed"     -> {"parse", "normalize"}
      [] status = "normalized" -> {"parse", "normalize", "segment"}
      [] status = "segmented"  -> {"parse", "normalize", "segment", "embed"}
      [] OTHER                 -> PipelineTypes \ {"rebuild"}

DocJobs(d) ==
    \A j \in RowsOf(d) :
        /\ doc[d].status # "absent"
        /\ Live(j) => Since(d, j)
        /\ Since(d, j) => jobs[j].kind.type \in Reached(doc[d].status)
        /\ \A i \in RowsOf(d) :
              Live(i) /\ Live(j) /\ jobs[i].kind.type = jobs[j].kind.type => i = j

(* The status of a document moves from `old` to `new` without forgetting   *)
(* a stage.                                                                *)
Onward(old, new) ==
    /\ Reached(old) \subseteq Reached(new)
    /\ old # "absent" => new # "absent"

(* The jobs of document d are the same, and none has become live.          *)
SameJobs(d) ==
    /\ RowsOf(d)' = RowsOf(d)
    /\ \A j \in RowsOf(d) :
          jobs'[j].kind = jobs[j].kind /\ (Live(j)' => Live(j))

(* A document whose jobs are the same keeps them in order as it moves on.  *)
LEMMA JobsKept ==
    ASSUME NEW d, DocJobs(d), SameJobs(d), Onward(doc[d].status, doc'[d].status)
    PROVE  DocJobs(d)'
<1>1. \A j \in RowsOf(d) : Since(d, j)' <=> Since(d, j)
  BY DEF SameJobs, Since
<1>2. QED
  BY <1>1 DEF DocJobs, SameJobs, Onward

(* New jobs of later stages that were not active.                          *)
LEMMA JobsAdvance ==
    ASSUME TypeOK, NEW d, DocJobs(d), NEW N, RowsOf(d)' = RowsOf(d) \cup N,
           \A n \in N : n \in Nat,
           \A j \in RowsOf(d) : \A n \in N : j < n,
           \A j \in RowsOf(d) :
              jobs'[j].kind = jobs[j].kind /\ (Live(j)' => Live(j)),
           Onward(doc[d].status, doc'[d].status), doc'[d].status # "absent",
           \A n \in N :
              /\ jobs'[n].kind.type \in Reached(doc'[d].status) \ {"parse"}
              /\ \A j \in RowsOf(d) : Live(j) => jobs[j].kind.type # jobs'[n].kind.type
              /\ \A m \in N : jobs'[m].kind.type = jobs'[n].kind.type => m = n
    PROVE  DocJobs(d)'
<1>1. \A j \in RowsOf(d) : j \in Nat
  BY LenProperties DEF RowsOf, Ids, TypeOK
<1>2. \A j \in RowsOf(d) : Since(d, j)' <=> Since(d, j)
  BY DEF Since
<1>3. \A n \in N : Since(d, n)'
  BY <1>1 DEF Since
<1>4. ASSUME NEW j \in RowsOf(d)
      PROVE  /\ Live(j)' => Since(d, j)'
             /\ Since(d, j)' => jobs'[j].kind.type \in Reached(doc'[d].status)
  BY <1>2 DEF DocJobs, Onward
<1>5. ASSUME NEW i \in RowsOf(d)', NEW j \in RowsOf(d)', Live(i)', Live(j)',
             jobs'[i].kind.type = jobs'[j].kind.type
      PROVE  i = j
  <2>1. CASE i \in RowsOf(d) /\ j \in RowsOf(d)
    BY <1>5, <2>1 DEF DocJobs
  <2>2. CASE i \in N /\ j \in N
    BY <1>5, <2>2
  <2>3. CASE i \in N /\ j \in RowsOf(d)
    BY <1>5, <2>3
  <2>4. CASE i \in RowsOf(d) /\ j \in N
    BY <1>5, <2>4
  <2>5. QED
    BY <1>5, <2>1, <2>2, <2>3, <2>4
<1>6. QED
  BY <1>3, <1>4, <1>5 DEF DocJobs

(* A new generation: one PARSE, and no other job is live.                  *)
LEMMA JobsRestart ==
    ASSUME TypeOK, NEW d, NEW n \in Nat, RowsOf(d)' = RowsOf(d) \cup {n},
           \A j \in RowsOf(d) : j < n,
           \A j \in RowsOf(d) : ~Live(j)',
           jobs'[n].kind.type = "parse",
           doc'[d].status # "absent", "parse" \in Reached(doc'[d].status)
    PROVE  DocJobs(d)'
<1>1. \A j \in RowsOf(d) : j \in Nat /\ ~(n <= j)
  BY LenProperties DEF RowsOf, Ids, TypeOK
<1>2. \A j \in RowsOf(d) : ~Since(d, j)'
  BY <1>1 DEF Since
<1>3. Since(d, n)'
  BY <1>1 DEF Since
<1>4. QED
  BY <1>2, <1>3 DEF DocJobs

-----------------------------------------------------------------------------
(***************************************************************************)
(* Transactions, seen from one document.                                   *)
(***************************************************************************)
NewRows(d, batch) == {Len(jobs) + i : i \in {k \in DOMAIN batch : batch[k].target = d}}

(* Batches of jobs of document d: distinct stages out of `types`, none of  *)
(* them active.                                                            *)
Fresh(d, types, batch) ==
    /\ batch \in Seq(PipelineKind)
    /\ \A i \in DOMAIN batch :
          /\ batch[i].target = d /\ batch[i].type \in types
          /\ \A j \in RowsOf(d) : Live(j) => jobs[j].kind.type # batch[i].type
          /\ \A k \in DOMAIN batch : batch[k].type = batch[i].type => k = i

(* One transaction on the table, seen from one target.                     *)
LEMMA Appends ==
    ASSUME TypeOK, NEW dropped, NEW spared, NEW batch \in ProperBatches,
           jobs' = Transact(dropped, spared, batch), NEW d
    PROVE  /\ RowsOf(d)' = RowsOf(d) \cup NewRows(d, batch)
           /\ \A n \in NewRows(d, batch) :
                 /\ n \in Nat /\ \A j \in RowsOf(d) : j < n
                 /\ \E i \in DOMAIN batch : /\ n = Len(jobs) + i
                                            /\ batch[i].target = d
                                            /\ jobs'[n].kind = batch[i]
                                            /\ jobs'[n].status = "pending"
           /\ \A j \in RowsOf(d) :
                 /\ j \in DOMAIN jobs'
                 /\ jobs'[j].kind = jobs[j].kind /\ (Live(j)' => Live(j))
                 /\ \/ jobs'[j].status = jobs[j].status
                    \/ jobs[j].status = "pending" /\ jobs'[j].status = "deleted"
                 /\ d \in dropped /\ j \notin spared => jobs'[j].status # "pending"
<1> USE JobQueueAssumption
<1>1. /\ jobs \in Seq(Row) /\ DOMAIN jobs = 1..Len(jobs) /\ Len(jobs) \in Nat
      /\ \A j \in DOMAIN jobs : jobs[j] \in Row
  BY LenProperties, ElementOfSeq DEF TypeOK
<1>2. TransactEffect(dropped, spared, batch)
  BY <1>1, TransactTable DEF ProperBatches
<1>3. DOMAIN batch = 1..Len(batch) /\ Len(batch) \in Nat
  <2>1. batch \in Seq(Kind)
    BY DEF ProperBatches, JobQueueAssumption, Kind
  <2>2. QED
    BY <2>1, LenProperties
<1>4. ASSUME NEW j \in DOMAIN jobs
      PROVE  /\ j \in DOMAIN jobs'
             /\ jobs'[j].kind = jobs[j].kind /\ (Live(j)' => Live(j))
             /\ \/ jobs'[j].status = jobs[j].status
                \/ jobs[j].status = "pending" /\ jobs'[j].status = "deleted"
             /\ jobs[j].kind.target \in dropped /\ j \notin spared
                => jobs'[j].status # "pending"
  <2>1. /\ [jobs[j] EXCEPT !.status = "deleted"].kind = jobs[j].kind
        /\ [jobs[j] EXCEPT !.status = "deleted"].status = "deleted"
    BY <1>1, RowWrites DEF Statuses
  <2>2. j \in DOMAIN jobs'
    BY <1>1, <1>2, <1>3 DEF TransactEffect
  <2>3. \/ jobs'[j] = jobs[j] /\ ~(/\ jobs[j].status = "pending"
                                   /\ jobs[j].kind.target \in dropped /\ j \notin spared)
        \/ /\ jobs[j].status = "pending"
           /\ jobs'[j] = [jobs[j] EXCEPT !.status = "deleted"]
    BY <1>2 DEF TransactEffect
  <2>4. CASE /\ jobs'[j] = jobs[j]
             /\ ~(/\ jobs[j].status = "pending"
                  /\ jobs[j].kind.target \in dropped /\ j \notin spared)
    <3>1. jobs'[j].kind = jobs[j].kind /\ jobs'[j].status = jobs[j].status
      BY <2>4
    <3>2. Live(j)' => Live(j)
      BY <3>1 DEF Live
    <3>3. jobs[j].kind.target \in dropped /\ j \notin spared
          => jobs'[j].status # "pending"
      BY <2>4, <3>1
    <3>4. QED
      BY <2>2, <3>1, <3>2, <3>3, Zenon
  <2>5. CASE /\ jobs[j].status = "pending"
             /\ jobs'[j] = [jobs[j] EXCEPT !.status = "deleted"]
    BY <2>1, <2>2, <2>5 DEF Live
  <2>6. QED
    BY <2>3, <2>4, <2>5
<1>5. ASSUME NEW i \in DOMAIN batch
      PROVE  /\ Len(jobs) + i \in DOMAIN jobs' \ DOMAIN jobs
             /\ jobs'[Len(jobs) + i].kind = batch[i]
             /\ jobs'[Len(jobs) + i].status = "pending"
  <2>1. jobs'[Len(jobs) + i] = NewRow(batch[i])
    BY <1>2 DEF TransactEffect
  <2>2. DOMAIN jobs' = 1..(Len(jobs) + Len(batch))
    BY <1>2 DEF TransactEffect
  <2>3. i \in Nat /\ 1 <= i /\ i <= Len(batch)
    BY <1>3
  <2>4. Len(jobs) + i \in DOMAIN jobs' \ DOMAIN jobs
    BY <1>1, <1>3, <2>2, <2>3
  <2>5. QED
    BY <2>1, <2>4 DEF NewRow
<1>6. ASSUME NEW j \in DOMAIN jobs' \ DOMAIN jobs
      PROVE  \E i \in DOMAIN batch : j = Len(jobs) + i
  BY <1>2 DEF TransactEffect
<1>7. RowsOf(d)' = RowsOf(d) \cup NewRows(d, batch)
  BY <1>4, <1>5, <1>6 DEF RowsOf, NewRows, Ids
<1>8. ASSUME NEW n \in NewRows(d, batch)
      PROVE  /\ n \in Nat /\ \A j \in RowsOf(d) : j < n
             /\ \E i \in DOMAIN batch : /\ n = Len(jobs) + i
                                        /\ batch[i].target = d
                                        /\ jobs'[n].kind = batch[i]
                                        /\ jobs'[n].status = "pending"
  <2>1. PICK i \in DOMAIN batch : n = Len(jobs) + i /\ batch[i].target = d
    BY DEF NewRows
  <2>2. n \in Nat /\ \A j \in RowsOf(d) : j < n
    BY <1>1, <1>3, <2>1 DEF RowsOf, Ids
  <2>3. QED
    BY <1>5, <2>1, <2>2
<1>9. QED
  BY <1>4, <1>7, <1>8 DEF RowsOf, Ids

(* A transaction that inserts no job of the document leaves its jobs.      *)
LEMMA OthersKept ==
    ASSUME TypeOK, NEW dropped, NEW spared, NEW batch \in ProperBatches,
           jobs' = Transact(dropped, spared, batch), NEW d,
           \A i \in DOMAIN batch : batch[i].target # d
    PROVE  SameJobs(d)
<1>1. NewRows(d, batch) = {}
  BY DEF NewRows
<1>2. /\ RowsOf(d)' = RowsOf(d) \cup NewRows(d, batch)
      /\ \A j \in RowsOf(d) : jobs'[j].kind = jobs[j].kind /\ (Live(j)' => Live(j))
  BY Appends
<1>3. QED
  BY <1>1, <1>2 DEF SameJobs

(* Fresh jobs of later stages.                                             *)
LEMMA FreshAdvance ==
    ASSUME TypeOK, NEW d, NEW dropped, NEW spared, NEW batch \in ProperBatches,
           jobs' = Transact(dropped, spared, batch), DocJobs(d),
           NEW types, Fresh(d, types, batch),
           types \subseteq Reached(doc'[d].status) \ {"parse"},
           Onward(doc[d].status, doc'[d].status), doc'[d].status # "absent"
    PROVE  DocJobs(d)'
<1> DEFINE N == NewRows(d, batch)
<1>1. /\ RowsOf(d)' = RowsOf(d) \cup N
      /\ \A n \in N : n \in Nat
      /\ \A j \in RowsOf(d) : \A n \in N : j < n
      /\ \A j \in RowsOf(d) : jobs'[j].kind = jobs[j].kind /\ (Live(j)' => Live(j))
  BY Appends
<1>2. ASSUME NEW n \in N
      PROVE  \E i \in DOMAIN batch : n = Len(jobs) + i /\ jobs'[n].kind = batch[i]
  BY Appends
<1>3. ASSUME NEW n \in N
      PROVE  /\ jobs'[n].kind.type \in Reached(doc'[d].status) \ {"parse"}
             /\ \A j \in RowsOf(d) : Live(j) => jobs[j].kind.type # jobs'[n].kind.type
             /\ \A m \in N : jobs'[m].kind.type = jobs'[n].kind.type => m = n
  <2>1. PICK i \in DOMAIN batch : n = Len(jobs) + i /\ jobs'[n].kind = batch[i]
    BY <1>2
  <2>2. ASSUME NEW m \in N, jobs'[m].kind.type = jobs'[n].kind.type
        PROVE  m = n
    <3>1. PICK k \in DOMAIN batch : m = Len(jobs) + k /\ jobs'[m].kind = batch[k]
      BY <1>2
    <3>2. QED
      BY <2>1, <2>2, <3>1 DEF Fresh
  <2>3. QED
    BY <2>1, <2>2 DEF Fresh
<1> HIDE DEF N
<1>4. QED
  BY <1>1, <1>3, JobsAdvance

(* ensure_pending proposes a stage that is not active, and so do several   *)
(* of them for different stages.                                           *)
LEMMA EnsureIsFresh ==
    ASSUME NEW d \in Docs, NEW type \in PipelineTypes \ {"rebuild"}
    PROVE  Fresh(d, {type}, Ensure(type, d))
<1>1. Ensure(type, d) \in Seq(PipelineKind)
  BY EnsureIsFew DEF Few
<1>2. CASE Active(d, {type})
  BY <1>1, <1>2 DEF Ensure, Fresh
<1>3. CASE ~Active(d, {type})
  <2>1. Ensure(type, d) = <<Job(type, d)>>
    BY <1>3 DEF Ensure
  <2>2. \A j \in RowsOf(d) : Live(j) => jobs[j].kind.type # type
    BY <1>3 DEF Active, RowsOf, Live
  <2>3. QED
    BY <1>1, <2>1, <2>2 DEF Fresh, Job
<1>4. QED
  BY <1>2, <1>3

(* Batches of different types make one batch.                              *)
LEMMA FreshConcat ==
    ASSUME NEW d, NEW T, NEW U, T \cap U = {}, NEW s, NEW t,
           Fresh(d, T, s), Fresh(d, U, t)
    PROVE  Fresh(d, T \cup U, s \o t)
<1>1. s \in Seq(PipelineKind) /\ t \in Seq(PipelineKind)
  BY DEF Fresh
<1>2. /\ s \o t \in Seq(PipelineKind)
      /\ Len(s \o t) = Len(s) + Len(t)
      /\ \A i \in 1..Len(s) + Len(t) :
            (s \o t)[i] = IF i <= Len(s) THEN s[i] ELSE t[i - Len(s)]
  BY <1>1, ConcatProperties, Zenon
<1>3. /\ DOMAIN s = 1..Len(s) /\ Len(s) \in Nat
      /\ DOMAIN t = 1..Len(t) /\ Len(t) \in Nat
      /\ DOMAIN (s \o t) = 1..Len(s) + Len(t)
  BY <1>1, <1>2, LenProperties
<1>4. ASSUME NEW i \in DOMAIN (s \o t)
      PROVE  \/ i \in DOMAIN s /\ (s \o t)[i] = s[i]
             \/ /\ i - Len(s) \in DOMAIN t /\ ~(i <= Len(s))
                /\ (s \o t)[i] = t[i - Len(s)]
  BY <1>2, <1>3
<1>5. ASSUME NEW i \in DOMAIN (s \o t), NEW k \in DOMAIN (s \o t),
             (s \o t)[k].type = (s \o t)[i].type
      PROVE  k = i
  <2>1. i \in Nat /\ k \in Nat /\ Len(s) \in Nat
    BY <1>3
  <2>2. CASE i \in DOMAIN s /\ k \in DOMAIN s /\ (s \o t)[i] = s[i] /\ (s \o t)[k] = s[k]
    BY <1>5, <2>2 DEF Fresh
  <2>3. CASE /\ i - Len(s) \in DOMAIN t /\ (s \o t)[i] = t[i - Len(s)]
             /\ k - Len(s) \in DOMAIN t /\ (s \o t)[k] = t[k - Len(s)]
    <3>1. k - Len(s) = i - Len(s)
      BY <1>5, <2>3 DEF Fresh
    <3>2. QED
      BY <2>1, <3>1
  <2>4. CASE /\ i \in DOMAIN s /\ (s \o t)[i] = s[i]
             /\ k - Len(s) \in DOMAIN t /\ (s \o t)[k] = t[k - Len(s)]
    BY <1>5, <2>4 DEF Fresh
  <2>5. CASE /\ k \in DOMAIN s /\ (s \o t)[k] = s[k]
             /\ i - Len(s) \in DOMAIN t /\ (s \o t)[i] = t[i - Len(s)]
    BY <1>5, <2>5 DEF Fresh
  <2>6. QED
    BY <1>4, <2>2, <2>3, <2>4, <2>5
<1>6. ASSUME NEW i \in DOMAIN (s \o t)
      PROVE  /\ (s \o t)[i].target = d /\ (s \o t)[i].type \in T \cup U
             /\ \A j \in RowsOf(d) : Live(j) => jobs[j].kind.type # (s \o t)[i].type
  BY <1>4 DEF Fresh
<1>7. QED
  BY <1>2, <1>5, <1>6 DEF Fresh

(* A stage the document has not reached has no live job.                   *)
LEMMA NextStageIsFresh ==
    ASSUME NEW d \in Docs, DocJobs(d), NEW type \in PipelineTypes \ {"rebuild"},
           type \notin Reached(doc[d].status)
    PROVE  Fresh(d, {type}, <<Job(type, d)>>)
<1>1. <<Job(type, d)>> \in Seq(PipelineKind)
  BY ProperJob
<1>2. \A j \in RowsOf(d) : Live(j) => jobs[j].kind.type # type
  BY DEF DocJobs
<1>3. QED
  BY <1>1, <1>2 DEF Fresh, Job

-----------------------------------------------------------------------------
(***************************************************************************)
(* The artifacts of a document.  Whatever its status, derived rows belong  *)
(* to rows that exist; the early statuses fix the rows entirely.           *)
(***************************************************************************)
Node == New("node", 0, {})

Tidy(s) ==
    \A r \in s.rows :
        /\ r.layer = "section" => r.id \in IdsOf(s, "chunk") /\ r.of = {r.id}
        /\ r.layer = "edge" => r.id \in IdsOf(s, "proposition") /\ r.of = {r.id}
        /\ r.layer = "document" => r.id = 0
        /\ r.layer \in {"proposition", "document"} => r.of = IdsOf(s, "chunk")

Shape(s) ==
    /\ Tidy(s)
    /\ s.status \in {"absent", "registered"} => s.rows = {}
    /\ s.status \in {"parsed", "normalized"} => s.rows = {Node}
    /\ s.status = "segmented" => s.rows \in {{Node}, {Node, New("chunk", s.made, {})}}
    /\ s.status \in {"indexed", "ready"} =>
          /\ Layer(s, "node") # {} /\ IdsOf(s, "chunk") # {}
          /\ AllEmbedded(s, "chunk")

(* q is r, possibly embedded since.                                        *)
Alike(q, r) ==
    /\ q.layer = r.layer /\ q.id = r.id /\ q.of = r.of
    /\ r.embedded => q.embedded

(* What enrichment may add to a document.                                  *)
Derived(s, q) ==
    \/ /\ q.layer = "proposition" /\ q.of = IdsOf(s, "chunk")
       /\ Layer(s, "proposition") = {}
    \/ /\ q.layer = "section" /\ q.of = {q.id}
       /\ q.id \in IdsOf(s, "chunk") \ IdsOf(s, "section")
    \/ /\ q.layer = "document" /\ q.id = 0 /\ q.of = IdsOf(s, "chunk")
       /\ Layer(s, "document") = {}
    \/ /\ q.layer = "edge" /\ q.of = {q.id} /\ q.id \in IdsOf(s, "proposition")
    \/ /\ q.layer = "page"

Enriched(old, new) ==
    /\ \A r \in old.rows : \E q \in new.rows : Alike(q, r)
    /\ \A q \in new.rows : Derived(old, q) \/ \E r \in old.rows : Alike(q, r)

(* The life of a document, in relations between its old and its new row:   *)
(* workers advance it, requests and REBUILD start it.                      *)
Starts(old, new) ==
    \/ /\ old.status = "absent" /\ new.status = "registered"
       /\ new.rows = old.rows
    \/ /\ old.status # "absent" /\ new.status = "registered" /\ new.rows = {}

Advances(old, new) ==
    \/ new.status = old.status /\ new.rows = old.rows /\ new.made = old.made
    \/ /\ old.status # "absent" /\ new.status = "failed"
       /\ new.rows \in {old.rows, {}, {Node}}
    \/ old.status = "registered" /\ new.status = "parsed" /\ new.rows = {Node}
    \/ old.status = "parsed" /\ new.status = "normalized" /\ new.rows = old.rows
    \/ /\ old.status = "normalized" /\ new.status = "segmented"
       /\ new.rows \in {old.rows, old.rows \cup {New("chunk", new.made, {})}}
    \/ /\ old.status = "segmented" /\ new.status = "indexed"
       /\ Layer(old, "chunk") # {}
       /\ new.rows = MarkEmbedded(old.rows, Unembedded(old))
    \/ /\ old.status \in {"indexed", "ready", "failed"} /\ new.status = old.status
       /\ Enriched(old, new)
    \/ /\ {old.status, new.status} = {"indexed", "ready"} /\ new.rows = old.rows

Moves(old, new) == Starts(old, new) \/ Advances(old, new)

(* Marking rows keeps them otherwise.                                      *)
LEMMA MarkedAreAlike ==
    ASSUME NEW rows \in SUBSET Artifact, NEW which
    PROVE  /\ \A r \in rows : \E q \in MarkEmbedded(rows, which) :
                 Alike(q, r) /\ ((\E p \in which : SameRow(p, r)) => q.embedded)
           /\ \A q \in MarkEmbedded(rows, which) : \E r \in rows :
                 Alike(q, r) /\ ((\E p \in which : SameRow(p, r)) => q.embedded)
<1> DEFINE Mark(r) == IF \E p \in which : SameRow(p, r)
                      THEN [r EXCEPT !.embedded = TRUE] ELSE r
<1>1. MarkEmbedded(rows, which) = {Mark(r) : r \in rows}
  BY DEF MarkEmbedded
<1>2. ASSUME NEW r \in rows
      PROVE  /\ Alike(Mark(r), r)
             /\ (\E p \in which : SameRow(p, r)) => Mark(r).embedded
  <2>1. r \in Artifact
    OBVIOUS
  <2>2. CASE \E p \in which : SameRow(p, r)
    <3>1. Mark(r) = [r EXCEPT !.embedded = TRUE]
      BY <2>2
    <3>2. /\ Mark(r).layer = r.layer /\ Mark(r).id = r.id /\ Mark(r).of = r.of
          /\ Mark(r).embedded = TRUE
      BY <2>1, <3>1 DEF Artifact
    <3> HIDE DEF Mark
    <3>3. QED
      BY <3>2 DEF Alike
  <2>3. CASE ~\E p \in which : SameRow(p, r)
    <3>1. Mark(r) = r
      BY <2>3
    <3> HIDE DEF Mark
    <3>2. QED
      BY <2>3, <3>1 DEF Alike
  <2>4. QED
    BY <2>2, <2>3
<1> HIDE DEF Mark
<1>3. QED
  BY <1>1, <1>2

(* Layers of an enriched document.                                         *)
LEMMA EnrichedLayers ==
    ASSUME NEW old, NEW new, Enriched(old, new)
    PROVE  /\ \A layer : IdsOf(old, layer) \subseteq IdsOf(new, layer)
           /\ \A layer : Layer(old, layer) # {} => Layer(new, layer) # {}
           /\ IdsOf(new, "chunk") = IdsOf(old, "chunk")
           /\ AllEmbedded(old, "chunk") => AllEmbedded(new, "chunk")
<1>1. ASSUME NEW layer, NEW r \in Layer(old, layer)
      PROVE  \E q \in Layer(new, layer) : q.id = r.id
  BY <1>1 DEF Layer, Enriched, Alike
<1>2. ASSUME NEW q \in Layer(new, "chunk")
      PROVE  \E r \in Layer(old, "chunk") : Alike(q, r)
  BY <1>2 DEF Layer, Enriched, Derived, Alike
<1>3. \A q \in Layer(new, "chunk") : q.id \in IdsOf(old, "chunk")
  BY <1>2 DEF IdsOf, Alike
<1>4. \A layer : IdsOf(old, layer) \subseteq IdsOf(new, layer)
  BY <1>1 DEF IdsOf
<1>5. IdsOf(new, "chunk") = IdsOf(old, "chunk")
  BY <1>3, <1>4 DEF IdsOf
<1>6. AllEmbedded(old, "chunk") => AllEmbedded(new, "chunk")
  BY <1>2 DEF AllEmbedded, Alike
<1>7. \A layer : Layer(old, layer) # {} => Layer(new, layer) # {}
  BY <1>1
<1>8. QED
  BY <1>4, <1>5, <1>6, <1>7

(* Enrichment adds only rows that belong to rows that exist.               *)
LEMMA EnrichedIsTidy ==
    ASSUME NEW old, NEW new, Enriched(old, new), Tidy(old)
    PROVE  Tidy(new)
<1>1. /\ IdsOf(new, "chunk") = IdsOf(old, "chunk")
      /\ IdsOf(old, "proposition") \subseteq IdsOf(new, "proposition")
  BY EnrichedLayers
<1>2. SUFFICES ASSUME NEW q \in new.rows
               PROVE  /\ q.layer = "section" => q.id \in IdsOf(new, "chunk") /\ q.of = {q.id}
                      /\ q.layer = "edge" => /\ q.id \in IdsOf(new, "proposition")
                                             /\ q.of = {q.id}
                      /\ q.layer = "document" => q.id = 0
                      /\ q.layer \in {"proposition", "document"}
                           => q.of = IdsOf(new, "chunk")
  BY DEF Tidy
<1>3. CASE Derived(old, q)
  BY <1>1, <1>3 DEF Derived
<1>4. ASSUME NEW r \in old.rows, Alike(q, r)
      PROVE  /\ q.layer = "section" => q.id \in IdsOf(new, "chunk") /\ q.of = {q.id}
             /\ q.layer = "edge" => q.id \in IdsOf(new, "proposition") /\ q.of = {q.id}
             /\ q.layer = "document" => q.id = 0
             /\ q.layer \in {"proposition", "document"} => q.of = IdsOf(new, "chunk")
  BY <1>1, <1>4 DEF Tidy, Alike
<1>5. QED
  BY <1>3, <1>4 DEF Enriched

(* Each step of a document's life keeps its shape.                         *)
LEMMA ShapeKept ==
    ASSUME NEW old \in DocRow, NEW new \in DocRow, Shape(old), Moves(old, new)
    PROVE  Shape(new)
<1>1. /\ Node.layer = "node" /\ Node.id = 0 /\ Node \in Artifact
      /\ Node.embedded = FALSE
  BY NewIsArtifact DEF Node, New, Layers
<1>2. ASSUME new.rows = {} \/ new.rows = {Node}
      PROVE  Tidy(new)
  BY <1>1, <1>2 DEF Tidy
<1>3. CASE new.status = old.status /\ new.rows = old.rows /\ new.made = old.made
  BY <1>3 DEF Shape, Tidy, IdsOf, Layer, AllEmbedded
<1>4. ASSUME new.rows = old.rows, Tidy(old) PROVE Tidy(new)
  BY <1>4 DEF Tidy, IdsOf, Layer
<1>5. CASE /\ old.status = "absent" /\ new.status = "registered"
           /\ new.rows = old.rows
  BY <1>4, <1>5 DEF Shape
<1>6. CASE old.status # "absent" /\ new.status = "registered" /\ new.rows = {}
  BY <1>2, <1>6 DEF Shape
<1>7. CASE new.status = "failed" /\ new.rows \in {old.rows, {}, {Node}}
  BY <1>2, <1>4, <1>7 DEF Shape
<1>8. CASE old.status = "registered" /\ new.status = "parsed" /\ new.rows = {Node}
  BY <1>2, <1>8 DEF Shape
<1>9. CASE old.status = "parsed" /\ new.status = "normalized" /\ new.rows = old.rows
  BY <1>4, <1>9 DEF Shape
<1>10. CASE /\ old.status = "normalized" /\ new.status = "segmented"
            /\ new.rows \in {old.rows, old.rows \cup {New("chunk", new.made, {})}}
  <2>1. new.rows = {Node} \/ new.rows = {Node, New("chunk", new.made, {})}
    BY <1>10 DEF Shape
  <2>2. New("chunk", new.made, {}).layer = "chunk"
    BY DEF New
  <2>3. Tidy(new)
    BY <1>1, <1>2, <2>1, <2>2 DEF Tidy
  <2>4. QED
    BY <1>10, <2>1, <2>3 DEF Shape
<1>11. CASE /\ old.status = "segmented" /\ new.status = "indexed"
            /\ Layer(old, "chunk") # {}
            /\ new.rows = MarkEmbedded(old.rows, Unembedded(old))
  <2>1. old.rows \in SUBSET Artifact
    BY DEF DocRow
  <2>2. /\ \A r \in old.rows : \E q \in new.rows : Alike(q, r)
        /\ \A q \in new.rows : \E r \in old.rows :
              Alike(q, r) /\ ((\E p \in Unembedded(old) : SameRow(p, r)) => q.embedded)
    BY <1>11, <2>1, MarkedAreAlike
  <2>3. Enriched(old, new)
    BY <2>2 DEF Enriched
  <2>4. Tidy(new)
    BY <2>3, EnrichedIsTidy DEF Shape
  <2>5. Node \in old.rows
    BY <1>11 DEF Shape
  <2>6. Layer(old, "node") # {} /\ IdsOf(old, "chunk") # {}
    BY <1>1, <1>11, <2>5 DEF Layer, IdsOf
  <2>7. Layer(new, "node") # {} /\ IdsOf(new, "chunk") # {}
    BY <2>3, <2>6, EnrichedLayers
  <2>8. ASSUME NEW q \in Layer(new, "chunk") PROVE q.embedded
    <3>1. PICK r \in old.rows :
             Alike(q, r) /\ ((\E p \in Unembedded(old) : SameRow(p, r)) => q.embedded)
      BY <2>2 DEF Layer
    <3>2. r.layer = "chunk"
      BY <3>1 DEF Alike, Layer
    <3>3. r.embedded \/ r \in Unembedded(old)
      BY <3>2 DEF Unembedded, Layer
    <3>4. QED
      BY <3>1, <3>3 DEF SameRow, Alike
  <2>9. QED
    BY <1>11, <2>4, <2>7, <2>8 DEF Shape, AllEmbedded
<1>12. CASE /\ old.status \in {"indexed", "ready", "failed"} /\ new.status = old.status
            /\ Enriched(old, new)
  <2>1. Tidy(new)
    BY <1>12, EnrichedIsTidy DEF Shape
  <2>2. old.status # "failed" =>
           /\ Layer(new, "node") # {} /\ IdsOf(new, "chunk") # {}
           /\ AllEmbedded(new, "chunk")
    BY <1>12, EnrichedLayers DEF Shape
  <2>3. QED
    BY <1>12, <2>1, <2>2 DEF Shape
<1>13. CASE {old.status, new.status} = {"indexed", "ready"} /\ new.rows = old.rows
  <2>1. /\ old.status \in {"indexed", "ready"} /\ new.status \in {"indexed", "ready"}
    BY <1>13
  <2>2. Tidy(new)
    BY <1>4, <1>13 DEF Shape
  <2>3. /\ Layer(new, "node") # {} /\ IdsOf(new, "chunk") # {}
        /\ AllEmbedded(new, "chunk")
    BY <1>13, <2>1 DEF Shape, Layer, IdsOf, AllEmbedded
  <2>4. QED
    BY <2>1, <2>2, <2>3 DEF Shape
<1>14. QED
  BY <1>3, <1>5, <1>6, <1>7, <1>8, <1>9, <1>10, <1>11, <1>12, <1>13
     DEF Moves, Starts, Advances

(* A tidy document is emptied by the cleanup.                              *)
LEMMA NothingSurvives ==
    ASSUME NEW d, Tidy(doc[d]), NEW s, s.rows = doc[d].rows
    PROVE  Survivors(d, s) = {}
<1> SUFFICES ASSUME NEW r \in Survivors(d, s) PROVE FALSE
  OBVIOUS
<1>1. \A layer : Layer(s, layer) = Layer(doc[d], layer)
  BY DEF Layer
<1>2. \A layer : IdsOf(s, layer) = IdsOf(doc[d], layer)
  BY <1>1 DEF IdsOf
<1>3. /\ r \in doc[d].rows /\ r.layer \in {"section", "document", "edge"}
      /\ r.layer = "edge" => r.of \cap IdsOf(s, "proposition") = {}
      /\ r.layer = "section" => r.id \notin IdsOf(s, "chunk")
      /\ r.layer = "document" => Layer(s, "document") = {}
  BY DEF Survivors
<1>4. CASE r.layer = "edge"
  BY <1>2, <1>3, <1>4 DEF Tidy
<1>5. CASE r.layer = "section"
  BY <1>2, <1>3, <1>5 DEF Tidy
<1>6. CASE r.layer = "document"
  BY <1>3, <1>6 DEF Layer
<1>7. QED
  BY <1>3, <1>4, <1>5, <1>6

-----------------------------------------------------------------------------
(***************************************************************************)
(* Handlers.  With one worker and no reset of a document under it, what a  *)
(* handler read at its start is still so when it commits.                  *)
(***************************************************************************)
HeldRuns ==
    \A w \in Workers : pc[w] \in {"execute", "succeed", "fail"}
        => jobs[cur[w]].status = "running"

SeenIsNow ==
    \A w \in Workers : seen[w].step # "unread" =>
        /\ Type(w) # "rebuild" => Mine(w).status # "absent"
        /\ \A d \in Docs :
              IF seen[w].doc[d].status = "absent"
              THEN doc[d].status \in {"absent", "registered"}
              ELSE /\ seen[w].doc[d].status = doc[d].status
                   /\ seen[w].doc[d].rows = doc[d].rows

Lifecycle ==
    /\ HeldRuns /\ SeenIsNow
    /\ \A d \in Docs : DocJobs(d) /\ Shape(doc[d])

(* What a handler knows of its document between its reads and its commit.  *)
LEMMA ReadIsNow ==
    ASSUME Known, Lifecycle, NEW w \in Workers,
           pc[w] = "execute", seen[w].step # "unread", Type(w) # "rebuild",
           NEW d, d = Target(w)
    PROVE  /\ d \in Docs /\ cur[w] \in RowsOf(d)
           /\ Live(cur[w]) /\ Since(d, cur[w])
           /\ Type(w) \in Reached(doc[d].status)
           /\ Type(w) \in PipelineTypes \ {"rebuild"}
           /\ doc[d] \in DocRow /\ doc[d].status # "absent" /\ Shape(doc[d])
           /\ DocJobs(d)
           /\ Mine(w).status = doc[d].status /\ Mine(w).rows = doc[d].rows
           /\ \A layer : /\ Layer(Mine(w), layer) = Layer(doc[d], layer)
                         /\ IdsOf(Mine(w), layer) = IdsOf(doc[d], layer)
           /\ Unembedded(Mine(w)) = Unembedded(doc[d])
<1>1. /\ d \in Docs /\ cur[w] \in Ids /\ Type(w) \in PipelineTypes \ {"rebuild"}
  BY HeldJob DEF Known
<1>2. cur[w] \in RowsOf(d)
  BY <1>1 DEF RowsOf, Target
<1>3. Live(cur[w])
  BY DEF Lifecycle, HeldRuns, Live
<1>4. DocJobs(d) /\ Shape(doc[d])
  BY <1>1 DEF Lifecycle
<1>5. Since(d, cur[w]) /\ Type(w) \in Reached(doc[d].status)
  BY <1>2, <1>3, <1>4 DEF DocJobs, Type
<1>6. doc[d] \in DocRow /\ doc[d].status # "absent"
  BY <1>1, <1>2, <1>4 DEF DocJobs, Known, DataOK
<1>7. Mine(w).status = doc[d].status /\ Mine(w).rows = doc[d].rows
  BY <1>1, <1>6 DEF Lifecycle, SeenIsNow, Mine
<1>8. \A layer : Layer(Mine(w), layer) = Layer(doc[d], layer)
  BY <1>7 DEF Layer
<1>9. /\ \A layer : IdsOf(Mine(w), layer) = IdsOf(doc[d], layer)
      /\ Unembedded(Mine(w)) = Unembedded(doc[d])
  BY <1>8 DEF IdsOf, Unembedded
<1>10. QED
  BY <1>1, <1>2, <1>3, <1>4, <1>5, <1>6, <1>7, <1>8, <1>9

(* Stages after EMBED run on documents that are INDEXED, READY or FAILED.  *)
LateTypes == {"extract", "embed_propositions", "summarize", "embed_summaries",
              "graph", "visual", "check"}

(* A job of such a stage tells how far its document has come.              *)
LEMMA LateStage ==
    ASSUME NEW status \in DocStatuses, NEW type \in LateTypes,
           type \in Reached(status)
    PROVE  status \in {"indexed", "ready", "failed"}
BY DEF DocStatuses, LateTypes, Reached

(* What a worker's step does to its document: commit or raise.             *)
Settles(w, d, row) ==
    /\ pc[w] = "execute" /\ seen[w].step # "unread" /\ Type(w) # "rebuild"
    /\ d = Target(w)
    /\ Forget(w)
    /\ doc' = [doc EXCEPT ![d] = row]

Commits(w, d, row) ==
    /\ Settles(w, d, row)
    /\ \E batch \in ProperBatches, types \in SUBSET (Reached(row.status) \ {"parse"}) :
          CommitWork(w, {}, batch) /\ Fresh(d, types, batch)

Raises(w, d, row) == Settles(w, d, row) /\ RaiseError(w)

(* A worker never registers a document, nor forgets a stage of it.         *)
LEMMA AdvancesOnward ==
    ASSUME NEW old, NEW new, Advances(old, new), old.status # "absent"
    PROVE  Onward(old.status, new.status) /\ new.status # "absent"
<1>1. CASE new.status = old.status
  BY <1>1 DEF Onward
<1>2. ASSUME old.status \in {"parsed", "registered", "normalized", "segmented"},
             new.status \in {"parsed", "normalized", "segmented", "indexed"},
             \/ old.status = "registered" /\ new.status = "parsed"
             \/ old.status = "parsed" /\ new.status = "normalized"
             \/ old.status = "normalized" /\ new.status = "segmented"
             \/ old.status = "segmented" /\ new.status = "indexed"
      PROVE  Onward(old.status, new.status) /\ new.status # "absent"
  BY <1>2 DEF Onward, Reached, PipelineTypes
<1>3. CASE new.status \in {"failed", "indexed", "ready"}
  <2>1. Reached(new.status) = PipelineTypes \ {"rebuild"}
    BY <1>3 DEF Reached
  <2>2. Reached(old.status) \subseteq PipelineTypes \ {"rebuild"}
    BY DEF Reached, PipelineTypes
  <2>3. QED
    BY <1>3, <2>1, <2>2 DEF Onward
<1>4. QED
  BY <1>1, <1>2, <1>3 DEF Advances

(* A cleaned-up document has just the new nodes.                           *)
LEMMA ReparsedRow ==
    ASSUME DataOK, NEW d \in Docs, Tidy(doc[d]), NEW s, s.rows = doc[d].rows,
           NEW status, NEW nodes
    PROVE  /\ Reparsed(d, s, status, nodes).status = status
           /\ Reparsed(d, s, status, nodes).rows = nodes
           /\ Reparsed(d, s, status, nodes).made = doc[d].made
           /\ Reparsed(d, s, status, nodes).points = doc[d].points
<1>1. Survivors(d, s) = {} /\ doc[d] \in DocRow
  BY NothingSurvives DEF DataOK
<1>2. Reparsed(d, s, status, nodes) = [doc[d] EXCEPT !.status = status, !.rows = nodes]
  BY <1>1 DEF Reparsed
<1>3. QED
  BY <1>1, <1>2 DEF DocRow

(* Rows written with EXCEPT.                                               *)
LEMMA RowWritten ==
    ASSUME NEW old \in DocRow, NEW status, NEW rows, NEW made
    PROVE  /\ LET row == [old EXCEPT !.status = status] IN
                 /\ row.status = status /\ row.rows = old.rows
                 /\ row.made = old.made /\ row.points = old.points
                 /\ row.missed = old.missed
           /\ LET row == [old EXCEPT !.rows = rows] IN
                 /\ row.status = old.status /\ row.rows = rows
                 /\ row.made = old.made /\ row.points = old.points
                 /\ row.missed = old.missed
           /\ LET row == [old EXCEPT !.status = status, !.rows = rows] IN
                 /\ row.status = status /\ row.rows = rows
                 /\ row.made = old.made /\ row.points = old.points
                 /\ row.missed = old.missed
           /\ LET row == [old EXCEPT !.made = made, !.rows = rows] IN
                 /\ row.status = old.status /\ row.rows = rows
                 /\ row.made = made /\ row.points = old.points
                 /\ row.missed = old.missed
           /\ LET row == [old EXCEPT !.status = status, !.made = made, !.rows = rows] IN
                 /\ row.status = status /\ row.rows = rows
                 /\ row.made = made /\ row.points = old.points
                 /\ row.missed = old.missed
BY DEF DocRow

(* The early stages move the document from status to status.               *)
LEMMA EarlyStages ==
    ASSUME Known, Lifecycle, NEW w \in Workers, NEW d, d = Target(w),
           Parse(w) \/ Normalize(w) \/ Segment(w) \/ Embed(w)
    PROVE  \E row : Advances(doc[d], row) /\ Commits(w, d, row)
<1>0. /\ pc[w] = "execute" /\ seen[w].step # "unread"
      /\ Type(w) \in {"parse", "normalize", "segment", "embed"} /\ Type(w) # "rebuild"
      /\ DataOK
  BY DEF Parse, Normalize, Segment, Embed, Turn, Known
<1>1. /\ d \in Docs /\ doc[d] \in DocRow /\ Shape(doc[d]) /\ DocJobs(d)
      /\ Mine(w).status = doc[d].status /\ Mine(w).rows = doc[d].rows
      /\ Layer(Mine(w), "node") = Layer(doc[d], "node")
      /\ Unembedded(Mine(w)) = Unembedded(doc[d])
  BY <1>0, ReadIsNow
<1>2. ASSUME NEW row, NEW type \in PipelineTypes \ {"rebuild", "parse"},
             Advances(doc[d], row), Commit(w, d, row, <<Job(type, d)>>),
             type \notin Reached(doc[d].status), type \in Reached(row.status)
      PROVE  \E r : Advances(doc[d], r) /\ Commits(w, d, r)
  <2>1. Fresh(d, {type}, <<Job(type, d)>>)
    BY <1>1, <1>2, NextStageIsFresh
  <2>2. <<Job(type, d)>> \in ProperBatches
    BY <1>1, ProperJob, SmallBatch
  <2>3. {type} \in SUBSET (Reached(row.status) \ {"parse"})
    BY <1>2
  <2>4. Settles(w, d, row)
    BY <1>0, <1>2 DEF Settles, Commit
  <2>5. CommitWork(w, {}, <<Job(type, d)>>)
    BY <1>2 DEF Commit
  <2>6. Commits(w, d, row)
    BY <2>1, <2>2, <2>3, <2>4, <2>5 DEF Commits
  <2>7. QED
    BY <1>2, <2>6
<1>3. CASE Parse(w)
  <2> DEFINE row == Reparsed(d, Mine(w), "parsed", {Node})
  <2>1. row.status = "parsed" /\ row.rows = {Node}
    BY <1>0, <1>1, ReparsedRow DEF Shape
  <2>2. doc[d].status = "registered" /\ Commit(w, d, row, <<Job("normalize", d)>>)
    BY <1>1, <1>3 DEF Parse, Node
  <2> HIDE DEF row
  <2>3. Advances(doc[d], row)
    BY <2>1, <2>2 DEF Advances
  <2>4. QED
    BY <1>2, <2>1, <2>2, <2>3 DEF Reached, PipelineTypes
<1>4. CASE Normalize(w)
  <2> DEFINE row == [doc[d] EXCEPT !.status = "normalized"]
  <2>1. row.status = "normalized" /\ row.rows = doc[d].rows
    BY <1>1, RowWritten
  <2>2. doc[d].status = "parsed" /\ Commit(w, d, row, <<Job("segment", d)>>)
    BY <1>1, <1>4 DEF Normalize
  <2> HIDE DEF row
  <2>3. Advances(doc[d], row)
    BY <2>1, <2>2 DEF Advances
  <2>4. QED
    BY <1>2, <2>1, <2>2, <2>3 DEF Reached, PipelineTypes
<1>5. CASE Segment(w)
  <2> DEFINE id == doc[d].made + 1
             chunks == IF HasText(d, Mine(w)) THEN {New("chunk", id, {})} ELSE {}
             rows == doc[d].rows \cup chunks
             row == [doc[d] EXCEPT !.status = "segmented", !.made = id, !.rows = rows]
  <2>1. row.status = "segmented" /\ row.rows = rows /\ row.made = id
    <3> HIDE DEF id, rows
    <3> QED
      BY <1>1, RowWritten
  <2>2. doc[d].status = "normalized" /\ Commit(w, d, row, <<Job("embed", d)>>)
    BY <1>1, <1>5 DEF Segment
  <2>3. rows \in {doc[d].rows, doc[d].rows \cup {New("chunk", row.made, {})}}
    BY <2>1
  <2> HIDE DEF row, rows
  <2>4. Advances(doc[d], row)
    BY <2>1, <2>2, <2>3 DEF Advances
  <2>5. QED
    BY <1>2, <2>1, <2>2, <2>4 DEF Reached, PipelineTypes
<1>6. CASE Embed(w)
  <2> DEFINE rows == MarkEmbedded(doc[d].rows, Unembedded(Mine(w)))
             row == [doc[d] EXCEPT !.status = "indexed", !.rows = rows]
  <2>1. row.status = "indexed" /\ row.rows = rows
    <3> HIDE DEF rows
    <3> QED
      BY <1>1, RowWritten
  <2>2. doc[d].status = "segmented" /\ Commit(w, d, row, <<Job("extract", d)>>)
    BY <1>1, <1>6 DEF Embed
  <2>3. rows = MarkEmbedded(doc[d].rows, Unembedded(doc[d])) /\ Layer(doc[d], "chunk") # {}
    BY <1>0, <1>1, <1>6 DEF Embed, NothingToDo, Turn, Layer
  <2> HIDE DEF row, rows
  <2>4. Advances(doc[d], row)
    BY <2>1, <2>2, <2>3 DEF Advances
  <2>5. QED
    BY <1>2, <2>1, <2>2, <2>4 DEF Reached, PipelineTypes
<1>7. QED
  BY <1>3, <1>4, <1>5, <1>6

(* The failures: the document is FAILED or as it was, the job raises.      *)
LEMMA FailingStages ==
    ASSUME Known, Lifecycle, NEW w \in Workers, NEW d, d = Target(w),
           Type(w) # "rebuild", ParseRefused(w) \/ Refuse(w) \/ Abort(w)
    PROVE  \E row : Advances(doc[d], row) /\ Raises(w, d, row)
<1>0. /\ pc[w] = "execute" /\ seen[w].step # "unread" /\ DataOK
      /\ doc \in [Docs -> DocRow]
  BY DEF ParseRefused, Refuse, Abort, Turn, Known, DataOK
<1>1. /\ d \in Docs /\ doc[d] \in DocRow /\ Shape(doc[d]) /\ doc[d].status # "absent"
      /\ Mine(w).rows = doc[d].rows
  BY <1>0, ReadIsNow
<1>2. ASSUME NEW row, doc' = [doc EXCEPT ![d] = row], Advances(doc[d], row),
             RaiseError(w), Forget(w)
      PROVE  \E r : Advances(doc[d], r) /\ Raises(w, d, r)
  BY <1>0, <1>2 DEF Raises, Settles
<1>3. ASSUME doc' = doc, RaiseError(w), Forget(w)
      PROVE  \E r : Advances(doc[d], r) /\ Raises(w, d, r)
  <2>1. doc' = [doc EXCEPT ![d] = doc[d]]
    BY <1>0, <1>1, <1>3
  <2>2. Advances(doc[d], doc[d])
    BY DEF Advances
  <2>3. QED
    BY <1>2, <1>3, <2>1, <2>2
<1>4. ASSUME NEW nodes, nodes \in {{}, {Node}}, RaiseError(w), Forget(w),
             doc' = [doc EXCEPT ![d] = Reparsed(d, Mine(w), "failed", nodes)]
      PROVE  \E r : Advances(doc[d], r) /\ Raises(w, d, r)
  <2> DEFINE row == Reparsed(d, Mine(w), "failed", nodes)
  <2>1. row.status = "failed" /\ row.rows = nodes
    BY <1>0, <1>1, ReparsedRow DEF Shape
  <2>2. doc' = [doc EXCEPT ![d] = row]
    BY <1>4
  <2> HIDE DEF row
  <2>3. Advances(doc[d], row)
    BY <1>1, <1>4, <2>1 DEF Advances
  <2>4. QED
    BY <1>2, <1>4, <2>2, <2>3
<1>5. CASE ParseRefused(w)
  BY <1>4, <1>5 DEF ParseRefused, Node
<1>6. CASE Refuse(w)
  BY <1>3, <1>6 DEF Refuse
<1>7. CASE Abort(w)
  <2>1. RaiseError(w) /\ Forget(w)
    BY <1>7 DEF Abort
  <2>2. \/ doc' = doc
        \/ doc' = [doc EXCEPT ![d].status = "failed"]
        \/ doc' = [doc EXCEPT ![d] = Reparsed(d, Mine(w), "failed", {})]
    BY <1>7 DEF Abort
  <2>3. CASE doc' = [doc EXCEPT ![d].status = "failed"]
    <3> DEFINE row == [doc[d] EXCEPT !.status = "failed"]
    <3>1. row.status = "failed" /\ row.rows = doc[d].rows
      BY <1>1, RowWritten
    <3>2. doc' = [doc EXCEPT ![d] = row]
      BY <2>3
    <3> HIDE DEF row
    <3>3. Advances(doc[d], row)
      BY <1>1, <3>1 DEF Advances
    <3>4. QED
      BY <1>2, <2>1, <3>2, <3>3
  <2>4. QED
    BY <1>3, <1>4, <2>1, <2>2, <2>3
<1>8. QED
  BY <1>5, <1>6, <1>7

(* Enrichment, handler by handler.                                         *)
LEMMA MarkedIsEnriched ==
    ASSUME NEW old \in DocRow, NEW new, NEW which,
           new.rows = MarkEmbedded(old.rows, which)
    PROVE  Enriched(old, new)
<1>1. old.rows \in SUBSET Artifact
  BY DEF DocRow
<1>2. QED
  BY <1>1, MarkedAreAlike DEF Enriched

(* Adding derived rows enriches a document.                                *)
LEMMA AddedIsEnriched ==
    ASSUME NEW old, NEW new, NEW added, new.rows = old.rows \cup added,
           \A q \in added : Derived(old, q)
    PROVE  Enriched(old, new)
BY DEF Enriched, Alike

(* So does upsert_scopes, with sections and the document summary.          *)
LEMMA SummarizedIsEnriched ==
    ASSUME NEW d, doc[d] \in DocRow, Tidy(doc[d]), NEW s, s.rows = doc[d].rows,
           NEW new, new.rows = Summarized(d, s)
    PROVE  Enriched(doc[d], new)
<1> DEFINE wanted == {New("section", c, {c}) : c \in IdsOf(s, "chunk")}
                     \cup {New("document", 0, IdsOf(s, "chunk"))}
           kept == {r \in doc[d].rows : \A q \in wanted : SameRow(q, r) => q.of = r.of}
<1>1. IdsOf(s, "chunk") = IdsOf(doc[d], "chunk")
  BY DEF IdsOf, Layer
<1>2. ASSUME NEW q \in wanted
      PROVE  \/ /\ q.layer = "section" /\ q.of = {q.id}
                /\ q.id \in IdsOf(doc[d], "chunk")
             \/ /\ q.layer = "document" /\ q.id = 0
                /\ q.of = IdsOf(doc[d], "chunk")
  BY <1>1, <1>2 DEF New
<1>3. kept = doc[d].rows
  <2> SUFFICES ASSUME NEW r \in doc[d].rows, NEW q \in wanted, SameRow(q, r)
               PROVE  q.of = r.of
    OBVIOUS
  <2> HIDE DEF wanted
  <2>1. q.layer = r.layer /\ q.id = r.id
    BY DEF SameRow
  <2>2. QED
    BY <1>2, <2>1 DEF Tidy
<1>4. Summarized(d, s) = kept \cup {q \in wanted : \A r \in kept : ~SameRow(q, r)}
  BY DEF Summarized
<1> DEFINE added == {q \in wanted : \A r \in doc[d].rows : ~SameRow(q, r)}
<1>5. new.rows = doc[d].rows \cup added
  <2> HIDE DEF wanted, kept
  <2> QED
    BY <1>3, <1>4
<1>6. ASSUME NEW q \in added PROVE Derived(doc[d], q)
  <2> HIDE DEF wanted
  <2>1. q \in wanted /\ \A r \in doc[d].rows : ~(q.layer = r.layer /\ q.id = r.id)
    BY DEF SameRow
  <2>2. CASE /\ q.layer = "section" /\ q.of = {q.id}
             /\ q.id \in IdsOf(doc[d], "chunk")
    <3>1. q.id \notin IdsOf(doc[d], "section")
      BY <2>1, <2>2 DEF IdsOf, Layer
    <3>2. QED
      BY <2>2, <3>1 DEF Derived
  <2>3. CASE q.layer = "document" /\ q.id = 0 /\ q.of = IdsOf(doc[d], "chunk")
    <3>1. \A r \in doc[d].rows : r.layer # "document"
      BY <2>1, <2>3 DEF Tidy
    <3>2. Layer(doc[d], "document") = {}
      BY <3>1 DEF Layer
    <3>3. QED
      BY <2>3, <3>2 DEF Derived
  <2>4. QED
    BY <1>2, <2>1, <2>2, <2>3
<1> HIDE DEF added
<1>7. QED
  BY <1>5, <1>6, AddedIsEnriched

(* So do BUILD_GRAPH and INDEX_VISUAL_PAGES, with edges and pages.         *)
LEMMA BuiltIsEnriched ==
    ASSUME NEW old \in DocRow, NEW s, s.rows = old.rows, NEW new,
           new.rows = old.rows \cup {New("edge", p, {p}) : p \in IdsOf(s, "proposition")}
    PROVE  Enriched(old, new)
<1> DEFINE added == {New("edge", p, {p}) : p \in IdsOf(s, "proposition")}
<1>1. IdsOf(s, "proposition") = IdsOf(old, "proposition")
  BY DEF IdsOf, Layer
<1>2. \A q \in added : Derived(old, q)
  BY <1>1 DEF Derived, New
<1>3. new.rows = old.rows \cup added
  OBVIOUS
<1> HIDE DEF added
<1>4. QED
  BY <1>2, <1>3, AddedIsEnriched

(* Follow-up jobs of the late stages.                                      *)
LEMMA LateCommit ==
    ASSUME Known, NEW w \in Workers, NEW d \in Docs, NEW row, NEW batch,
           Settles(w, d, row), NEW types \in SUBSET LateTypes,
           Few(3, batch), Fresh(d, types, batch), CommitWork(w, {}, batch),
           row.status \in {"indexed", "ready", "failed"}
    PROVE  Commits(w, d, row)
<1>1. batch \in ProperBatches
  BY FewIsProper
<1>2. Reached(row.status) = PipelineTypes \ {"rebuild"}
  BY DEF Reached
<1>3. LateTypes \subseteq (PipelineTypes \ {"rebuild"}) \ {"parse"}
  BY DEF LateTypes, PipelineTypes
<1>4. types \in SUBSET (Reached(row.status) \ {"parse"})
  BY <1>2, <1>3
<1>5. QED
  BY <1>1, <1>4 DEF Commits

(* ensure_pending queues one fresh job of its stage, or none.              *)
LEMMA EnsuredLate ==
    ASSUME NEW d \in Docs, NEW type \in LateTypes
    PROVE  /\ Few(3, Ensure(type, d)) /\ Fresh(d, {type}, Ensure(type, d))
           /\ {type} \in SUBSET LateTypes
<1>1. type \in PipelineTypes \ {"rebuild"}
  BY DEF LateTypes, PipelineTypes
<1>2. QED
  BY <1>1, EnsureIsFew, EnsureIsFresh DEF Few

(* The three jobs EXTRACT queues.                                          *)
LEMMA FanOutIsFresh ==
    ASSUME NEW d \in Docs
    PROVE  LET batch == Ensure("embed_propositions", d) \o Ensure("summarize", d)
                           \o Ensure("graph", d)
               types == {"embed_propositions", "summarize", "graph"}
           IN  Few(3, batch) /\ Fresh(d, types, batch) /\ types \in SUBSET LateTypes
<1> DEFINE a == Ensure("embed_propositions", d)
           b == Ensure("summarize", d)
           c == Ensure("graph", d)
<1>1. /\ Few(1, a) /\ Few(1, b) /\ Few(1, c)
      /\ Fresh(d, {"embed_propositions"}, a) /\ Fresh(d, {"summarize"}, b)
      /\ Fresh(d, {"graph"}, c)
  BY EnsureIsFew, EnsureIsFresh DEF PipelineTypes
<1> HIDE DEF a, b, c
<1>2. Few(1 + 1, a \o b) /\ Fresh(d, {"embed_propositions"} \cup {"summarize"}, a \o b)
  BY <1>1, FewConcat, FreshConcat
<1>3. Few((1 + 1) + 1, (a \o b) \o c)
  BY <1>1, <1>2, FewConcat
<1>4. Fresh(d, ({"embed_propositions"} \cup {"summarize"}) \cup {"graph"}, (a \o b) \o c)
  BY <1>1, <1>2, FreshConcat
<1>5. ({"embed_propositions"} \cup {"summarize"}) \cup {"graph"}
         = {"embed_propositions", "summarize", "graph"}
  OBVIOUS
<1>6. {"embed_propositions", "summarize", "graph"} \in SUBSET LateTypes
  BY DEF LateTypes
<1>7. Few(3, (a \o b) \o c)
  BY <1>3
<1>8. QED
  BY <1>4, <1>5, <1>6, <1>7 DEF a, b, c

(* The enrichment handlers and CHECK.                                      *)
LEMMA LateStages ==
    ASSUME Known, Lifecycle, NEW w \in Workers, NEW d, d = Target(w),
           \/ Extract(w) \/ EmbedPropositions(w) \/ GenerateSummaries(w)
           \/ EmbedSummaries(w) \/ BuildGraph(w) \/ IndexVisualPages(w)
           \/ CheckReadiness(w)
    PROVE  \E row : Advances(doc[d], row) /\ Commits(w, d, row)
<1>0. /\ pc[w] = "execute" /\ seen[w].step # "unread"
      /\ Type(w) \in LateTypes /\ Type(w) # "rebuild" /\ DataOK
  BY DEF Extract, EmbedPropositions, GenerateSummaries, EmbedSummaries, BuildGraph,
         IndexVisualPages, CheckReadiness, Turn, Known, LateTypes
<1>1. /\ d \in Docs /\ doc[d] \in DocRow /\ Shape(doc[d]) /\ DocJobs(d)
      /\ Mine(w).status = doc[d].status /\ Mine(w).rows = doc[d].rows
      /\ \A layer : /\ Layer(Mine(w), layer) = Layer(doc[d], layer)
                    /\ IdsOf(Mine(w), layer) = IdsOf(doc[d], layer)
      /\ Type(w) \in Reached(doc[d].status)
  BY <1>0, ReadIsNow
<1>2. doc[d].status \in {"indexed", "ready", "failed"}
  BY <1>0, <1>1, LateStage DEF DocRow
<1>3. ASSUME NEW row, NEW batch, NEW types \in SUBSET LateTypes,
             Commit(w, d, row, batch), Few(3, batch), Fresh(d, types, batch),
             Advances(doc[d], row), row.status \in {"indexed", "ready", "failed"}
      PROVE  \E r : Advances(doc[d], r) /\ Commits(w, d, r)
  <2>1. Settles(w, d, row) /\ CommitWork(w, {}, batch)
    BY <1>0, <1>3 DEF Settles, Commit
  <2>2. Commits(w, d, row)
    BY <1>1, <1>3, <2>1, LateCommit
  <2>3. QED
    BY <1>3, <2>2
<1>4. ASSUME NEW row, NEW rows, row = [doc[d] EXCEPT !.rows = rows],
             (row.status = doc[d].status /\ row.rows = rows) => Enriched(doc[d], row)
      PROVE  Advances(doc[d], row) /\ row.status \in {"indexed", "ready", "failed"}
  <2>1. row.status = doc[d].status /\ row.rows = rows
    BY <1>1, <1>4, RowWritten
  <2>2. QED
    BY <1>2, <1>4, <2>1 DEF Advances
<1>5. \A type \in LateTypes : /\ Few(3, Ensure(type, d))
                              /\ Fresh(d, {type}, Ensure(type, d))
                              /\ {type} \in SUBSET LateTypes
  BY <1>1, EnsuredLate
<1>6. CASE Extract(w)
  <2> DEFINE id == doc[d].made + 1
             added == {New("proposition", id, IdsOf(Mine(w), "chunk"))}
             rows == doc[d].rows \cup added
             fresh == [doc[d] EXCEPT !.made = id, !.rows = rows]
             row == IF Layer(Mine(w), "proposition") = {} THEN fresh ELSE doc[d]
             batch == Ensure("embed_propositions", d) \o Ensure("summarize", d)
                         \o Ensure("graph", d)
             types == {"embed_propositions", "summarize", "graph"}
  <2>1. Commit(w, d, row, batch)
    BY <1>6 DEF Extract
  <2>2. Few(3, batch) /\ Fresh(d, types, batch) /\ types \in SUBSET LateTypes
    BY <1>1, FanOutIsFresh
  <2>3. fresh.status = doc[d].status /\ fresh.rows = rows
    <3> HIDE DEF id, rows
    <3> QED
      BY <1>1, RowWritten
  <2>4. Advances(doc[d], row) /\ row.status \in {"indexed", "ready", "failed"}
    <3>1. CASE Layer(Mine(w), "proposition") = {}
      <4>1. \A q \in added : Derived(doc[d], q)
        BY <1>1, <3>1 DEF Derived, New
      <4>2. Enriched(doc[d], fresh)
        <5> HIDE DEF added, fresh
        <5> QED
          BY <2>3, <4>1, AddedIsEnriched
      <4>3. row = fresh
        BY <3>1
      <4> HIDE DEF row, fresh
      <4>4. QED
        BY <1>2, <2>3, <4>2, <4>3 DEF Advances
    <3>2. CASE Layer(Mine(w), "proposition") # {}
      <4>1. row = doc[d]
        BY <3>2
      <4> HIDE DEF row
      <4>2. QED
        BY <1>2, <4>1 DEF Advances
    <3>3. QED
      BY <3>1, <3>2
  <2> HIDE DEF row, batch, types
  <2>5. QED
    BY <1>3, <2>1, <2>2, <2>4
<1>7. CASE EmbedPropositions(w)
  <2> DEFINE rows == MarkEmbedded(doc[d].rows, Layer(Mine(w), "proposition"))
             row == [doc[d] EXCEPT !.rows = rows]
  <2>1. Commit(w, d, row, Ensure("check", d))
    BY <1>7 DEF EmbedPropositions
  <2>2. row.rows = rows => Enriched(doc[d], row)
    <3> HIDE DEF row
    <3> QED
      BY <1>1, MarkedIsEnriched
  <2> HIDE DEF rows
  <2>3. Advances(doc[d], row) /\ row.status \in {"indexed", "ready", "failed"}
    BY <1>4, <2>2
  <2> HIDE DEF row
  <2>4. QED
    BY <1>3, <1>5, <2>1, <2>3 DEF LateTypes
<1>8. CASE GenerateSummaries(w)
  <2> DEFINE rows == Summarized(d, Mine(w))
             row == [doc[d] EXCEPT !.rows = rows]
  <2>1. Commit(w, d, row, Ensure("embed_summaries", d))
    BY <1>8 DEF GenerateSummaries
  <2>2. row.rows = rows => Enriched(doc[d], row)
    <3> HIDE DEF row
    <3> QED
      BY <1>1, SummarizedIsEnriched DEF Shape
  <2> HIDE DEF rows
  <2>3. Advances(doc[d], row) /\ row.status \in {"indexed", "ready", "failed"}
    BY <1>4, <2>2
  <2> HIDE DEF row
  <2>4. QED
    BY <1>3, <1>5, <2>1, <2>3 DEF LateTypes
<1>9. CASE EmbedSummaries(w)
  <2> DEFINE chosen == {r \in Layer(Mine(w), "section") : r.id \in payload[cur[w]]}
                       \cup Layer(Mine(w), "document")
             rows == MarkEmbedded(doc[d].rows, chosen)
             row == [doc[d] EXCEPT !.rows = rows]
  <2>1. Commit(w, d, row, Ensure("check", d))
    BY <1>9 DEF EmbedSummaries
  <2>2. row.rows = rows => Enriched(doc[d], row)
    <3> HIDE DEF row, chosen
    <3> QED
      BY <1>1, MarkedIsEnriched
  <2> HIDE DEF rows
  <2>3. Advances(doc[d], row) /\ row.status \in {"indexed", "ready", "failed"}
    BY <1>4, <2>2
  <2> HIDE DEF row
  <2>4. QED
    BY <1>3, <1>5, <2>1, <2>3 DEF LateTypes
<1>10. CASE BuildGraph(w)
  <2> DEFINE edges == {New("edge", p, {p}) : p \in IdsOf(Mine(w), "proposition")}
             rows == doc[d].rows \cup edges
             row == [doc[d] EXCEPT !.rows = rows]
             type == IF Visual THEN "visual" ELSE "check"
  <2>1. Commit(w, d, row, Ensure(type, d)) /\ type \in LateTypes
    BY <1>10 DEF BuildGraph, LateTypes
  <2>2. row.rows = rows => Enriched(doc[d], row)
    <3> HIDE DEF row
    <3> QED
      BY <1>1, BuiltIsEnriched
  <2> HIDE DEF rows
  <2>3. Advances(doc[d], row) /\ row.status \in {"indexed", "ready", "failed"}
    BY <1>4, <2>2
  <2> HIDE DEF row, type
  <2>4. QED
    BY <1>3, <1>5, <2>1, <2>3
<1>11. CASE IndexVisualPages(w)
  <2> DEFINE pages == IF Layer(Mine(w), "node") = {} THEN {} ELSE {New("page", 0, {})}
             rows == doc[d].rows \cup pages
             row == [doc[d] EXCEPT !.rows = rows]
  <2>1. Commit(w, d, row, Ensure("check", d))
    BY <1>11 DEF IndexVisualPages
  <2>2. \A q \in pages : Derived(doc[d], q)
    BY DEF Derived, New
  <2>3. row.rows = rows => Enriched(doc[d], row)
    <3> HIDE DEF row, pages
    <3> QED
      BY <2>2, AddedIsEnriched
  <2> HIDE DEF rows
  <2>4. Advances(doc[d], row) /\ row.status \in {"indexed", "ready", "failed"}
    BY <1>4, <2>3
  <2> HIDE DEF row
  <2>5. QED
    BY <1>3, <1>5, <2>1, <2>4 DEF LateTypes
<1>12. CASE CheckReadiness(w)
  <2> DEFINE status == Barrier(d, Mine(w), seen[w].ready)
             row == [doc[d] EXCEPT !.status = status]
  <2>1. Commit(w, d, row, <<>>)
    BY <1>12 DEF CheckReadiness
  <2>2. /\ status \in {"indexed", "ready", "failed"}
        /\ status = doc[d].status \/ {doc[d].status, status} = {"indexed", "ready"}
    BY <1>1, <1>2 DEF Barrier
  <2> HIDE DEF status
  <2>3. row.status = status /\ row.rows = doc[d].rows /\ row.made = doc[d].made
    BY <1>1, RowWritten
  <2> HIDE DEF row
  <2>4. Advances(doc[d], row)
    BY <2>2, <2>3 DEF Advances
  <2>5. Few(3, <<>>) /\ Fresh(d, {}, <<>>)
    BY EmptySeq DEF Few, Fresh
  <2>6. QED
    BY <1>3, <2>1, <2>2, <2>3, <2>4, <2>5
<1>13. QED
  BY <1>6, <1>7, <1>8, <1>9, <1>10, <1>11, <1>12

(* A handler with nothing to do commits nothing.                           *)
LEMMA SkippingStages ==
    ASSUME Known, Lifecycle, NEW w \in Workers, NEW d, d = Target(w), Skip(w)
    PROVE  Advances(doc[d], doc[d]) /\ Commits(w, d, doc[d])
<1>1. /\ pc[w] = "execute" /\ seen[w].step # "unread" /\ Type(w) # "rebuild"
      /\ Commit(w, d, doc[d], <<>>)
  BY DEF Skip, Turn, NothingToDo
<1>2. Settles(w, d, doc[d]) /\ CommitWork(w, {}, <<>>)
  BY <1>1 DEF Settles, Commit
<1>3. Fresh(d, {}, <<>>) /\ <<>> \in ProperBatches
  BY EmptySeq, SmallBatch DEF Fresh
<1>4. {} \in SUBSET (Reached(doc[d].status) \ {"parse"})
  OBVIOUS
<1>5. QED
  BY <1>2, <1>3, <1>4 DEF Advances, Commits

(* Every step of a handler but REBUILD moves its document along.           *)
LEMMA WorkerAdvances ==
    ASSUME Known, Lifecycle, NEW w \in Workers, Type(w) # "rebuild",
           Write(w) \/ Abort(w)
    PROVE  \E row : /\ Advances(doc[Target(w)], row)
                    /\ Commits(w, Target(w), row) \/ Raises(w, Target(w), row)
<1> DEFINE d == Target(w)
<1>1. ~Rebuild(w)
  BY DEF Rebuild, Turn
<1>2. CASE Parse(w) \/ Normalize(w) \/ Segment(w) \/ Embed(w)
  <2>1. PICK row : Advances(doc[d], row) /\ Commits(w, d, row)
    BY <1>2, EarlyStages
  <2>2. QED
    BY <2>1
<1>3. CASE ParseRefused(w) \/ Refuse(w) \/ Abort(w)
  <2>1. PICK row : Advances(doc[d], row) /\ Raises(w, d, row)
    BY <1>3, FailingStages
  <2>2. QED
    BY <2>1
<1>4. CASE \/ Extract(w) \/ EmbedPropositions(w) \/ GenerateSummaries(w)
           \/ EmbedSummaries(w) \/ BuildGraph(w) \/ IndexVisualPages(w)
           \/ CheckReadiness(w)
  <2>1. PICK row : Advances(doc[d], row) /\ Commits(w, d, row)
    BY <1>4, LateStages
  <2>2. QED
    BY <2>1
<1>5. CASE Skip(w)
  BY <1>5, SkippingStages
<1>6. QED
  BY <1>1, <1>2, <1>3, <1>4, <1>5 DEF Write

-----------------------------------------------------------------------------
(***************************************************************************)
(* The polling loop neither adds rows nor brings one back to life.         *)
(***************************************************************************)
SameTable ==
    /\ DOMAIN jobs' = DOMAIN jobs
    /\ \A j \in DOMAIN jobs :
          jobs'[j].kind = jobs[j].kind /\ (Live(j)' => Live(j))

(* Then each document has the jobs it had.                                 *)
LEMMA SameTableSameJobs ==
    ASSUME SameTable, NEW d
    PROVE  SameJobs(d)
BY DEF SameTable, SameJobs, RowsOf, Ids

(* What it requeues or retries was RUNNING: no finished row runs again.    *)
LEMMA LoopKeepsTable ==
    ASSUME Known, Exclusive, HeldRuns, NEW w \in Workers, Loop(w)
    PROVE  SameTable
<1> USE JobQueueAssumption
<1>0. /\ TypeOK /\ StaleRowsRun /\ jobs \in Seq(Row)
      /\ \A j \in DOMAIN jobs : jobs[j] \in Row
  <2>1. TypeOK /\ StaleRowsRun
    BY DEF Known, IInv
  <2>2. QED
    BY <2>1, LenProperties, ElementOfSeq DEF TypeOK
<1>1. CASE UNCHANGED jobs
  BY <1>1 DEF SameTable, Live
<1>2. CASE Claim(w)
  <2>1. jobs[cur[w]].status = "pending"
    BY <1>2 DEF Claim, Has
  <2>2. /\ DOMAIN jobs' = DOMAIN jobs
        /\ \A j \in DOMAIN jobs :
              jobs'[j] = IF j = cur[w] THEN [jobs[j] EXCEPT !.status = "running"]
                                       ELSE jobs[j]
    BY <1>0, <1>2, ClaimRows
  <2>3. \A j \in DOMAIN jobs : [jobs[j] EXCEPT !.status = "running"].kind = jobs[j].kind
    BY <1>0, RowWrites DEF Statuses
  <2>4. QED
    BY <2>1, <2>2, <2>3 DEF SameTable, Live
<1>3. CASE ClaimUnhandled(w)
  <2>1. jobs[cur[w]].status = "pending"
    BY <1>3 DEF ClaimUnhandled, Has
  <2>2. /\ DOMAIN jobs' = DOMAIN jobs
        /\ \A j \in DOMAIN jobs :
              jobs'[j] = IF j = cur[w] THEN Failed(jobs[j]) ELSE jobs[j]
    BY <1>0, <1>3, ClaimUnhandledRows
  <2>3. \A j \in DOMAIN jobs : Failed(jobs[j]).kind = jobs[j].kind
    BY <1>0 DEF Failed, Row
  <2>4. QED
    BY <2>1, <2>2, <2>3 DEF SameTable, Live
<1>4. CASE Succeed(w)
  <2>1. jobs[cur[w]].status = "running"
    BY <1>4 DEF Succeed, HeldRuns
  <2>2. /\ DOMAIN jobs' = DOMAIN jobs
        /\ \A j \in DOMAIN jobs :
              jobs'[j] = IF j = cur[w] /\ jobs[j].status # "deleted"
                         THEN [jobs[j] EXCEPT !.status = "succeeded"] ELSE jobs[j]
    BY <1>0, <1>4, SucceedRows
  <2>3. \A j \in DOMAIN jobs : [jobs[j] EXCEPT !.status = "succeeded"].kind = jobs[j].kind
    BY <1>0, RowWrites DEF Statuses
  <2>4. QED
    BY <2>1, <2>2, <2>3 DEF SameTable, Live
<1>5. CASE Fail(w)
  <2>1. jobs[cur[w]].status = "running"
    BY <1>5 DEF Fail, HeldRuns
  <2>2. /\ DOMAIN jobs' = DOMAIN jobs
        /\ \A j \in DOMAIN jobs :
              jobs'[j] = IF j = cur[w] /\ jobs[j].status # "deleted"
                         THEN Failed(jobs[j]) ELSE jobs[j]
    BY <1>0, <1>5, FailRows
  <2>3. \A j \in DOMAIN jobs : Failed(jobs[j]).kind = jobs[j].kind
    BY <1>0 DEF Failed, Row
  <2>4. QED
    BY <2>1, <2>2, <2>3 DEF SameTable, Live
<1>6. CASE RequeueStale(w)
  <2>1. \A j \in stale[w] : j \in DOMAIN jobs => jobs[j].status = "running"
    BY <1>0, <1>6 DEF RequeueStale, StaleRowsRun, Has
  <2>2. /\ DOMAIN jobs' = DOMAIN jobs
        /\ \A j \in DOMAIN jobs :
              jobs'[j] = IF j \in stale[w]
                         THEN [jobs[j] EXCEPT !.status = "pending"] ELSE jobs[j]
    BY <1>0, <1>6, RequeueRows
  <2>3. \A j \in DOMAIN jobs : [jobs[j] EXCEPT !.status = "pending"].kind = jobs[j].kind
    BY <1>0, RowWrites DEF Statuses
  <2>4. QED
    BY <2>1, <2>2, <2>3 DEF SameTable, Live
<1>7. QED
  BY <1>1, <1>2, <1>3, <1>4, <1>5, <1>6
     DEF Loop, ScanStale, RequeueRolledBack, Pick, Release, ClaimLost

(* A row that a worker holds is RUNNING until the worker settles it.       *)
LEMMA HeldRunsStep ==
    ASSUME Known, Exclusive, HeldRuns, QueueStep \/ UNCHANGED queueVars
    PROVE  HeldRuns'
<1> USE JobQueueAssumption
<1>0. /\ TypeOK /\ LockHeld /\ pc \in [Workers -> Steps] /\ cur \in [Workers -> Nat]
      /\ jobs \in Seq(Row)
  BY DEF Known, IInv, TypeOK
<1> DEFINE Holding == {"execute", "succeed", "fail"}
<1>1. \A v \in Workers : pc[v] \in Holding => cur[v] \in DOMAIN jobs
  BY <1>0 DEF TypeOK, Ids
<1>2. ASSUME \A v \in Workers : pc'[v] \in Holding => pc[v] \in Holding /\ cur'[v] = cur[v],
             \A j \in DOMAIN jobs :
                jobs[j].status = "running" => jobs'[j].status = "running"
      PROVE  HeldRuns'
  BY <1>1, <1>2 DEF HeldRuns
<1>3. ASSUME NEW w \in Workers, pc[w] # "down", pc'[w] \notin Holding,
             \A v \in Workers \ {w} : pc'[v] = pc[v]
      PROVE  HeldRuns'
  <2>1. \A v \in Workers : pc'[v] \notin Holding
    BY <1>0, <1>3 DEF LockHeld
  <2>2. QED
    BY <2>1 DEF HeldRuns
<1>4. ASSUME NEW dropped, NEW spared, NEW batch \in ProperBatches,
             jobs' = Transact(dropped, spared, batch)
      PROVE  \A j \in DOMAIN jobs :
                jobs[j].status = "running" => jobs'[j].status = "running"
  <2>1. \A j \in DOMAIN jobs :
           \/ jobs'[j] = jobs[j]
           \/ jobs[j].status = "pending"
              /\ jobs'[j] = [jobs[j] EXCEPT !.status = "deleted"]
    BY <1>0, <1>4, TransactRows DEF ProperBatches
  <2>2. QED
    BY <2>1
<1>5. ASSUME NEW w \in Workers, Start(w) PROVE HeldRuns'
  <2>1. /\ \A v \in Workers : pc'[v] \in Holding => pc[v] \in Holding /\ cur'[v] = cur[v]
        /\ jobs' = jobs
    BY <1>0, <1>5 DEF Start, Goto
  <2>2. QED
    BY <1>2, <2>1
<1>6. ASSUME NEW w \in Workers, Loop(w) PROVE HeldRuns'
  <2>1. pc[w] # "down" /\ \A v \in Workers \ {w} : pc'[v] = pc[v]
    BY <1>0, <1>6, LoopMoves
  <2>2. CASE ~Claim(w)
    <3>1. \E step \in {"scan", "pick", "requeue", "claim"} : pc' = [pc EXCEPT ![w] = step]
      BY <1>6, <2>2 DEF Loop, ScanStale, RequeueStale, RequeueRolledBack, Pick,
             ClaimLost, ClaimUnhandled, Succeed, Fail, Release, Goto
    <3>2. pc'[w] \notin Holding
      BY <1>0, <3>1
    <3>3. QED
      BY <1>3, <2>1, <3>2
  <2>3. CASE Claim(w)
    <3>1. \A v \in Workers \ {w} : pc'[v] \notin Holding
      BY <1>0, <2>1 DEF LockHeld
    <3>2. cur' = cur /\ cur[w] \in DOMAIN jobs
      BY <1>0, <2>3 DEF Claim, TypeOK, Ids
    <3>3. jobs'[cur[w]] = [jobs[cur[w]] EXCEPT !.status = "running"]
      BY <1>0, <2>3, <3>2, ClaimRows
    <3>4. jobs[cur[w]] \in Row
      BY <1>0, <3>2, LenProperties, ElementOfSeq
    <3>5. jobs'[cur[w]].status = "running"
      BY <3>3, <3>4, RowWrites DEF Statuses
    <3>6. QED
      BY <3>1, <3>2, <3>5 DEF HeldRuns
  <2>4. QED
    BY <2>2, <2>3
<1>7. ASSUME NEW w \in Workers, Fault(w) PROVE HeldRuns'
  <2>1. CASE SucceedNotCommitted(w)
    <3>1. /\ \A v \in Workers : pc'[v] \in Holding => pc[v] \in Holding /\ cur'[v] = cur[v]
          /\ jobs' = jobs
      BY <1>0, <2>1 DEF SucceedNotCommitted, Goto
    <3>2. QED
      BY <1>2, <3>1
  <2>2. CASE Crash(w) \/ FailNotCommitted(w)
    <3>1. /\ pc[w] # "down"
          /\ \E step \in {"down", "scan"} : pc' = [pc EXCEPT ![w] = step]
      BY <2>2 DEF Crash, FailNotCommitted, Release, Goto
    <3>2. pc'[w] \notin Holding /\ \A v \in Workers \ {w} : pc'[v] = pc[v]
      BY <1>0, <3>1
    <3>3. QED
      BY <1>3, <3>1, <3>2
  <2>3. QED
    BY <1>7, <2>1, <2>2 DEF Fault
<1>8. ASSUME NEW w \in Workers, RaiseError(w) PROVE HeldRuns'
  <2>1. /\ \A v \in Workers : pc'[v] \in Holding => pc[v] \in Holding /\ cur'[v] = cur[v]
        /\ jobs' = jobs
    BY <1>0, <1>8 DEF RaiseError, Goto
  <2>2. QED
    BY <1>2, <2>1
<1>9. ASSUME NEW w \in Workers, Acts(w) PROVE HeldRuns'
  <2>1. PICK dropped \in SUBSET Targets, batch \in ProperBatches :
           CommitWork(w, dropped, batch)
    BY <1>9 DEF Acts
  <2>2. /\ \A v \in Workers : pc'[v] \in Holding => pc[v] \in Holding /\ cur'[v] = cur[v]
        /\ jobs' = Transact(dropped, {cur[w]}, batch)
    BY <1>0, <2>1 DEF CommitWork, Goto
  <2>3. QED
    BY <1>2, <1>4, <2>2
<1>10. ASSUME NEW j \in Ids, Expire(j) \/ Outlive(j) PROVE HeldRuns'
  BY <1>2, <1>10 DEF Expire, Outlive
<1>11. CASE AsksFor
  <2>1. PICK dropped \in SUBSET Targets, batch \in ProperBatches : Request(dropped, batch)
    BY <1>11 DEF AsksFor
  <2>2. jobs' = Transact(dropped, {}, batch) /\ UNCHANGED <<pc, cur>>
    BY <2>1 DEF Request
  <2>3. QED
    BY <1>2, <1>4, <2>2
<1>12. CASE UNCHANGED queueVars
  BY <1>2, <1>12 DEF queueVars
<1>13. QED
  BY <1>5, <1>6, <1>7, <1>8, <1>9, <1>10, <1>11, <1>12 DEF QueueStep

-----------------------------------------------------------------------------
(***************************************************************************)
(* Every step keeps this picture and moves each document along its life.   *)
(***************************************************************************)
AllMove ==
    /\ \A d \in Docs : Moves(doc[d], doc'[d]) /\ DocJobs(d)'
    /\ SeenIsNow'

(* With one worker, whoever is not executing has read nothing.             *)
LEMMA OnlyReader ==
    ASSUME Known, Exclusive, NEW w \in Workers, pc[w] # "down"
    PROVE  \A v \in Workers \ {w} : pc[v] = "down" /\ seen[v].step = "unread"
BY DEF Known, IInv, LockHeld, SeenWhileExecuting

(* Where nobody has read anything nothing read is out of date.             *)
LEMMA NobodyHasRead ==
    ASSUME \A v \in Workers : seen'[v].step = "unread"
    PROVE  SeenIsNow'
BY DEF SeenIsNow

(* Steps that leave what handlers have read, and what they hold.           *)
LEMMA ReadingsKept ==
    ASSUME SeenIsNow,
           \A v \in Workers : seen'[v].step # "unread" =>
              /\ seen[v].step # "unread" /\ seen'[v].doc = seen[v].doc
              /\ Type(v)' = Type(v) /\ Target(v)' = Target(v),
           \A d \in Docs :
              \/ doc'[d].status = doc[d].status /\ doc'[d].rows = doc[d].rows
              \/ doc[d].status = "absent" /\ doc'[d].status = "registered"
    PROVE  SeenIsNow'
<1> SUFFICES ASSUME NEW v \in Workers, seen'[v].step # "unread"
             PROVE  /\ Type(v)' # "rebuild" => Mine(v)'.status # "absent"
                    /\ \A d \in Docs :
                          IF seen'[v].doc[d].status = "absent"
                          THEN doc'[d].status \in {"absent", "registered"}
                          ELSE /\ seen'[v].doc[d].status = doc'[d].status
                               /\ seen'[v].doc[d].rows = doc'[d].rows
  BY DEF SeenIsNow
<1>1. /\ seen[v].step # "unread" /\ seen'[v].doc = seen[v].doc
      /\ Type(v)' = Type(v) /\ Target(v)' = Target(v)
  OBVIOUS
<1>2. Mine(v)' = Mine(v)
  BY <1>1 DEF Mine
<1>3. Type(v) # "rebuild" => Mine(v).status # "absent"
  BY <1>1 DEF SeenIsNow
<1>4. ASSUME NEW d \in Docs
      PROVE  IF seen'[v].doc[d].status = "absent"
             THEN doc'[d].status \in {"absent", "registered"}
             ELSE /\ seen'[v].doc[d].status = doc'[d].status
                  /\ seen'[v].doc[d].rows = doc'[d].rows
  <2>1. IF seen[v].doc[d].status = "absent"
        THEN doc[d].status \in {"absent", "registered"}
        ELSE /\ seen[v].doc[d].status = doc[d].status
             /\ seen[v].doc[d].rows = doc[d].rows
    BY <1>1 DEF SeenIsNow
  <2>2. QED
    BY <1>1, <2>1
<1>5. QED
  BY <1>1, <1>2, <1>3, <1>4

(* Steps that touch no document.                                           *)
LEMMA StillDocuments ==
    ASSUME Lifecycle, \A d \in Docs : SameJobs(d),
           \A d \in Docs : /\ doc'[d].status = doc[d].status
                           /\ doc'[d].rows = doc[d].rows /\ doc'[d].made = doc[d].made
    PROVE  \A d \in Docs : Moves(doc[d], doc'[d]) /\ DocJobs(d)'
BY JobsKept DEF Lifecycle, Moves, Advances, Onward

(* A handler that is done with its document.                               *)
LEMMA SettledMoves ==
    ASSUME Known, Exclusive, Lifecycle, NEW w \in Workers, NEW d, NEW row,
           Advances(doc[d], row), Commits(w, d, row) \/ Raises(w, d, row)
    PROVE  AllMove
<1> USE JobQueueAssumption
<1>1. Settles(w, d, row) /\ pc[w] = "execute"
  BY DEF Commits, Raises, Settles
<1>2. /\ d \in Docs /\ DocJobs(d) /\ doc[d].status # "absent"
  BY <1>1, ReadIsNow DEF Settles
<1>3. /\ TypeOK /\ doc \in [Docs -> DocRow] /\ seen \in [Workers -> SeenType]
  BY DEF Known, DataOK
<1>4. doc'[d] = row /\ \A e \in Docs \ {d} : doc'[e] = doc[e]
  BY <1>1, <1>2, <1>3 DEF Settles
<1>5. Onward(doc[d].status, doc'[d].status) /\ doc'[d].status # "absent"
  BY <1>2, <1>4, AdvancesOnward
<1>6. ASSUME NEW e \in Docs \ {d}
      PROVE  Moves(doc[e], doc'[e]) /\ Onward(doc[e].status, doc'[e].status)
  BY <1>4, <1>6 DEF Moves, Advances, Onward
<1>7. SeenIsNow'
  <2>1. \A v \in Workers \ {w} : seen[v].step = "unread"
    BY <1>1, OnlyReader
  <2>2. \A v \in Workers : seen'[v].step = "unread"
    BY <1>1, <1>3, <2>1 DEF Settles, Forget
  <2>3. QED
    BY <2>2, NobodyHasRead
<1>8. Moves(doc[d], doc'[d])
  BY <1>4 DEF Moves
<1>9. CASE Commits(w, d, row)
  <2>1. PICK batch \in ProperBatches, types \in SUBSET (Reached(row.status) \ {"parse"}) :
           CommitWork(w, {}, batch) /\ Fresh(d, types, batch)
    BY <1>9 DEF Commits
  <2>2. jobs' = Transact({}, {cur[w]}, batch)
    BY <2>1 DEF CommitWork
  <2>3. types \subseteq Reached(doc'[d].status) \ {"parse"}
    BY <1>4
  <2>4. DocJobs(d)'
    BY <1>2, <1>3, <1>5, <2>1, <2>2, <2>3, FreshAdvance
  <2>5. \A i \in DOMAIN batch : batch[i].target = d
    BY <2>1 DEF Fresh
  <2>6. ASSUME NEW e \in Docs \ {d} PROVE DocJobs(e)'
    <3>1. SameJobs(e)
      BY <1>3, <2>2, <2>5, OthersKept
    <3>2. DocJobs(e)
      BY DEF Lifecycle
    <3>3. QED
      BY <1>6, <3>1, <3>2, JobsKept
  <2>7. QED
    BY <1>6, <1>7, <1>8, <2>4, <2>6 DEF AllMove
<1>10. CASE Raises(w, d, row)
  <2>1. SameTable
    BY <1>10 DEF Raises, RaiseError, SameTable, Live
  <2>2. ASSUME NEW e \in Docs PROVE DocJobs(e)'
    <3>1. SameJobs(e) /\ DocJobs(e)
      BY <2>1, SameTableSameJobs DEF Lifecycle
    <3>2. Onward(doc[e].status, doc'[e].status)
      BY <1>5, <1>6
    <3>3. QED
      BY <3>1, <3>2, JobsKept
  <2>3. QED
    BY <1>6, <1>7, <1>8, <2>2 DEF AllMove
<1>11. QED
  BY <1>9, <1>10

(* REBUILD starts every document it has listed anew.                       *)
LEMMA RebuildMoves ==
    ASSUME Known, Exclusive, Lifecycle, NEW w \in Workers, Rebuild(w)
    PROVE  /\ AllMove
           /\ \A d \in Docs : doc'[d].status \in {"absent", "registered"}
           /\ \A d \in Docs : doc[d].status \notin {"absent", "registered"}
                                 => doc'[d].status = "registered"
<1> USE JobQueueAssumption
<1>1. /\ pc[w] = "execute" /\ seen[w].step # "unread" /\ Type(w) = "rebuild"
      /\ doc' = Restarted(w) /\ Forget(w)
  BY DEF Rebuild, Turn
<1>2. /\ TypeOK /\ JobsFit /\ DataOK /\ RebuildIsAlone
      /\ doc \in [Docs -> DocRow] /\ seen \in [Workers -> SeenType]
  BY DEF Known, DataOK
<1>3. PICK batch \in ParseJobs(w) : jobs' = Transact(Obsolete(w), {cur[w]}, batch)
  BY DEF Rebuild, CommitWork
<1>4. PICK order \in Bijection(1..Cardinality(Listed(w)), Listed(w)) :
         batch = [i \in DOMAIN order |-> Job("parse", order[i])]
  BY <1>3 DEF ParseJobs
<1>5. batch \in ProperBatches /\ DOMAIN batch = DOMAIN order
  BY <1>3, <1>4, ParseJobsAreProper
<1>6. SeenIsNow'
  <2>1. \A v \in Workers \ {w} : seen[v].step = "unread"
    BY <1>1, OnlyReader
  <2>2. \A v \in Workers : seen'[v].step = "unread"
    BY <1>1, <1>2, <2>1 DEF Forget
  <2>3. QED
    BY <2>2, NobodyHasRead
<1>7. ASSUME NEW d \in Listed(w)
      PROVE  /\ doc[d].status # "absent" /\ doc'[d].status = "registered"
             /\ doc'[d].rows = {} /\ DocJobs(d)'
  <2>1. /\ d \in Docs /\ seen[w].doc[d].status # "absent"
        /\ seen[w].doc[d].status = doc[d].status
        /\ seen[w].doc[d].rows = doc[d].rows
    BY <1>1 DEF Listed, Lifecycle, SeenIsNow
  <2>2. doc'[d] = Reparsed(d, seen[w].doc[d], "registered", {})
    BY <1>1, <2>1 DEF Restarted
  <2>3. Tidy(doc[d])
    BY <2>1 DEF Lifecycle, Shape
  <2>4. doc'[d].status = "registered" /\ doc'[d].rows = {}
    BY <1>2, <2>1, <2>2, <2>3, ReparsedRow
  <2>5. PICK j \in DOMAIN jobs' :
           /\ jobs'[j].kind = Job("parse", d) /\ jobs'[j].status = "pending"
           /\ \A i \in DOMAIN jobs' :
                 jobs'[i].kind.target = d /\ i # j
                 => jobs'[i].status \notin {"pending", "running"}
    BY <1>2, RebuildCleans
  <2>6. DocJobs(d)'
    <3> DEFINE gone == Obsolete(w)
    <3> DEFINE held == {cur[w]}
    <3>0. jobs' = Transact(gone, held, batch) /\ TypeOK
      BY <1>2, <1>3
    <3> HIDE DEF gone, held
    <3>1. /\ RowsOf(d)' = RowsOf(d) \cup NewRows(d, batch)
          /\ \A n \in NewRows(d, batch) :
                /\ n \in Nat /\ \A i \in RowsOf(d) : i < n
                /\ \E i \in DOMAIN batch : /\ n = Len(jobs) + i
                                           /\ batch[i].target = d
                                           /\ jobs'[n].kind = batch[i]
                                           /\ jobs'[n].status = "pending"
          /\ \A i \in RowsOf(d) : i \in DOMAIN jobs' /\ jobs'[i].kind = jobs[i].kind
      <4>1. RowsOf(d)' = RowsOf(d) \cup NewRows(d, batch)
        BY <1>5, <3>0, Appends
      <4>2. \A n \in NewRows(d, batch) :
                /\ n \in Nat /\ \A i \in RowsOf(d) : i < n
                /\ \E i \in DOMAIN batch : /\ n = Len(jobs) + i
                                           /\ batch[i].target = d
                                           /\ jobs'[n].kind = batch[i]
                                           /\ jobs'[n].status = "pending"
        BY <1>5, <3>0, Appends
      <4>3. \A i \in RowsOf(d) : i \in DOMAIN jobs' /\ jobs'[i].kind = jobs[i].kind
        BY <1>5, <3>0, Appends
      <4>4. QED
        BY <4>1, <4>2, <4>3, Zenon
    <3>2. \E k \in DOMAIN order : order[k] = d
      BY <1>4 DEF Bijection, Surjection
    <3>3. PICK k \in DOMAIN order : order[k] = d
      BY <3>2
    <3>4. Len(jobs) + k \in NewRows(d, batch)
      BY <1>4, <1>5, <3>3 DEF NewRows, Job
    <3>5. \A n \in NewRows(d, batch) : n \in RowsOf(d)' /\ jobs'[n].status = "pending"
      BY <3>1
    <3>6. \A n \in NewRows(d, batch) : n = j
      BY <2>5, <3>5 DEF RowsOf, Ids
    <3>7. NewRows(d, batch) = {j}
      BY <3>4, <3>6
    <3>8. \A i \in RowsOf(d) : i # j
      BY <1>2, <3>1, <3>7, LenProperties DEF RowsOf, Ids, TypeOK
    <3>9. \A i \in RowsOf(d) : ~Live(i)'
      <4> SUFFICES ASSUME NEW i \in RowsOf(d) PROVE ~Live(i)'
        OBVIOUS
      <4>1. i \in DOMAIN jobs' /\ jobs'[i].kind.target = d /\ i # j
        BY <3>1, <3>8 DEF RowsOf
      <4>2. QED
        BY <2>5, <4>1 DEF Live
    <3>10. /\ j \in Nat /\ RowsOf(d)' = RowsOf(d) \cup {j}
           /\ \A i \in RowsOf(d) : i < j
      BY <3>1, <3>7
    <3>11. jobs'[j].kind.type = "parse"
      BY <2>5 DEF Job
    <3>12. doc'[d].status # "absent" /\ "parse" \in Reached(doc'[d].status)
      BY <2>4 DEF Reached
    <3>13. QED
      BY <1>2, <3>9, <3>10, <3>11, <3>12, JobsRestart
  <2>7. QED
    BY <2>1, <2>4, <2>6
<1>8. ASSUME NEW d \in Docs \ Listed(w)
      PROVE  /\ doc'[d] = doc[d] /\ DocJobs(d)'
             /\ doc[d].status \in {"absent", "registered"}
  <2>1. doc'[d] = doc[d]
    BY <1>1, <1>8 DEF Restarted
  <2>2. \A i \in DOMAIN batch : batch[i].target # d
    BY <1>4, <1>8 DEF Bijection, Injection, Job
  <2>3. SameJobs(d)
    BY <1>2, <1>3, <1>5, <2>2, OthersKept
  <2>4. DocJobs(d)'
    BY <2>1, <2>3, JobsKept DEF Lifecycle, Onward
  <2>5. doc[d].status \in {"absent", "registered"}
    BY <1>1, <1>8 DEF Listed, Lifecycle, SeenIsNow
  <2>6. QED
    BY <2>1, <2>4, <2>5
<1>9. \A d \in Docs : Starts(doc[d], doc'[d]) \/ doc'[d] = doc[d]
  BY <1>7, <1>8 DEF Starts
<1>10. \A d \in Docs : Moves(doc[d], doc'[d])
  BY <1>9 DEF Moves, Advances
<1>11. \A d \in Docs : doc'[d].status \in {"absent", "registered"}
  BY <1>7, <1>8
<1>12. QED
  BY <1>6, <1>7, <1>8, <1>10, <1>11 DEF AllMove

(* Steps that leave the documents alone and end every reading, or none.    *)
LEMMA QuietMoves ==
    ASSUME Lifecycle, SameTable, doc' = doc,
           \/ \A v \in Workers : seen'[v].step = "unread"
           \/ UNCHANGED <<seen, cur, jobs>>
    PROVE  AllMove
<1>1. \A d \in Docs : SameJobs(d)
  BY SameTableSameJobs
<1>2. \A d \in Docs : Moves(doc[d], doc'[d]) /\ DocJobs(d)'
  BY <1>1, StillDocuments
<1>3. CASE \A v \in Workers : seen'[v].step = "unread"
  BY <1>2, <1>3, NobodyHasRead DEF AllMove
<1>4. CASE UNCHANGED <<seen, cur, jobs>>
  <2>1. ASSUME NEW v \in Workers, seen'[v].step # "unread"
        PROVE  /\ seen[v].step # "unread" /\ seen'[v].doc = seen[v].doc
               /\ Type(v)' = Type(v) /\ Target(v)' = Target(v)
    BY <1>4, <2>1 DEF Type, Target
  <2>2. SeenIsNow'
    BY <2>1, ReadingsKept DEF Lifecycle
  <2>3. QED
    BY <1>2, <2>2 DEF AllMove
<1>5. QED
  BY <1>3, <1>4

(* A handler's first step: it reads what is there.                         *)
LEMMA BeginMoves ==
    ASSUME Known, Exclusive, Lifecycle, NEW w \in Workers, Begin(w)
    PROVE  AllMove
<1>0. /\ pc[w] = "execute" /\ UNCHANGED <<queueVars, doc>>
      /\ TypeOK /\ JobsFit /\ seen \in [Workers -> SeenType]
  BY DEF Begin, Known, DataOK
<1>1. SameTable
  BY <1>0 DEF SameTable, Live, queueVars
<1>2. \A d \in Docs : Moves(doc[d], doc'[d]) /\ DocJobs(d)'
  <2>1. \A d \in Docs : SameJobs(d)
    BY <1>1, SameTableSameJobs
  <2>2. QED
    BY <1>0, <2>1, StillDocuments
<1>3. \A v \in Workers \ {w} : seen'[v].step = "unread"
  BY <1>0, OnlyReader DEF Begin
<1>4. seen'[w].doc = doc
  BY <1>0 DEF Begin
<1>5. Type(w)' = Type(w) /\ Target(w)' = Target(w)
  BY <1>0 DEF Type, Target, queueVars
<1>6. Type(w) # "rebuild" => doc[Target(w)].status # "absent"
  <2>1. Type(w) # "rebuild" => Target(w) \in Docs /\ cur[w] \in RowsOf(Target(w))
    BY <1>0, HeldJob DEF RowsOf, Target
  <2>2. QED
    BY <2>1 DEF Lifecycle, DocJobs
<1>7. SeenIsNow'
  <2> SUFFICES ASSUME NEW v \in Workers, seen'[v].step # "unread"
               PROVE  /\ Type(v)' # "rebuild" => Mine(v)'.status # "absent"
                      /\ \A d \in Docs :
                            IF seen'[v].doc[d].status = "absent"
                            THEN doc'[d].status \in {"absent", "registered"}
                            ELSE /\ seen'[v].doc[d].status = doc'[d].status
                                 /\ seen'[v].doc[d].rows = doc'[d].rows
    BY DEF SeenIsNow
  <2>1. v = w
    BY <1>3
  <2>2. Type(w)' # "rebuild" => Mine(w)'.status # "absent"
    BY <1>4, <1>5, <1>6 DEF Mine
  <2>3. QED
    BY <1>0, <1>4, <2>1, <2>2
<1>8. QED
  BY <1>2, <1>7 DEF AllMove

(* A call to Qdrant changes points only.                                   *)
LEMMA CallMoves ==
    ASSUME Known, Exclusive, Lifecycle, NEW w \in Workers, UseQdrant(w)
    PROVE  AllMove
<1>0. /\ pc[w] = "execute" /\ UNCHANGED queueVars /\ seen[w].step = "read"
      /\ seen' = [seen EXCEPT ![w].step = "called"]
      /\ seen \in [Workers -> SeenType] /\ doc \in [Docs -> DocRow] /\ DataOK
      /\ CallOnly(w)
  BY CallTouchesPoints DEF CallOnly, Known, DataOK
<1>1. SameTable
  BY <1>0 DEF SameTable, Live, queueVars
<1>2. ASSUME NEW d \in Docs
      PROVE  /\ doc'[d].status = doc[d].status /\ doc'[d].rows = doc[d].rows
             /\ doc'[d].made = doc[d].made
  BY <1>0 DEF CallOnly
<1>3. \A d \in Docs : Moves(doc[d], doc'[d]) /\ DocJobs(d)'
  <2>1. \A d \in Docs : SameJobs(d)
    BY <1>1, SameTableSameJobs
  <2>2. QED
    BY <1>2, <2>1, StillDocuments
<1>4. ASSUME NEW v \in Workers, seen'[v].step # "unread"
      PROVE  /\ seen[v].step # "unread" /\ seen'[v].doc = seen[v].doc
             /\ Type(v)' = Type(v) /\ Target(v)' = Target(v)
  <2>1. seen[w] \in SeenRow
    BY <1>0, ReadIsTyped
  <2>2. seen'[w].doc = seen[w].doc
    BY <1>0, <2>1 DEF SeenRow
  <2>3. v # w => seen'[v] = seen[v]
    BY <1>0
  <2>4. Type(v)' = Type(v) /\ Target(v)' = Target(v)
    BY <1>0 DEF Type, Target, queueVars
  <2>5. QED
    BY <1>0, <1>4, <2>2, <2>3, <2>4
<1>5. SeenIsNow'
  BY <1>2, <1>4, ReadingsKept DEF Lifecycle
<1>6. QED
  BY <1>3, <1>5 DEF AllMove

(* Requests: a rebuild is queued, or a new document is registered.         *)
LEMMA AskMoves ==
    ASSUME Known, Exclusive, UploadsAndRebuilds, Lifecycle, Ask
    PROVE  AllMove
<1> USE JobQueueAssumption
<1>0. /\ TypeOK /\ JobsFit /\ doc \in [Docs -> DocRow] /\ SeenWhileExecuting
  BY DEF Known, DataOK
<1>1. ASSUME UNCHANGED <<seen, pc, cur>>,
             \A j \in Ids : j \in DOMAIN jobs' /\ jobs'[j].kind = jobs[j].kind
      PROVE  \A v \in Workers : seen'[v].step # "unread" =>
                /\ seen[v].step # "unread" /\ seen'[v].doc = seen[v].doc
                /\ Type(v)' = Type(v) /\ Target(v)' = Target(v)
  <2> SUFFICES ASSUME NEW v \in Workers, seen'[v].step # "unread"
               PROVE  /\ seen[v].step # "unread" /\ seen'[v].doc = seen[v].doc
                      /\ Type(v)' = Type(v) /\ Target(v)' = Target(v)
    OBVIOUS
  <2>1. seen[v].step # "unread" /\ pc[v] = "execute"
    BY <1>0, <1>1 DEF SeenWhileExecuting
  <2>2. cur[v] \in Ids
    BY <1>0, <2>1, HeldJob
  <2>3. QED
    BY <1>1, <2>1, <2>2 DEF Type, Target
<1>2. ASSUME NEW dropped, NEW batch \in ProperBatches, Request(dropped, batch)
      PROVE  /\ \A j \in Ids : j \in DOMAIN jobs' /\ jobs'[j].kind = jobs[j].kind
             /\ UNCHANGED <<pc, cur>>
  <2>1. jobs' = Transact(dropped, {}, batch)
    BY <1>2 DEF Request
  <2>2. ASSUME NEW j \in Ids
        PROVE  j \in DOMAIN jobs' /\ jobs'[j].kind = jobs[j].kind
    <3>1. j \in RowsOf(jobs[j].kind.target)
      BY DEF RowsOf
    <3>2. \A i \in RowsOf(jobs[j].kind.target) :
             i \in DOMAIN jobs' /\ jobs'[i].kind = jobs[i].kind
      BY <1>0, <2>1, Appends
    <3>3. QED
      BY <3>1, <3>2
  <2>3. QED
    BY <1>2, <2>2 DEF Request
<1>3. CASE RequestRebuild
  <2> DEFINE batch == <<Job("rebuild", Collection)>>
  <2>1. /\ batch \in ProperBatches
        /\ \A d \in Docs : \A i \in DOMAIN batch : batch[i].target # d
    BY SmallBatch, ProperJob, PipelineAssumption DEF Job
  <2>2. Request({}, batch) /\ UNCHANGED <<doc, seen>>
    BY <1>3 DEF RequestRebuild, Asked
  <2> HIDE DEF batch
  <2>3. jobs' = Transact({}, {}, batch)
    BY <2>2 DEF Request
  <2>4. \A d \in Docs : SameJobs(d)
    BY <1>0, <2>1, <2>3, OthersKept
  <2>5. \A d \in Docs : Moves(doc[d], doc'[d]) /\ DocJobs(d)'
    BY <2>2, <2>4, StillDocuments
  <2>6. SeenIsNow'
    BY <1>1, <1>2, <2>1, <2>2, ReadingsKept DEF Lifecycle
  <2>7. QED
    BY <2>5, <2>6 DEF AllMove
<1>4. ASSUME NEW d \in Docs, Register(d) PROVE AllMove
  <2> DEFINE batch == <<Job("parse", d)>>
  <2>1. doc[d].status = "absent"
    BY <1>4 DEF Register, Asked, UploadsAndRebuilds
  <2>2. /\ Request({d}, batch) /\ UNCHANGED seen
        /\ doc' = [doc EXCEPT ![d].status = "registered"]
    BY <1>4 DEF Register, Asked, SetStatus
  <2>3. /\ batch \in ProperBatches /\ DOMAIN batch = {1}
        /\ batch[1].target = d /\ batch[1].type = "parse"
    BY SmallBatch, ProperJob DEF Job, PipelineTypes
  <2> HIDE DEF batch
  <2>4. jobs' = Transact({d}, {}, batch)
    BY <2>2 DEF Request
  <2>5. doc'[d].status = "registered" /\ doc'[d].rows = doc[d].rows
    <3>1. doc[d] \in DocRow /\ doc'[d] = [doc[d] EXCEPT !.status = "registered"]
      BY <1>0, <2>2
    <3>2. QED
      BY <3>1 DEF DocRow
  <2>6. \A e \in Docs \ {d} : doc'[e] = doc[e]
    BY <1>0, <2>2
  <2>7. RowsOf(d) = {}
    BY <2>1 DEF Lifecycle, DocJobs
  <2>8. DocJobs(d)'
    <3>1. NewRows(d, batch) = {Len(jobs) + 1}
      BY <2>3 DEF NewRows
    <3>2. /\ RowsOf(d)' = {Len(jobs) + 1} /\ Len(jobs) + 1 \in Nat
          /\ jobs'[Len(jobs) + 1].kind.type = "parse"
      <4> DEFINE gone == {d}
                 held == {}
      <4>0. TypeOK /\ batch \in ProperBatches /\ jobs' = Transact(gone, held, batch)
        BY <1>0, <2>3, <2>4
      <4> HIDE DEF gone, held
      <4>1. RowsOf(d)' = RowsOf(d) \cup NewRows(d, batch)
        BY <4>0, Appends
      <4>2. \A n \in NewRows(d, batch) :
               /\ n \in Nat /\ \A i \in RowsOf(d) : i < n
               /\ \E i \in DOMAIN batch : /\ n = Len(jobs) + i
                                          /\ batch[i].target = d
                                          /\ jobs'[n].kind = batch[i]
                                          /\ jobs'[n].status = "pending"
        BY <4>0, Appends
      <4>3. QED
        BY <2>3, <2>7, <3>1, <4>1, <4>2
    <3>3. "parse" \in Reached(doc'[d].status) /\ doc'[d].status # "absent"
      BY <2>5 DEF Reached
    <3>4. QED
      BY <1>0, <2>7, <3>2, <3>3, JobsRestart
  <2>9. ASSUME NEW e \in Docs \ {d} PROVE DocJobs(e)'
    <3>1. SameJobs(e)
      BY <1>0, <2>3, <2>4, OthersKept
    <3>2. QED
      BY <2>6, <3>1, JobsKept DEF Lifecycle, Onward
  <2>10. \A e \in Docs : Moves(doc[e], doc'[e])
    BY <2>1, <2>5, <2>6 DEF Moves, Starts, Advances
  <2>11. SeenIsNow'
    <3>1. \A v \in Workers : seen'[v].step # "unread" =>
             /\ seen[v].step # "unread" /\ seen'[v].doc = seen[v].doc
             /\ Type(v)' = Type(v) /\ Target(v)' = Target(v)
      BY <1>1, <1>2, <2>2, <2>3
    <3>2. \A e \in Docs :
             \/ doc'[e].status = doc[e].status /\ doc'[e].rows = doc[e].rows
             \/ doc[e].status = "absent" /\ doc'[e].status = "registered"
      BY <2>1, <2>5, <2>6
    <3>3. QED
      BY <3>1, <3>2, ReadingsKept DEF Lifecycle
  <2>12. QED
    BY <2>8, <2>9, <2>10, <2>11 DEF AllMove
<1>5. ASSUME NEW d \in Docs, Resume(d) PROVE AllMove
  BY <1>5 DEF Resume, Asked, UploadsAndRebuilds
<1>6. QED
  BY <1>3, <1>4, <1>5 DEF Ask

(* The worker's own steps.                                                 *)
LEMMA WorkerMoves ==
    ASSUME Known, Exclusive, Lifecycle, NEW w \in Workers,
           Poll(w) \/ Work(w) \/ Break(w)
    PROVE  AllMove
<1>0. /\ TypeOK /\ JobsFit /\ SeenWhileExecuting /\ HeldRuns
      /\ seen \in [Workers -> SeenType]
  BY DEF Known, DataOK, Lifecycle
<1>1. ASSUME pc[w] # "down", Forget(w)
      PROVE  \A v \in Workers : seen'[v].step = "unread"
  <2>1. \A v \in Workers \ {w} : seen[v].step = "unread"
    BY <1>1, OnlyReader
  <2>2. QED
    BY <1>0, <1>1, <2>1 DEF Forget
<1>2. ASSUME pc[w] # "down", pc[w] # "execute", UNCHANGED seen
      PROVE  \A v \in Workers : seen'[v].step = "unread"
  BY <1>0, <1>2, OnlyReader DEF SeenWhileExecuting
<1>3. ASSUME UNCHANGED jobs PROVE SameTable
  BY <1>3 DEF SameTable, Live
<1>4. CASE Poll(w)
  <2>1. CASE Start(w)
    <3>1. \A v \in Workers : seen'[v].step = "unread"
      BY <1>0, <1>4, <2>1 DEF Poll, docVars, Start, SeenWhileExecuting
    <3>2. SameTable /\ doc' = doc
      BY <1>3, <1>4, <2>1 DEF Poll, docVars, Start
    <3>3. QED
      BY <3>1, <3>2, QuietMoves
  <2>2. CASE Loop(w)
    <3>1. pc[w] # "down" /\ pc[w] # "execute" /\ UNCHANGED seen /\ doc' = doc
      BY <1>0, <1>4, <2>2, LoopMoves DEF Poll, docVars
    <3>2. SameTable
      BY <1>0, <2>2, LoopKeepsTable
    <3>3. QED
      BY <1>2, <3>1, <3>2, QuietMoves
  <2>3. QED
    BY <1>4, <2>1, <2>2 DEF Poll
<1>5. CASE Begin(w)
  BY <1>5, BeginMoves
<1>6. CASE UseQdrant(w)
  BY <1>6, CallMoves
<1>7. CASE Type(w) # "rebuild" /\ (Write(w) \/ Abort(w))
  <2>1. PICK row : /\ Advances(doc[Target(w)], row)
                   /\ Commits(w, Target(w), row) \/ Raises(w, Target(w), row)
    BY <1>7, WorkerAdvances
  <2>2. QED
    BY <2>1, SettledMoves
<1>8. CASE Type(w) = "rebuild" /\ (Write(w) \/ Abort(w))
  <2>1. CASE Rebuild(w)
    BY <2>1, RebuildMoves
  <2>2. CASE Refuse(w) \/ Abort(w)
    <3>1. pc[w] = "execute" /\ Forget(w) /\ UNCHANGED jobs /\ doc' = doc
      BY <1>8, <2>2 DEF Refuse, Abort, RaiseError
    <3>2. QED
      BY <1>1, <1>3, <3>1, QuietMoves
  <2>3. Rebuild(w) \/ Refuse(w) \/ Abort(w)
    BY <1>8 DEF Write, Turn, Parse, ParseRefused, Normalize, Segment, Embed, Extract,
                EmbedPropositions, GenerateSummaries, EmbedSummaries, BuildGraph,
                IndexVisualPages, CheckReadiness, Skip, NothingToDo
  <2>4. QED
    BY <2>1, <2>2, <2>3
<1>9. CASE Crash(w) /\ Forget(w) /\ UNCHANGED <<doc, payload, errors, requests>>
  <2>1. pc[w] # "down" /\ Forget(w) /\ UNCHANGED jobs /\ doc' = doc
    BY <1>9 DEF Crash
  <2>2. QED
    BY <1>1, <1>3, <2>1, QuietMoves
<1>10. CASE (SucceedNotCommitted(w) \/ FailNotCommitted(w)) /\ UNCHANGED docVars
  <2>1. /\ pc[w] # "down" /\ pc[w] # "execute" /\ UNCHANGED <<seen, doc>>
        /\ UNCHANGED jobs
    BY <1>10 DEF SucceedNotCommitted, FailNotCommitted, docVars
  <2>2. QED
    BY <1>2, <1>3, <2>1, QuietMoves
<1>11. QED
  BY <1>4, <1>5, <1>6, <1>7, <1>8, <1>9, <1>10 DEF Work, Break

(* Each step of the pipeline keeps the picture.                            *)
LEMMA LifecycleStep ==
    ASSUME Known, Known', Exclusive, UploadsAndRebuilds, Lifecycle,
           [PipelineNext]_pipelineVars
    PROVE  AllMove /\ Lifecycle'
<1>0. /\ TypeOK /\ JobsFit /\ HeldRuns
  BY DEF Known, Lifecycle
<1>1. AllMove
  <2>1. CASE \E j \in Ids : (Expire(j) \/ Outlive(j)) /\ UNCHANGED docVars
    <3>1. UNCHANGED <<seen, cur, jobs>> /\ doc' = doc
      BY <2>1 DEF Expire, Outlive, docVars
    <3>2. SameTable
      BY <3>1 DEF SameTable, Live
    <3>3. QED
      BY <3>1, <3>2, QuietMoves
  <2>2. CASE UNCHANGED pipelineVars
    <3>1. UNCHANGED <<seen, cur, jobs>> /\ doc' = doc
      BY <2>2 DEF pipelineVars, queueVars, docVars
    <3>2. SameTable
      BY <3>1 DEF SameTable, Live
    <3>3. QED
      BY <3>1, <3>2, QuietMoves
  <2>3. QED
    BY <2>1, <2>2, WorkerMoves, AskMoves DEF PipelineNext
<1>2. QueueStep \/ UNCHANGED queueVars
  BY <1>0, PipelineQueueStep
<1>3. HeldRuns'
  BY <1>0, <1>2, HeldRunsStep
<1>4. \A d \in Docs : Shape(doc'[d])
  <2>1. doc \in [Docs -> DocRow] /\ doc' \in [Docs -> DocRow]
    BY DEF Known, DataOK
  <2>2. QED
    BY <1>1, <2>1, ShapeKept DEF AllMove, Lifecycle
<1>5. \A d \in Docs : Shape(doc[d])'
  BY <1>4 DEF Shape, Tidy, Layer, IdsOf, AllEmbedded
<1>6. QED
  BY <1>1, <1>3, <1>5 DEF AllMove, Lifecycle

-----------------------------------------------------------------------------
(* A document's jobs and rows, its status and what its handler has read    *)
(* agree at all times.                                                     *)
LEMMA LifecycleHolds ==
    ASSUME Exclusive, UploadsAndRebuilds
    PROVE  PipelineSpec => [](Known /\ Lifecycle)
<1>1. PipelineInit => Lifecycle
  <2> SUFFICES ASSUME PipelineInit PROVE Lifecycle
    OBVIOUS
  <2>1. HeldRuns /\ SeenIsNow
    BY DEF PipelineInit, Init, HeldRuns, SeenIsNow
  <2>2. Ids = {}
    BY LenProperties DEF PipelineInit, Init, Ids
  <2>3. ASSUME NEW d \in Docs PROVE DocJobs(d) /\ Shape(doc[d])
    <3>1. doc[d].status = "absent" /\ doc[d].rows = {}
      BY DEF PipelineInit, NoDoc
    <3>2. QED
      BY <2>2, <3>1 DEF DocJobs, RowsOf, Shape, Tidy
  <2>4. QED
    BY <2>1, <2>3 DEF Lifecycle
<1>2. Known /\ Known' /\ Lifecycle /\ [PipelineNext]_pipelineVars => Lifecycle'
  BY LifecycleStep
<1>3. QED
  BY <1>1, <1>2, KnownHolds, PTL DEF PipelineSpec

(* OnePendingPerStage: with one worker, and no upload of a known file or   *)
(* resumption falling under a running handler, no crash, retry or rebuild  *)
(* makes NORMALIZE, SEGMENT, EMBED, EXTRACT or a later stage of a document *)
(* wait twice in the queue.                                                *)
THEOREM StagesAreQueuedOnce ==
    ASSUME Exclusive, UploadsAndRebuilds
    PROVE  PipelineSpec => []OnePendingPerStage
<1>1. Known /\ Lifecycle => OnePendingPerStage
  <2> SUFFICES ASSUME Known, Lifecycle,
                      NEW i \in Ids, NEW j \in Ids,
                      Has(i, "pending"), Has(j, "pending"),
                      jobs[i].kind = jobs[j].kind,
                      jobs[i].kind.type \notin {"parse", "rebuild"}
               PROVE  i = j
    BY DEF OnePendingPerStage
  <2> DEFINE d == jobs[i].kind.target
  <2>1. jobs[i].kind \in PipelineKind
    BY DEF Known, JobsFit
  <2>2. d \in Docs
    BY <2>1 DEF PipelineKind
  <2>3. i \in RowsOf(d) /\ j \in RowsOf(d) /\ Live(i) /\ Live(j)
    BY DEF RowsOf, Live, Has
  <2>4. QED
    BY <2>2, <2>3 DEF Lifecycle, DocJobs
<1>2. QED
  BY <1>1, LifecycleHolds, PTL

(* FollowsTable: the stored status of a document moves along               *)
(* VALID_TRANSITIONS or to FAILED, whatever fails and whenever a rebuild   *)
(* is asked for.                                                           *)
THEOREM StatusFollowsTable ==
    ASSUME Exclusive, UploadsAndRebuilds
    PROVE  PipelineSpec => [][FollowsTable]_pipelineVars
<1>1. Known /\ Known' /\ Lifecycle /\ [PipelineNext]_pipelineVars
      => [FollowsTable]_pipelineVars
  <2> SUFFICES ASSUME Known, Known', Lifecycle, [PipelineNext]_pipelineVars,
                      NEW d \in Docs,
                      doc'[d].status \notin {doc[d].status, "failed"}
               PROVE  doc'[d].status \in ValidTransitions[doc[d].status]
    BY DEF FollowsTable
  <2>1. Moves(doc[d], doc'[d])
    BY LifecycleStep DEF AllMove
  <2>2. doc[d].status \in DocStatuses
    BY DEF Known, DataOK, DocRow
  <2>3. QED
    BY <2>1, <2>2 DEF Moves, Starts, Advances, ValidTransitions, DocStatuses
<1>2. QED
  BY <1>1, LifecycleHolds, PTL DEF PipelineSpec

-----------------------------------------------------------------------------
(***************************************************************************)
(* Readiness.  A step leaves document d alone, or takes it out of the      *)
(* INDEXED and READY documents, or is the commit of a handler on it.       *)
(***************************************************************************)
Indexed(d) == doc[d].status \in {"indexed", "ready"}

Still(d) ==
    /\ doc'[d].status = doc[d].status /\ doc'[d].rows = doc[d].rows
    /\ SameJobs(d)
    /\ \A j \in RowsOf(d) : j \in committed' <=> j \in committed

(* A handler other than REBUILD commits its work on document d.            *)
Builds(w, d) ==
    /\ pc[w] = "execute" /\ seen[w].step # "unread" /\ Type(w) # "rebuild"
    /\ d = Target(w)
    /\ committed' = committed \cup {cur[w]}
    /\ \/ Parse(w) \/ Normalize(w) \/ Segment(w) \/ Embed(w) \/ Extract(w)
       \/ EmbedPropositions(w) \/ GenerateSummaries(w) \/ EmbedSummaries(w)
       \/ BuildGraph(w) \/ IndexVisualPages(w) \/ CheckReadiness(w) \/ Skip(w)

(* Such a handler advances its document and queues fresh jobs for it.      *)
LEMMA HandlerCommits ==
    ASSUME Known, Lifecycle, NEW w \in Workers, NEW d, Builds(w, d)
    PROVE  Advances(doc[d], doc'[d]) /\ Commits(w, d, doc'[d]) /\ d \in Docs
<1>1. d = Target(w) /\ pc[w] = "execute" /\ seen[w].step # "unread" /\ Type(w) # "rebuild"
  BY DEF Builds
<1>2. \E row : Advances(doc[d], row) /\ Commits(w, d, row)
  <2>1. CASE Parse(w) \/ Normalize(w) \/ Segment(w) \/ Embed(w)
    BY <1>1, <2>1, EarlyStages
  <2>2. CASE \/ Extract(w) \/ EmbedPropositions(w) \/ GenerateSummaries(w)
             \/ EmbedSummaries(w) \/ BuildGraph(w) \/ IndexVisualPages(w)
             \/ CheckReadiness(w)
    BY <1>1, <2>2, LateStages
  <2>3. CASE Skip(w)
    BY <1>1, <2>3, SkippingStages
  <2>4. QED
    BY <2>1, <2>2, <2>3 DEF Builds
<1>3. PICK row : Advances(doc[d], row) /\ Commits(w, d, row)
  BY <1>2
<1>4. TypeOK /\ doc \in [Docs -> DocRow] /\ d \in Docs
  BY <1>1, ReadIsNow DEF Known, DataOK
<1>5. doc'[d] = row
  BY <1>3, <1>4 DEF Commits, Settles
<1>6. QED
  BY <1>3, <1>4, <1>5

(* Writes are commits on one document, refusals, or REBUILD.               *)
LEMMA WriteBuilds ==
    ASSUME Known, NEW w \in Workers,
           Write(w), ~ParseRefused(w), ~Refuse(w), ~Rebuild(w)
    PROVE  Builds(w, Target(w)) /\ Target(w) \in Docs
<1>1. \/ Parse(w) \/ Normalize(w) \/ Segment(w) \/ Embed(w) \/ Extract(w)
      \/ EmbedPropositions(w) \/ GenerateSummaries(w) \/ EmbedSummaries(w)
      \/ BuildGraph(w) \/ IndexVisualPages(w) \/ CheckReadiness(w) \/ Skip(w)
  BY DEF Write
<1>2. PICK row, batch : Commit(w, Target(w), row, batch)
  BY <1>1 DEF Parse, Normalize, Segment, Embed, Extract, EmbedPropositions,
              GenerateSummaries, EmbedSummaries, BuildGraph, IndexVisualPages,
              CheckReadiness, Skip
<1>3. /\ pc[w] = "execute" /\ seen[w].step # "unread"
      /\ committed' = committed \cup {cur[w]} /\ Type(w) # "rebuild"
  BY <1>1, <1>2 DEF Commit, CommitWork, Parse, Normalize, Segment, Embed, Extract,
              EmbedPropositions, GenerateSummaries, EmbedSummaries, BuildGraph,
              IndexVisualPages, CheckReadiness, Skip, Turn, NothingToDo
<1>4. Target(w) \in Docs
  BY <1>3, HeldJob DEF Known
<1>5. QED
  BY <1>1, <1>3, <1>4 DEF Builds

(* It leaves every other target alone.                                     *)
LEMMA BuildsElsewhere ==
    ASSUME Known, Lifecycle, NEW w \in Workers, NEW e, Builds(w, e), NEW d, d # e
    PROVE  /\ SameJobs(d) /\ \A j \in RowsOf(d) : j \in committed' <=> j \in committed
           /\ d \in Docs => doc'[d] = doc[d]
<1>1. Commits(w, e, doc'[e]) /\ e \in Docs /\ e = Target(w)
  BY HandlerCommits DEF Builds
<1>2. PICK batch \in ProperBatches, types \in SUBSET (Reached(doc'[e].status) \ {"parse"}) :
         CommitWork(w, {}, batch) /\ Fresh(e, types, batch)
  BY <1>1 DEF Commits
<1>3. jobs' = Transact({}, {cur[w]}, batch) /\ \A i \in DOMAIN batch : batch[i].target # d
  BY <1>2 DEF CommitWork, Fresh
<1>4. SameJobs(d)
  BY <1>3, OthersKept DEF Known
<1>5. d \in Docs => doc'[d] = doc[d]
  BY <1>1 DEF Commits, Settles, Known, DataOK
<1>6. \A j \in RowsOf(d) : j # cur[w]
  BY <1>1 DEF RowsOf, Target
<1>7. QED
  BY <1>4, <1>5, <1>6 DEF Builds

(* The steps of the pipeline, seen from the jobs table: it keeps its rows, *)
(* a handler commits, a collection is rebuilt, or a request comes in.      *)
Unmoved(d) ==
    \/ doc'[d].status = doc[d].status /\ doc'[d].rows = doc[d].rows
    \/ doc'[d].status = "failed"

(* The steps of the pipeline, seen from the jobs table.                    *)
LEMMA TableSteps ==
    ASSUME Known, Exclusive, UploadsAndRebuilds, Lifecycle,
           [PipelineNext]_pipelineVars
    PROVE  \/ SameTable /\ UNCHANGED committed /\ \A d \in Docs : Unmoved(d)
           \/ \E w \in Workers, d \in Docs : Builds(w, d)
           \/ \E w \in Workers : Rebuild(w)
           \/ RequestRebuild \/ \E d \in Docs : Register(d)
<1> DEFINE Quiet == SameTable /\ UNCHANGED committed /\ \A d \in Docs : Unmoved(d)
<1>0. TypeOK /\ JobsFit /\ HeldRuns /\ doc \in [Docs -> DocRow]
  BY DEF Known, Lifecycle, DataOK
<1>1. ASSUME UNCHANGED jobs PROVE SameTable
  BY <1>1 DEF SameTable, Live
<1>2. ASSUME doc' = doc PROVE \A d \in Docs : Unmoved(d)
  BY <1>2 DEF Unmoved
<1>3. ASSUME NEW w \in Workers, Poll(w) PROVE Quiet
  <2>1. doc' = doc /\ (Start(w) \/ Loop(w))
    BY <1>3 DEF Poll, docVars
  <2>2. SameTable
    BY <1>0, <1>1, <2>1, LoopKeepsTable DEF Start
  <2>3. UNCHANGED committed
    BY <2>1 DEF Start, Loop, ScanStale, RequeueStale, RequeueRolledBack, Pick,
                ClaimLost, Claim, ClaimUnhandled, Succeed, Fail
  <2>4. QED
    BY <1>2, <2>1, <2>2, <2>3
<1>4. ASSUME NEW w \in Workers, Begin(w) PROVE Quiet
  BY <1>1, <1>2, <1>4 DEF Begin, queueVars
<1>5. ASSUME NEW w \in Workers, UseQdrant(w) PROVE Quiet
  <2>1. ASSUME NEW d \in Docs PROVE Unmoved(d)
    BY <1>0, <1>5, CallTouchesPoints DEF CallOnly, Unmoved
  <2>2. UNCHANGED <<jobs, committed>>
    BY <1>5 DEF UseQdrant, CallQdrant, MissQdrant, AtQdrant, queueVars
  <2>3. QED
    BY <1>1, <2>1, <2>2
<1>6. ASSUME NEW w \in Workers, ParseRefused(w) \/ Refuse(w) \/ Abort(w) PROVE Quiet
  <2>1. UNCHANGED <<jobs, committed>>
    BY <1>6 DEF ParseRefused, Refuse, Abort, RaiseError
  <2>2. CASE Type(w) = "rebuild" \/ doc' = doc
    <3>1. doc' = doc
      BY <1>6, <2>2 DEF ParseRefused, Refuse, Abort, Turn
    <3>2. QED
      BY <1>1, <1>2, <2>1, <3>1
  <2>3. CASE Type(w) # "rebuild" /\ doc' # doc
    <3>1. /\ pc[w] = "execute"
          /\ \/ doc' = [doc EXCEPT ![Target(w)] =
                          Reparsed(Target(w), Mine(w), "failed", {New("node", 0, {})})]
             \/ doc' = [doc EXCEPT ![Target(w)].status = "failed"]
             \/ doc' = [doc EXCEPT ![Target(w)] =
                          Reparsed(Target(w), Mine(w), "failed", {})]
      BY <1>6, <2>3 DEF ParseRefused, Refuse, Abort, Turn
    <3>2. Target(w) \in Docs
      BY <1>0, <2>3, <3>1, HeldJob
    <3>3. \A nodes : Reparsed(Target(w), Mine(w), "failed", nodes).status = "failed"
      BY <1>0, <3>2 DEF Reparsed, DocRow
    <3>4. [doc[Target(w)] EXCEPT !.status = "failed"].status = "failed"
      BY <1>0, <3>2 DEF DocRow
    <3>5. doc'[Target(w)].status = "failed" /\ \A e \in Docs \ {Target(w)} : doc'[e] = doc[e]
      BY <1>0, <3>1, <3>2, <3>3, <3>4
    <3>6. QED
      BY <1>1, <2>1, <3>5 DEF Unmoved
  <2>4. QED
    BY <2>2, <2>3
<1>7. ASSUME NEW w \in Workers, Write(w), ~ParseRefused(w), ~Refuse(w), ~Rebuild(w)
      PROVE  \E d \in Docs : Builds(w, d)
  BY <1>7, WriteBuilds
<1>8. ASSUME NEW w \in Workers, Break(w), ~Abort(w) PROVE Quiet
  <2>1. UNCHANGED <<jobs, committed>> /\ doc' = doc
    BY <1>8 DEF Break, Crash, SucceedNotCommitted, FailNotCommitted, docVars
  <2>2. QED
    BY <1>1, <1>2, <2>1
<1>9. ASSUME NEW j \in Ids, Expire(j) \/ Outlive(j), UNCHANGED docVars PROVE Quiet
  <2>1. UNCHANGED <<jobs, committed>> /\ doc' = doc
    BY <1>9 DEF Expire, Outlive, docVars
  <2>2. QED
    BY <1>1, <1>2, <2>1
<1>10. ASSUME UNCHANGED pipelineVars PROVE Quiet
  <2>1. UNCHANGED <<jobs, committed>> /\ doc' = doc
    BY <1>10 DEF pipelineVars, queueVars, docVars
  <2>2. QED
    BY <1>1, <1>2, <2>1
<1>11. ASSUME NEW d \in Docs, Resume(d) PROVE FALSE
  BY <1>11 DEF Resume, Asked, UploadsAndRebuilds
<1> DEFINE Built == \E w \in Workers, d \in Docs : Builds(w, d)
           Rebuilt == \E w \in Workers : Rebuild(w)
           Asks == RequestRebuild \/ \E d \in Docs : Register(d)
<1>12. ASSUME NEW w \in Workers, Poll(w) \/ Work(w) \/ Break(w)
       PROVE  Quiet \/ Built \/ Rebuilt
  <2> HIDE DEF Quiet
  <2>1. CASE Write(w)
    BY <1>6, <1>7, <2>1
  <2>2. QED
    BY <1>3, <1>4, <1>5, <1>6, <1>8, <1>12, <2>1 DEF Work, Break
<1>13. ASSUME Ask PROVE Asks
  BY <1>11, <1>13 DEF Ask
<1> HIDE DEF Quiet, Built, Rebuilt, Asks
<1>14. Quiet \/ Built \/ Rebuilt \/ Asks
  BY <1>9, <1>10, <1>12, <1>13 DEF PipelineNext
<1>15. QED
  BY <1>14 DEF Quiet, Built, Rebuilt, Asks

(* Requests add one job, of one target.                                    *)
LEMMA RegisterAdds ==
    ASSUME Known, UploadsAndRebuilds, Lifecycle, NEW e \in Docs, Register(e)
    PROVE  /\ doc[e].status = "absent" /\ doc'[e].status = "registered"
           /\ RowsOf(e) = {} /\ RowsOf(e)' = {Len(jobs) + 1} /\ UNCHANGED committed
           /\ \A d : d # e => SameJobs(d)
           /\ \A d \in Docs \ {e} : doc'[d] = doc[d]
<1> DEFINE batch == <<Job("parse", e)>>
           gone == {e}
           held == {}
<1>1. /\ Request(gone, batch) /\ doc' = [doc EXCEPT ![e].status = "registered"]
      /\ doc[e].status = "absent"
  BY DEF Register, SetStatus, Asked, UploadsAndRebuilds
<1>2. /\ batch \in ProperBatches /\ DOMAIN batch = {1} /\ batch[1].target = e
  BY SmallBatch, ProperJob DEF Job, PipelineTypes
<1>3. jobs' = Transact(gone, held, batch) /\ UNCHANGED committed
  BY <1>1 DEF Request
<1> HIDE DEF batch, gone, held
<1>4. TypeOK /\ doc \in [Docs -> DocRow]
  BY DEF Known, DataOK
<1>5. RowsOf(e) = {}
  BY <1>1 DEF Lifecycle, DocJobs
<1>6. RowsOf(e)' = RowsOf(e) \cup NewRows(e, batch)
  BY <1>2, <1>3, <1>4, Appends
<1>7. NewRows(e, batch) = {Len(jobs) + 1}
  BY <1>2 DEF NewRows
<1>8. \A d : d # e => SameJobs(d)
  BY <1>2, <1>3, <1>4, OthersKept
<1>9. doc'[e] = [doc[e] EXCEPT !.status = "registered"] /\ doc[e] \in DocRow
  BY <1>1, <1>4
<1>10. doc'[e].status = "registered"
  BY <1>9 DEF DocRow
<1>11. QED
  BY <1>1, <1>3, <1>4, <1>5, <1>6, <1>7, <1>8, <1>10

(* A rebuild request adds a job to no document.                            *)
LEMMA RebuildRequestAdds ==
    ASSUME Known, RequestRebuild, NEW d \in Docs
    PROVE  SameJobs(d) /\ doc' = doc /\ UNCHANGED committed
<1> DEFINE batch == <<Job("rebuild", Collection)>>
<1>1. /\ batch \in ProperBatches
      /\ \A i \in DOMAIN batch : batch[i].target # d
  BY SmallBatch, ProperJob, PipelineAssumption DEF Job
<1>2. Request({}, batch) /\ doc' = doc
  BY DEF RequestRebuild
<1> HIDE DEF batch
<1>3. SameJobs(d) /\ UNCHANGED committed
  BY <1>1, <1>2, OthersKept DEF Request, Known
<1>4. QED
  BY <1>2, <1>3

(* The same, seen from one document.                                       *)
LEMMA DocumentSteps ==
    ASSUME Known, Exclusive, UploadsAndRebuilds, Lifecycle,
           [PipelineNext]_pipelineVars, NEW d \in Docs
    PROVE  \/ Still(d) \/ \E w \in Workers : Builds(w, d)
           \/ doc'[d].status = "failed" /\ SameJobs(d) /\ UNCHANGED committed
           \/ /\ doc'[d].status \in {"absent", "registered"}
              /\ \/ \E w \in Workers : Rebuild(w)
                 \/ \E n : RowsOf(d)' = {n}
<1>1. CASE SameTable /\ UNCHANGED committed /\ \A e \in Docs : Unmoved(e)
  BY <1>1, SameTableSameJobs DEF Still, Unmoved
<1>2. ASSUME NEW w \in Workers, NEW e \in Docs, Builds(w, e), d # e PROVE Still(d)
  BY <1>2, BuildsElsewhere DEF Still
<1>3. ASSUME NEW w \in Workers, Rebuild(w)
      PROVE  doc'[d].status \in {"absent", "registered"}
  BY <1>3, RebuildMoves
<1>4. ASSUME NEW e \in Docs, Register(e)
      PROVE  \/ Still(d)
             \/ doc'[d].status = "registered" /\ RowsOf(d)' = {Len(jobs) + 1}
  <2>1. CASE d = e
    BY <1>4, <2>1, RegisterAdds
  <2>2. CASE d # e
    <3>1. SameJobs(d) /\ doc'[d] = doc[d] /\ committed' = committed
      BY <1>4, <2>2, RegisterAdds
    <3>2. QED
      BY <3>1 DEF Still
  <2>3. QED
    BY <2>1, <2>2
<1>5. CASE RequestRebuild
  BY <1>5, RebuildRequestAdds DEF Still
<1>6. QED
  BY <1>1, <1>2, <1>3, <1>4, <1>5, TableSteps

-----------------------------------------------------------------------------
(***************************************************************************)
(* What the committed jobs of the current generation have built.           *)
(***************************************************************************)
Layered(d, j) ==
    /\ jobs[j].kind.type = "graph" =>
          /\ Layer(doc[d], "proposition") # {}
          /\ j \in committed
             => IdsOf(doc[d], "proposition") \subseteq IdsOf(doc[d], "edge")
    /\ jobs[j].kind.type = "visual" /\ j \in committed => Layer(doc[d], "page") # {}

EmbedDone(d) ==
    \E j \in RowsOf(d) :
        jobs[j].kind.type = "embed" /\ Since(d, j) /\ j \in committed

Built(d) ==
    Indexed(d) => EmbedDone(d) /\ \A j \in RowsOf(d) : Since(d, j) => Layered(d, j)

(* Nothing happened to the document, nor to its jobs.                      *)
LEMMA BuiltStill ==
    ASSUME NEW d, Built(d), Still(d)
    PROVE  Built(d)'
<1>1. \A layer : /\ Layer(doc[d], layer)' = Layer(doc[d], layer)
                 /\ IdsOf(doc[d], layer)' = IdsOf(doc[d], layer)
  BY DEF Still, Layer, IdsOf
<1>2. \A j \in RowsOf(d) : /\ Since(d, j)' <=> Since(d, j)
                           /\ jobs'[j].kind = jobs[j].kind
                           /\ j \in committed' <=> j \in committed
  BY DEF Still, SameJobs, Since
<1>3. RowsOf(d)' = RowsOf(d) /\ (Indexed(d)' <=> Indexed(d))
  BY DEF Still, SameJobs, Indexed
<1>4. \A j \in RowsOf(d) : Layered(d, j) => Layered(d, j)'
  BY <1>1, <1>2 DEF Layered
<1>5. EmbedDone(d) => EmbedDone(d)'
  BY <1>2, <1>3 DEF EmbedDone
<1>6. QED
  BY <1>2, <1>3, <1>4, <1>5 DEF Built

(* The new jobs are of later stages: what is current stays current.        *)
Grows(d) ==
    /\ RowsOf(d) \subseteq RowsOf(d)'
    /\ \A j \in RowsOf(d) : jobs'[j].kind = jobs[j].kind
    /\ \A n \in RowsOf(d)' \ RowsOf(d) :
          /\ n \in Nat /\ \A j \in RowsOf(d) : j < n
          /\ jobs'[n].kind.type # "parse" /\ n \notin committed'

(* Growth leaves the generations of older jobs alone.                      *)
LEMMA GrowsKeepsSince ==
    ASSUME NEW d, Grows(d)
    PROVE  \A j \in RowsOf(d) : Since(d, j)' <=> Since(d, j)
BY DEF Grows, Since

(* Without new propositions the edges stay complete.                       *)
LEMMA EnrichedKeepsPropositions ==
    ASSUME NEW old, NEW new, Enriched(old, new), Layer(old, "proposition") # {}
    PROVE  IdsOf(new, "proposition") = IdsOf(old, "proposition")
<1>1. \A q \in Layer(new, "proposition") : \E r \in Layer(old, "proposition") : Alike(q, r)
  BY DEF Layer, Enriched, Derived, Alike
<1>2. IdsOf(old, "proposition") \subseteq IdsOf(new, "proposition")
  BY EnrichedLayers
<1>3. QED
  BY <1>1, <1>2 DEF IdsOf, Alike

(* A document that grows keeps what its jobs have built.                   *)
LEMMA BuiltGrows ==
    ASSUME NEW d, DocJobs(d), Built(d), Grows(d), Advances(doc[d], doc'[d]),
           Indexed(d)',
           \A j \in RowsOf(d) : j \in committed => j \in committed',
           doc[d].status = "segmented" =>
              \E j \in RowsOf(d) :
                 jobs[j].kind.type = "embed" /\ Since(d, j) /\ j \in committed',
           \A n \in RowsOf(d)' \ RowsOf(d) :
              jobs'[n].kind.type = "graph" => Layer(doc'[d], "proposition") # {},
           \A j \in RowsOf(d) : j \in committed' \ committed =>
              /\ jobs[j].kind.type = "graph"
                 => IdsOf(doc'[d], "proposition") \subseteq IdsOf(doc'[d], "edge")
              /\ jobs[j].kind.type = "visual" => Layer(doc'[d], "page") # {}
    PROVE  Built(d)'
<1>1. \A j \in RowsOf(d) : /\ Since(d, j)' <=> Since(d, j)
                           /\ jobs'[j].kind = jobs[j].kind /\ j \in RowsOf(d)'
  BY GrowsKeepsSince DEF Grows
<1>2. \/ doc[d].status = "segmented" /\ doc'[d].status = "indexed"
      \/ Indexed(d) /\ (doc'[d].rows = doc[d].rows \/ Enriched(doc[d], doc'[d]))
  BY DEF Indexed, Advances
<1>3. EmbedDone(d)'
  BY <1>1, <1>2 DEF EmbedDone, Built, Indexed
<1>4. ASSUME NEW n \in RowsOf(d)' \ RowsOf(d) PROVE Layered(d, n)'
  BY <1>4 DEF Layered, Grows
<1>5. ASSUME NEW j \in RowsOf(d), Since(d, j), doc[d].status = "segmented"
      PROVE  Layered(d, j)'
  <2>1. jobs[j].kind.type \notin {"graph", "visual"}
    BY <1>5 DEF DocJobs, Reached
  <2>2. QED
    BY <1>1, <2>1 DEF Layered
<1>6. ASSUME NEW j \in RowsOf(d), Since(d, j), Indexed(d)
      PROVE  Layered(d, j)'
  <2>1. Layered(d, j)
    BY <1>6 DEF Built
  <2>2. \/ \A layer : /\ Layer(doc'[d], layer) = Layer(doc[d], layer)
                      /\ IdsOf(doc'[d], layer) = IdsOf(doc[d], layer)
        \/ Enriched(doc[d], doc'[d])
    BY <1>2, <1>6 DEF Indexed, Layer, IdsOf
  <2>3. \A layer : Layer(doc[d], layer) # {} => Layer(doc'[d], layer) # {}
    BY <2>2, EnrichedLayers
  <2>4. IdsOf(doc[d], "edge") \subseteq IdsOf(doc'[d], "edge")
    BY <2>2, EnrichedLayers
  <2>5. Layer(doc[d], "proposition") # {}
        => IdsOf(doc'[d], "proposition") = IdsOf(doc[d], "proposition")
    BY <2>2, EnrichedKeepsPropositions
  <2>6. jobs'[j].kind.type = jobs[j].kind.type
    BY <1>1
  <2>7. jobs[j].kind.type = "graph" =>
           /\ Layer(doc'[d], "proposition") # {}
           /\ j \in committed' =>
                IdsOf(doc'[d], "proposition") \subseteq IdsOf(doc'[d], "edge")
    BY <2>1, <2>3, <2>4, <2>5 DEF Layered
  <2>8. jobs[j].kind.type = "visual" /\ j \in committed' => Layer(doc'[d], "page") # {}
    BY <2>1, <2>3 DEF Layered
  <2>9. QED
    BY <2>6, <2>7, <2>8 DEF Layered
<1>7. QED
  BY <1>1, <1>2, <1>3, <1>4, <1>5, <1>6 DEF Built

(* A handler's commit, seen from its document.                             *)
LEMMA CommitGrows ==
    ASSUME TypeOK, NEW w \in Workers, NEW d \in Docs, NEW row,
           Commits(w, d, row), doc \in [Docs -> DocRow]
    PROVE  /\ Grows(d) /\ doc'[d] = row /\ committed' = committed \cup {cur[w]}
           /\ \A n \in RowsOf(d)' \ RowsOf(d) : jobs'[n].status = "pending"
<1>1. PICK batch \in ProperBatches, types \in SUBSET (Reached(row.status) \ {"parse"}) :
         CommitWork(w, {}, batch) /\ Fresh(d, types, batch)
  BY DEF Commits
<1> DEFINE gone == {}
           held == {cur[w]}
<1>2. jobs' = Transact(gone, held, batch) /\ committed' = committed \cup {cur[w]}
  BY <1>1 DEF CommitWork
<1>3. pc[w] = "execute" /\ doc'[d] = row
  BY DEF Commits, Settles
<1> HIDE DEF gone, held
<1>4. RowsOf(d)' = RowsOf(d) \cup NewRows(d, batch)
  BY <1>2, Appends
<1>5. \A n \in NewRows(d, batch) :
         /\ n \in Nat /\ \A j \in RowsOf(d) : j < n
         /\ \E i \in DOMAIN batch : /\ n = Len(jobs) + i
                                    /\ batch[i].target = d
                                    /\ jobs'[n].kind = batch[i]
                                    /\ jobs'[n].status = "pending"
  BY <1>2, Appends
<1>6. \A j \in RowsOf(d) :
         /\ j \in DOMAIN jobs'
         /\ jobs'[j].kind = jobs[j].kind /\ (Live(j)' => Live(j))
         /\ \/ jobs'[j].status = jobs[j].status
            \/ jobs[j].status = "pending" /\ jobs'[j].status = "deleted"
         /\ d \in gone /\ j \notin held => jobs'[j].status # "pending"
  BY <1>2, Appends
<1>7. ASSUME NEW n \in NewRows(d, batch), n \in committed'
      PROVE  n \in RowsOf(d)
  <2>1. n \in Ids
    BY <1>2, <1>3, <1>7 DEF TypeOK
  <2>2. Len(jobs) \in Nat /\ Ids = 1..Len(jobs)
    BY LenProperties DEF TypeOK, Ids
  <2>3. \E i \in DOMAIN batch : n = Len(jobs) + i
    BY <1>5
  <2>4. \A i \in DOMAIN batch : i \in Nat /\ i > 0
    <3>1. batch \in Seq(PipelineKind)
      BY <1>1 DEF Fresh
    <3>2. QED
      BY <3>1, LenProperties
  <2>5. QED
    BY <2>1, <2>2, <2>3, <2>4
<1>8. \A n \in NewRows(d, batch) : jobs'[n].kind.type # "parse"
  BY <1>1, <1>5 DEF Fresh
<1>9. QED
  BY <1>2, <1>3, <1>4, <1>5, <1>6, <1>7, <1>8 DEF Grows

(* The jobs of a document grow with each commit on it.                     *)
LEMMA HandlerGrows ==
    ASSUME Known, Lifecycle, NEW w \in Workers, NEW d, Builds(w, d)
    PROVE  Grows(d)
BY HandlerCommits, CommitGrows DEF Known, DataOK

(* Only EXTRACT queues BUILD_GRAPH.                                        *)
LEMMA GraphFollowsExtract ==
    ASSUME Known, Lifecycle, NEW w \in Workers, NEW d, Builds(w, d), ~Extract(w)
    PROVE  \A n \in RowsOf(d)' \ RowsOf(d) : jobs'[n].kind.type # "graph"
<1>0. d \in Docs /\ TypeOK /\ Type(w) # "rebuild"
  BY ReadIsNow DEF Builds, Known
<1>1. ASSUME NEW batch \in ProperBatches, CommitWork(w, {}, batch),
             \A i \in DOMAIN batch : batch[i].type # "graph"
      PROVE  \A n \in RowsOf(d)' \ RowsOf(d) : jobs'[n].kind.type # "graph"
  <2> DEFINE gone == {}
             held == {cur[w]}
  <2>1. jobs' = Transact(gone, held, batch)
    BY <1>1 DEF CommitWork
  <2> HIDE DEF gone, held
  <2>2. RowsOf(d)' = RowsOf(d) \cup NewRows(d, batch)
    BY <1>0, <2>1, Appends
  <2>3. \A n \in NewRows(d, batch) :
           /\ n \in Nat /\ \A j \in RowsOf(d) : j < n
           /\ \E i \in DOMAIN batch : /\ n = Len(jobs) + i
                                      /\ batch[i].target = d
                                      /\ jobs'[n].kind = batch[i]
                                      /\ jobs'[n].status = "pending"
    BY <1>0, <2>1, Appends
  <2>4. QED
    BY <1>1, <2>2, <2>3
<1>2. \A type \in PipelineTypes \ {"rebuild", "graph"} :
         /\ <<Job(type, d)>> \in ProperBatches
         /\ \A i \in DOMAIN <<Job(type, d)>> : <<Job(type, d)>>[i].type # "graph"
  BY <1>0, SmallBatch, ProperJob DEF Job
<1>3. \A type \in PipelineTypes \ {"rebuild", "graph"} :
         /\ Ensure(type, d) \in ProperBatches
         /\ \A i \in DOMAIN Ensure(type, d) : Ensure(type, d)[i].type # "graph"
  BY <1>2, SmallBatch DEF Ensure
<1>4. \E type \in PipelineTypes \ {"rebuild", "graph"} :
         \/ CommitWork(w, {}, <<Job(type, d)>>)
         \/ CommitWork(w, {}, Ensure(type, d)) \/ CommitWork(w, {}, <<>>)
  BY DEF Builds, Commit, Parse, Normalize, Segment, Embed, EmbedPropositions,
         GenerateSummaries, EmbedSummaries, BuildGraph, IndexVisualPages,
         CheckReadiness, Skip, PipelineTypes
<1>5. PICK type \in PipelineTypes \ {"rebuild", "graph"} :
         \/ CommitWork(w, {}, <<Job(type, d)>>)
         \/ CommitWork(w, {}, Ensure(type, d)) \/ CommitWork(w, {}, <<>>)
  BY <1>4
<1>6. CASE CommitWork(w, {}, <<Job(type, d)>>)
  BY <1>1, <1>2, <1>6
<1>7. CASE CommitWork(w, {}, Ensure(type, d))
  BY <1>1, <1>3, <1>7
<1>8. CASE CommitWork(w, {}, <<>>)
  BY <1>1, <1>8, SmallBatch
<1>9. QED
  BY <1>5, <1>6, <1>7, <1>8

(* What the three handlers that Built speaks of write.                     *)
LEMMA LayersWritten ==
    ASSUME Known, Lifecycle, NEW w \in Workers, NEW d, Builds(w, d), Indexed(d)'
    PROVE  /\ doc[d].status \in {"segmented", "indexed", "ready"}
           /\ doc[d].status = "segmented" => Type(w) = "embed"
           /\ Extract(w) => Layer(doc'[d], "proposition") # {}
           /\ Type(w) = "graph"
              => IdsOf(doc'[d], "proposition") \subseteq IdsOf(doc'[d], "edge")
           /\ Type(w) = "visual" => Layer(doc'[d], "page") # {}
<1>0. /\ d = Target(w) /\ pc[w] = "execute" /\ seen[w].step # "unread"
      /\ Type(w) # "rebuild" /\ doc \in [Docs -> DocRow]
  BY DEF Builds, Known, DataOK
<1>1. /\ d \in Docs /\ doc[d] \in DocRow /\ Shape(doc[d])
      /\ Mine(w).status = doc[d].status
      /\ \A layer : /\ Layer(Mine(w), layer) = Layer(doc[d], layer)
                    /\ IdsOf(Mine(w), layer) = IdsOf(doc[d], layer)
      /\ Type(w) \in Reached(doc[d].status)
  BY <1>0, ReadIsNow
<1>2. Advances(doc[d], doc'[d])
  BY HandlerCommits
<1>3. doc[d].status \in {"segmented", "indexed", "ready"}
  BY <1>2 DEF Advances, Indexed
<1>4. ASSUME NEW row, NEW batch, Commit(w, d, row, batch)
      PROVE  doc'[d] = row
  BY <1>0, <1>1, <1>4 DEF Commit
<1>5. doc[d].status = "segmented" => Type(w) = "embed"
  <2> SUFFICES ASSUME doc[d].status = "segmented" PROVE Type(w) = "embed"
    OBVIOUS
  <2>1. Type(w) \in {"parse", "normalize", "segment", "embed"}
    BY <1>1 DEF Reached
  <2>2. Parse(w) \/ Normalize(w) \/ Segment(w) \/ Embed(w) \/ Skip(w)
    BY <2>1 DEF Builds, Extract, EmbedPropositions, GenerateSummaries, EmbedSummaries,
                BuildGraph, IndexVisualPages, CheckReadiness, Turn
  <2>3. ~Skip(w)
    BY <1>0, <1>4 DEF Skip, Indexed
  <2>4. QED
    BY <1>1, <2>2, <2>3 DEF Parse, Normalize, Segment, Embed, Turn
<1>6. ASSUME Extract(w) PROVE Layer(doc'[d], "proposition") # {}
  <2> DEFINE id == doc[d].made + 1
             new == New("proposition", id, IdsOf(Mine(w), "chunk"))
             fresh == [doc[d] EXCEPT !.made = id, !.rows = doc[d].rows \cup {new}]
  <2>1. doc'[d] = IF Layer(Mine(w), "proposition") = {} THEN fresh ELSE doc[d]
    BY <1>0, <1>4, <1>6 DEF Extract
  <2>2. CASE Layer(Mine(w), "proposition") = {}
    <3>1. new.layer = "proposition"
      BY DEF New
    <3>2. new \in doc'[d].rows
      BY <1>1, <2>1, <2>2, RowWritten
    <3>3. QED
      BY <3>1, <3>2 DEF Layer
  <2>3. CASE Layer(Mine(w), "proposition") # {}
    BY <1>1, <2>1, <2>3
  <2>4. QED
    BY <2>2, <2>3
<1>7. ASSUME Type(w) = "graph"
      PROVE  IdsOf(doc'[d], "proposition") \subseteq IdsOf(doc'[d], "edge")
  <2>1. BuildGraph(w)
    BY <1>7 DEF Builds, Parse, Normalize, Segment, Embed, Extract, EmbedPropositions,
                GenerateSummaries, EmbedSummaries, IndexVisualPages, CheckReadiness,
                Skip, NothingToDo, Turn
  <2> DEFINE edges == {New("edge", p, {p}) : p \in IdsOf(Mine(w), "proposition")}
             rows == doc[d].rows \cup edges
  <2>2. doc'[d] = [doc[d] EXCEPT !.rows = rows]
    BY <1>0, <1>4, <2>1 DEF BuildGraph
  <2>3. doc'[d].rows = rows
    BY <1>1, <2>2, RowWritten
  <2>4. \A q \in edges : q.layer = "edge"
    BY DEF New
  <2>5. Layer(doc'[d], "proposition") = Layer(doc[d], "proposition")
    BY <2>3, <2>4 DEF Layer
  <2>6. ASSUME NEW p \in IdsOf(doc'[d], "proposition")
        PROVE  p \in IdsOf(doc'[d], "edge")
    <3>1. p \in IdsOf(Mine(w), "proposition")
      BY <1>1, <2>5 DEF IdsOf
    <3>2. New("edge", p, {p}) \in doc'[d].rows
      BY <2>3, <3>1
    <3>3. New("edge", p, {p}).layer = "edge" /\ New("edge", p, {p}).id = p
      BY DEF New
    <3>4. QED
      BY <3>2, <3>3 DEF IdsOf, Layer
  <2>7. QED
    BY <2>6
<1>8. ASSUME Type(w) = "visual" PROVE Layer(doc'[d], "page") # {}
  <2>1. IndexVisualPages(w)
    BY <1>8 DEF Builds, Parse, Normalize, Segment, Embed, Extract, EmbedPropositions,
                GenerateSummaries, EmbedSummaries, BuildGraph, CheckReadiness,
                Skip, NothingToDo, Turn
  <2> DEFINE pages == IF Layer(Mine(w), "node") = {} THEN {} ELSE {New("page", 0, {})}
             rows == doc[d].rows \cup pages
  <2>2. doc'[d] = [doc[d] EXCEPT !.rows = rows]
    BY <1>0, <1>4, <2>1 DEF IndexVisualPages
  <2>3. doc'[d].rows = rows
    BY <1>1, <2>2, RowWritten
  <2>4. doc[d].status # "segmented"
    BY <1>5, <1>8
  <2>5. Layer(Mine(w), "node") # {}
    BY <1>1, <1>3, <2>4 DEF Shape
  <2>6. New("page", 0, {}) \in doc'[d].rows /\ New("page", 0, {}).layer = "page"
    BY <2>3, <2>5 DEF New
  <2>7. QED
    BY <2>6 DEF Layer
<1>9. QED
  BY <1>3, <1>5, <1>6, <1>7, <1>8

(* The layers follow the jobs that write them, in every step.              *)
LEMMA BuiltStep ==
    ASSUME Known, Exclusive, UploadsAndRebuilds, Lifecycle,
           [PipelineNext]_pipelineVars, NEW d \in Docs, Built(d)
    PROVE  Built(d)'
<1>1. CASE Still(d)
  BY <1>1, BuiltStill
<1>2. CASE ~Indexed(d)'
  BY <1>2 DEF Built
<1>3. ASSUME NEW w \in Workers, Builds(w, d), Indexed(d)' PROVE Built(d)'
  <2>1. DocJobs(d) /\ Advances(doc[d], doc'[d]) /\ Grows(d)
    BY <1>3, HandlerCommits, HandlerGrows DEF Lifecycle
  <2>2. /\ pc[w] = "execute" /\ seen[w].step # "unread" /\ Type(w) # "rebuild"
        /\ d = Target(w) /\ committed' = committed \cup {cur[w]}
    BY <1>3 DEF Builds
  <2>3. cur[w] \in RowsOf(d) /\ Since(d, cur[w]) /\ jobs[cur[w]].kind.type = Type(w)
    BY <2>2, ReadIsNow DEF Type
  <2>4. doc[d].status = "segmented" =>
           \E j \in RowsOf(d) :
              jobs[j].kind.type = "embed" /\ Since(d, j) /\ j \in committed'
    BY <1>3, <2>2, <2>3, LayersWritten
  <2>5. \A n \in RowsOf(d)' \ RowsOf(d) :
           jobs'[n].kind.type = "graph" => Layer(doc'[d], "proposition") # {}
    BY <1>3, LayersWritten, GraphFollowsExtract
  <2>6. \A j \in RowsOf(d) : j \in committed' \ committed =>
           /\ jobs[j].kind.type = "graph"
              => IdsOf(doc'[d], "proposition") \subseteq IdsOf(doc'[d], "edge")
           /\ jobs[j].kind.type = "visual" => Layer(doc'[d], "page") # {}
    <3> SUFFICES ASSUME NEW j \in RowsOf(d), j \in committed' \ committed
                 PROVE  /\ jobs[j].kind.type = "graph"
                           => IdsOf(doc'[d], "proposition") \subseteq IdsOf(doc'[d], "edge")
                        /\ jobs[j].kind.type = "visual" => Layer(doc'[d], "page") # {}
      OBVIOUS
    <3>1. j = cur[w]
      BY <2>2
    <3>2. QED
      BY <1>3, <2>3, <3>1, LayersWritten
  <2>7. QED
    BY <1>3, <2>1, <2>2, <2>4, <2>5, <2>6, BuiltGrows
<1>4. QED
  BY <1>1, <1>2, <1>3, DocumentSteps DEF Indexed

-----------------------------------------------------------------------------
(***************************************************************************)
(* The barrier's report.  It compares ids of succeeded jobs; what makes    *)
(* the comparison right is either that nothing was ever rebuilt, or that   *)
(* every job that has committed has also been reported as succeeded.       *)
(***************************************************************************)
CommittedIsDone ==
    MaxFaults = 0 => \A j \in committed :
        \/ jobs[j].status = "succeeded"
        \/ \E w \in Workers : cur[w] = j /\ pc[w] = "succeed"

(* A transaction on the table leaves what has succeeded.                   *)
LEMMA TransactKeepsOutcome ==
    ASSUME TypeOK, NEW dropped, NEW spared, NEW batch \in ProperBatches,
           jobs' = Transact(dropped, spared, batch), NEW j \in DOMAIN jobs,
           jobs[j].status = "succeeded"
    PROVE  jobs'[j].status = "succeeded"
<1> USE JobQueueAssumption
<1>1. /\ jobs \in Seq(Row) /\ DOMAIN jobs = 1..Len(jobs) /\ Len(jobs) \in Nat
      /\ \A i \in DOMAIN jobs : jobs[i] \in Row
  BY LenProperties, ElementOfSeq DEF TypeOK
<1>2. TransactEffect(dropped, spared, batch)
  BY <1>1, TransactTable DEF ProperBatches
<1>3. QED
  BY <1>2 DEF TransactEffect

(* Without faults a commit is reported before anything else happens.       *)
LEMMA CommittedIsDoneStep ==
    ASSUME Known, Exclusive, HeldRuns, CommittedIsDone,
           QueueStep \/ UNCHANGED queueVars
    PROVE  CommittedIsDone'
<1> USE JobQueueAssumption
<1>0. /\ TypeOK /\ StaleRowsRun /\ pc \in [Workers -> Steps] /\ cur \in [Workers -> Nat]
      /\ jobs \in Seq(Row) /\ committed \subseteq Ids /\ faults \in Nat
      /\ \A j \in DOMAIN jobs : jobs[j] \in Row
  <2>1. TypeOK /\ StaleRowsRun
    BY DEF Known, IInv
  <2>2. QED
    BY <2>1, ElementOfSeq, LenProperties DEF TypeOK
<1> SUFFICES ASSUME MaxFaults = 0, NEW j \in committed'
             PROVE  \/ jobs'[j].status = "succeeded"
                    \/ \E w \in Workers : cur'[w] = j /\ pc'[w] = "succeed"
  BY DEF CommittedIsDone
<1> DEFINE Done == \/ jobs'[j].status = "succeeded"
                   \/ \E w \in Workers : cur'[w] = j /\ pc'[w] = "succeed"
<1>1. j \in committed => \/ jobs[j].status = "succeeded"
                         \/ \E w \in Workers : cur[w] = j /\ pc[w] = "succeed"
  BY DEF CommittedIsDone
<1>2. j \in committed => j \in DOMAIN jobs
  BY <1>0 DEF Ids, TypeOK
<1>3. ASSUME UNCHANGED committed,
             jobs[j].status = "succeeded" => jobs'[j].status = "succeeded",
             \A w \in Workers : pc[w] = "succeed" => pc'[w] = pc[w] /\ cur'[w] = cur[w]
      PROVE  Done
  BY <1>1, <1>3
<1>4. ASSUME NEW w \in Workers, Start(w) PROVE Done
  <2>1. /\ UNCHANGED <<committed, jobs, cur>>
        /\ \A v \in Workers : pc[v] = "succeed" => pc'[v] = pc[v]
    BY <1>0, <1>4 DEF Start, Goto
  <2>2. QED
    BY <1>3, <2>1
<1>5. ASSUME NEW w \in Workers, Loop(w) PROVE Done
  <2>0. /\ UNCHANGED committed
        /\ \A v \in Workers \ {w} : pc'[v] = pc[v] /\ cur'[v] = cur[v]
    BY <1>0, <1>5 DEF Loop, ScanStale, RequeueStale, RequeueRolledBack, Pick, ClaimLost,
             Claim, ClaimUnhandled, Succeed, Fail, Release, Goto
  <2>1. CASE Succeed(w)
    <3>1. jobs[cur[w]].status = "running" /\ pc[w] = "succeed" /\ cur[w] \in DOMAIN jobs
      BY <1>0, <2>1 DEF Succeed, HeldRuns, TypeOK, Ids
    <3>2. /\ DOMAIN jobs' = DOMAIN jobs
          /\ \A i \in DOMAIN jobs :
                jobs'[i] = IF i = cur[w] /\ jobs[i].status # "deleted"
                           THEN [jobs[i] EXCEPT !.status = "succeeded"] ELSE jobs[i]
      BY <1>0, <2>1, SucceedRows
    <3>3. jobs'[cur[w]] = [jobs[cur[w]] EXCEPT !.status = "succeeded"]
      BY <3>1, <3>2
    <3>4. jobs'[cur[w]].status = "succeeded"
      BY <1>0, <3>1, <3>3, RowWrites DEF Statuses
    <3>5. CASE j = cur[w]
      BY <3>4, <3>5
    <3>6. CASE j # cur[w]
      <4>1. jobs'[j] = jobs[j]
        BY <1>2, <2>0, <3>2, <3>6
      <4>2. QED
        BY <1>1, <2>0, <3>6, <4>1
    <3>7. QED
      BY <3>5, <3>6
  <2>2. CASE ~Succeed(w)
    <3>1. pc[w] # "succeed"
      BY <1>5, <2>2 DEF Loop, ScanStale, RequeueStale, RequeueRolledBack, Pick, ClaimLost,
               Claim, ClaimUnhandled, Fail
    <3>2. j \in DOMAIN jobs /\ jobs[j].status = "succeeded"
          => jobs'[j].status = "succeeded"
      <4> SUFFICES ASSUME j \in DOMAIN jobs, jobs[j].status = "succeeded"
                   PROVE  jobs'[j] = jobs[j]
        OBVIOUS
      <4>1. CASE UNCHANGED jobs
        BY <4>1
      <4>2. CASE Claim(w)
        <5>1. jobs[cur[w]].status = "pending"
          BY <4>2 DEF Claim, Has
        <5>2. \A i \in DOMAIN jobs :
                 jobs'[i] = IF i = cur[w] THEN [jobs[i] EXCEPT !.status = "running"]
                                          ELSE jobs[i]
          BY <1>0, <4>2, ClaimRows
        <5>3. QED
          BY <5>1, <5>2
      <4>3. CASE ClaimUnhandled(w)
        <5>1. jobs[cur[w]].status = "pending"
          BY <4>3 DEF ClaimUnhandled, Has
        <5>2. \A i \in DOMAIN jobs :
                 jobs'[i] = IF i = cur[w] THEN Failed(jobs[i]) ELSE jobs[i]
          BY <1>0, <4>3, ClaimUnhandledRows
        <5>3. QED
          BY <5>1, <5>2
      <4>4. CASE Fail(w)
        <5>1. jobs[cur[w]].status = "running"
          BY <4>4 DEF Fail, HeldRuns
        <5>2. \A i \in DOMAIN jobs :
                 jobs'[i] = IF i = cur[w] /\ jobs[i].status # "deleted"
                            THEN Failed(jobs[i]) ELSE jobs[i]
          BY <1>0, <4>4, FailRows
        <5>3. QED
          BY <5>1, <5>2
      <4>5. CASE RequeueStale(w)
        <5>1. j \notin stale[w]
          BY <1>0, <4>5 DEF RequeueStale, StaleRowsRun
        <5>2. \A i \in DOMAIN jobs :
                 jobs'[i] = IF i \in stale[w]
                            THEN [jobs[i] EXCEPT !.status = "pending"] ELSE jobs[i]
          BY <1>0, <4>5, RequeueRows
        <5>3. QED
          BY <5>1, <5>2
      <4>6. QED
        BY <1>5, <2>2, <4>1, <4>2, <4>3, <4>4, <4>5
           DEF Loop, ScanStale, RequeueRolledBack, Pick, Release, ClaimLost
    <3>3. \A v \in Workers : pc[v] = "succeed" => pc'[v] = pc[v] /\ cur'[v] = cur[v]
      BY <2>0, <3>1
    <3>4. QED
      BY <1>2, <1>3, <2>0, <3>2, <3>3
  <2>3. QED
    BY <2>1, <2>2
<1>6. ASSUME NEW w \in Workers, Fault(w) PROVE FALSE
  BY <1>0, <1>6 DEF Fault, Crash, SucceedNotCommitted, FailNotCommitted
<1>7. ASSUME NEW w \in Workers, RaiseError(w) PROVE Done
  <2>1. /\ UNCHANGED <<committed, jobs, cur>>
        /\ \A v \in Workers : pc[v] = "succeed" => pc'[v] = pc[v]
    BY <1>0, <1>7 DEF RaiseError, Goto
  <2>2. QED
    BY <1>3, <2>1
<1>8. ASSUME NEW w \in Workers, Acts(w) PROVE Done
  <2>1. PICK dropped \in SUBSET Targets, batch \in ProperBatches :
           CommitWork(w, dropped, batch)
    BY <1>8 DEF Acts
  <2>2. /\ jobs' = Transact(dropped, {cur[w]}, batch) /\ cur' = cur
        /\ committed' = committed \cup {cur[w]}
        /\ \A v \in Workers \ {w} : pc'[v] = pc[v]
        /\ pc[w] = "execute" /\ pc'[w] = "succeed"
    BY <1>0, <2>1 DEF CommitWork, Goto
  <2>3. CASE j = cur[w]
    BY <2>2, <2>3
  <2>4. CASE j # cur[w]
    <3>1. j \in committed /\ j \in DOMAIN jobs
      BY <1>2, <2>2, <2>4
    <3>2. jobs[j].status = "succeeded" => jobs'[j].status = "succeeded"
      BY <1>0, <2>2, <3>1, TransactKeepsOutcome
    <3>3. \A v \in Workers : pc[v] = "succeed" => pc'[v] = pc[v] /\ cur'[v] = cur[v]
      BY <2>2
    <3>4. QED
      BY <1>1, <3>1, <3>2, <3>3
  <2>5. QED
    BY <2>3, <2>4
<1>9. ASSUME NEW i \in Ids, Expire(i) \/ Outlive(i) PROVE Done
  BY <1>3, <1>9 DEF Expire, Outlive
<1>10. CASE AsksFor
  <2>1. PICK dropped \in SUBSET Targets, batch \in ProperBatches : Request(dropped, batch)
    BY <1>10 DEF AsksFor
  <2>2. jobs' = Transact(dropped, {}, batch) /\ UNCHANGED <<pc, cur, committed>>
    BY <2>1 DEF Request
  <2>3. jobs[j].status = "succeeded" => jobs'[j].status = "succeeded"
    BY <1>0, <1>2, <2>2, TransactKeepsOutcome
  <2>4. QED
    BY <1>3, <2>2, <2>3
<1>11. CASE UNCHANGED queueVars
  BY <1>3, <1>11 DEF queueVars
<1>12. QED
  BY <1>4, <1>5, <1>6, <1>7, <1>8, <1>9, <1>10, <1>11 DEF QueueStep

(* Without rebuilds a document has one generation.                         *)
OneGeneration ==
    "rebuild" \notin Requests =>
        RowsOf(Collection) = {} /\ \A d \in Docs : \A j \in RowsOf(d) : Since(d, j)

(* Nothing but REBUILD inserts a second PARSE.                             *)
LEMMA OneGenerationStep ==
    ASSUME Known, Exclusive, UploadsAndRebuilds, Lifecycle, OneGeneration,
           [PipelineNext]_pipelineVars
    PROVE  OneGeneration'
<1> SUFFICES ASSUME "rebuild" \notin Requests
             PROVE  /\ RowsOf(Collection)' = {}
                    /\ \A d \in Docs : \A j \in RowsOf(d)' : Since(d, j)'
  BY DEF OneGeneration
<1>0. /\ RowsOf(Collection) = {} /\ Collection \notin Docs
      /\ \A d \in Docs : \A j \in RowsOf(d) : Since(d, j)
      /\ TypeOK /\ JobsFit
  BY PipelineAssumption DEF OneGeneration, Known
<1>1. ~RequestRebuild
  BY DEF RequestRebuild, Asked
<1>2. ASSUME NEW w \in Workers, Rebuild(w) PROVE FALSE
  <2>1. pc[w] = "execute" /\ Type(w) = "rebuild"
    BY <1>2 DEF Rebuild, Turn
  <2>2. cur[w] \in RowsOf(Collection)
    BY <1>0, <2>1, HeldJob DEF RowsOf, Target
  <2>3. QED
    BY <1>0, <2>2
<1>3. RowsOf(Collection)' = {}
  <2>1. CASE SameTable
    BY <1>0, <2>1, SameTableSameJobs DEF SameJobs
  <2>2. ASSUME NEW w \in Workers, NEW d \in Docs, Builds(w, d) PROVE SameJobs(Collection)
    BY <1>0, <2>2, BuildsElsewhere
  <2>3. ASSUME NEW d \in Docs, Register(d) PROVE SameJobs(Collection)
    BY <1>0, <2>3, RegisterAdds
  <2>4. QED
    BY <1>0, <1>1, <1>2, <2>1, <2>2, <2>3, TableSteps DEF SameJobs
<1>4. ASSUME NEW d \in Docs, SameJobs(d), NEW j \in RowsOf(d)' PROVE Since(d, j)'
  BY <1>0, <1>4 DEF SameJobs, Since
<1>5. ASSUME NEW d \in Docs, NEW w \in Workers, Builds(w, d), NEW j \in RowsOf(d)'
      PROVE  Since(d, j)'
  <2>1. Grows(d)
    BY <1>5, HandlerGrows
  <2>2. CASE j \in RowsOf(d)
    BY <1>0, <2>1, <2>2, GrowsKeepsSince
  <2>3. CASE j \notin RowsOf(d)
    <3>1. \A i \in RowsOf(d) : i < j /\ i \in Nat /\ j \in Nat
      BY <1>0, <2>1, <2>3, LenProperties DEF Grows, RowsOf, Ids, TypeOK
    <3>2. \A i \in RowsOf(d)' \ RowsOf(d) : jobs'[i].kind.type # "parse"
      BY <2>1 DEF Grows
    <3>3. \A i \in RowsOf(d) : i <= j
      BY <3>1
    <3>4. QED
      BY <3>2, <3>3 DEF Since
  <2>4. QED
    BY <2>2, <2>3
<1>6. ASSUME NEW d \in Docs, NEW n, RowsOf(d)' = {n}, NEW j \in RowsOf(d)'
      PROVE  Since(d, j)'
  <2>1. j \in DOMAIN jobs'
    BY DEF RowsOf, Ids
  <2>2. TypeOK'
    <3>1. QueueStep \/ UNCHANGED queueVars
      BY <1>0, PipelineQueueStep
    <3>2. [Next]_queueVars
      BY <3>1, QueueStepIsNext
    <3>3. QED
      BY <1>0, <3>2, TypeStep, JobQueueAssumption
  <2>3. j \in Nat
    BY <2>1, <2>2, LenProperties DEF TypeOK
  <2>4. QED
    BY <1>6, <2>3 DEF Since
<1>7. ASSUME NEW d \in Docs, NEW j \in RowsOf(d)' PROVE Since(d, j)'
  BY <1>2, <1>4, <1>5, <1>6, <1>7, DocumentSteps DEF Still
<1>8. QED
  BY <1>3, <1>7

(* What CHECK has found complete when it began is complete.                *)
ReportIsTrue ==
    \A w \in Workers : seen[w].step # "unread" /\ seen[w].ready
        => Type(w) = "check" /\ Complete(Target(w))

(* The barrier asks enough: a document whose report is empty is complete.  *)
LEMMA ReadyMeansComplete ==
    ASSUME Known, Lifecycle, NEW d \in Docs, Built(d),
           CommittedIsDone, OneGeneration,
           MaxFaults = 0 \/ "rebuild" \notin Requests,
           \A w \in Workers : pc[w] # "succeed",
           IsReady(d)
    PROVE  Complete(d)
<1> DEFINE s == doc[d]
           chunks == IdsOf(s, "chunk")
<1>1. /\ s.status \in {"indexed", "ready"}
      /\ chunks # {} /\ AllEmbedded(s, "chunk")
      /\ Layer(s, "proposition") # {} /\ AllEmbedded(s, "proposition")
      /\ chunks \subseteq IdsOf(s, "section") /\ Layer(s, "document") # {}
      /\ \A r \in Layer(s, "section") : r.id \in chunks => r.embedded
      /\ AllEmbedded(s, "document")
      /\ SucceededSinceEmbed(d, "graph")
      /\ Visual => SucceededSinceEmbed(d, "visual")
  <2>1. \A m \in {"base", "propositions", "proposition_embeddings", "summaries",
                  "summary_embeddings", "graph", "visual"} :
           ~ CASE m = "base" ->
                    \/ s.status \notin {"indexed", "ready"}
                    \/ chunks = {} \/ ~AllEmbedded(s, "chunk")
                    \/ Succeeded(d, "embed") = {}
               [] m = "propositions" ->
                    \/ Layer(s, "proposition") = {} \/ ~SucceededSinceEmbed(d, "extract")
               [] m = "proposition_embeddings" ->
                    \/ ~AllEmbedded(s, "proposition")
                    \/ ~SucceededSinceEmbed(d, "embed_propositions")
               [] m = "summaries" ->
                    \/ ~(chunks \subseteq IdsOf(s, "section"))
                    \/ Layer(s, "document") = {}
                    \/ ~SucceededSinceEmbed(d, "summarize")
               [] m = "summary_embeddings" ->
                    \/ \E r \in Layer(s, "section") : r.id \in chunks /\ ~r.embedded
                    \/ ~AllEmbedded(s, "document")
                    \/ ~SucceededSinceEmbed(d, "embed_summaries")
               [] m = "graph"  -> ~SucceededSinceEmbed(d, "graph")
               [] m = "visual" -> Visual /\ ~SucceededSinceEmbed(d, "visual")
    BY DEF IsReady, Missing
  <2> HIDE DEF s, chunks
  <2>2. /\ s.status \in {"indexed", "ready"} /\ chunks # {} /\ AllEmbedded(s, "chunk")
    BY <2>1
  <2>3. Layer(s, "proposition") # {} /\ AllEmbedded(s, "proposition")
    BY <2>1
  <2>4. chunks \subseteq IdsOf(s, "section") /\ Layer(s, "document") # {}
    BY <2>1
  <2>5. /\ \A r \in Layer(s, "section") : r.id \in chunks => r.embedded
        /\ AllEmbedded(s, "document")
    BY <2>1
  <2>6. SucceededSinceEmbed(d, "graph") /\ (Visual => SucceededSinceEmbed(d, "visual"))
    BY <2>1
  <2>7. QED
    BY <2>2, <2>3, <2>4, <2>5, <2>6
<1>2. Indexed(d) /\ Shape(s) /\ DocJobs(d) /\ TypeOK /\ SuccessNeedsWork
  BY <1>1 DEF Indexed, Lifecycle, Known, IInv
<1>3. PICK e \in RowsOf(d) :
         jobs[e].kind.type = "embed" /\ Since(d, e) /\ e \in committed
  BY <1>2 DEF Built, EmbedDone
<1>4. ASSUME NEW type, SucceededSinceEmbed(d, type)
      PROVE  \E j \in RowsOf(d) :
                jobs[j].kind.type = type /\ Since(d, j) /\ j \in committed
  <2>1. PICK j \in Succeeded(d, type) : \A g \in Succeeded(d, "embed") : j >= g
    BY <1>4 DEF SucceededSinceEmbed
  <2>2. /\ j \in RowsOf(d) /\ jobs[j].kind.type = type /\ j \in committed
    BY <1>2, <2>1 DEF Succeeded, RowsOf, Job, SuccessNeedsWork
  <2>3. CASE "rebuild" \notin Requests
    BY <2>2, <2>3 DEF OneGeneration
  <2>4. CASE MaxFaults = 0
    <3>1. jobs[e].status = "succeeded"
      BY <1>3, <2>4 DEF CommittedIsDone
    <3>2. jobs[e].kind \in PipelineKind /\ jobs[e].kind \in [type : Types, target : Targets]
      BY <1>3 DEF Known, JobsFit, RowsOf, PipelineKind, Kind
    <3>3. jobs[e].kind = Job("embed", d)
      BY <1>3, <3>2 DEF RowsOf, Job
    <3>4. e \in Succeeded(d, "embed")
      BY <1>3, <3>1, <3>3 DEF Succeeded, RowsOf, Has
    <3>5. \A i \in RowsOf(d) : i \in Nat
      BY <1>2, LenProperties DEF RowsOf, Ids, TypeOK
    <3>6. \A i \in RowsOf(d) : i <= e => i <= j
      BY <1>3, <2>1, <2>2, <3>4, <3>5
    <3>7. Since(d, j)
      BY <1>3, <3>6 DEF Since
    <3>8. QED
      BY <2>2, <3>7
  <2>5. QED
    BY <2>3, <2>4
<1>5. IdsOf(s, "proposition") \subseteq IdsOf(s, "edge")
  <2>1. PICK j \in RowsOf(d) :
           jobs[j].kind.type = "graph" /\ Since(d, j) /\ j \in committed
    BY <1>1, <1>4
  <2>2. QED
    BY <1>2, <2>1 DEF Built, Layered
<1>6. Visual => Layer(s, "page") # {}
  <2> SUFFICES ASSUME Visual PROVE Layer(s, "page") # {}
    OBVIOUS
  <2>1. PICK j \in RowsOf(d) :
           jobs[j].kind.type = "visual" /\ Since(d, j) /\ j \in committed
    BY <1>1, <1>4
  <2>2. QED
    BY <1>2, <2>1 DEF Built, Layered
<1>7. ASSUME NEW p \in Layer(s, "proposition")
      PROVE  p.of = chunks /\ p.embedded /\ p.id \in IdsOf(s, "edge")
  <2>1. p.of = chunks
    BY <1>2, <1>7 DEF Shape, Tidy, Layer
  <2>2. p.embedded
    BY <1>1 DEF AllEmbedded
  <2>3. p.id \in IdsOf(s, "proposition")
    BY <1>7 DEF IdsOf
  <2>4. QED
    BY <1>5, <2>1, <2>2, <2>3
<1>8. \A r \in Layer(s, "section") : r.id \in chunks
  BY <1>2 DEF Shape, Tidy, Layer
<1>9. chunks = IdsOf(s, "section") /\ AllEmbedded(s, "section")
  <2>1. IdsOf(s, "section") \subseteq chunks
    BY <1>8 DEF IdsOf
  <2>2. QED
    BY <1>1, <1>8, <2>1 DEF AllEmbedded
<1>10. \E r \in Layer(s, "document") : r.of = chunks /\ r.embedded
  <2>1. PICK r \in Layer(s, "document") : TRUE
    BY <1>1
  <2>2. r.of = chunks
    BY <1>2, <2>1 DEF Shape, Tidy, Layer
  <2>3. QED
    BY <1>1, <2>1, <2>2 DEF AllEmbedded
<1>11. QED
  BY <1>1, <1>6, <1>7, <1>9, <1>10 DEF Complete

(* Complete, of a row; `Complete` reads the row of the current state.      *)
Whole(s) ==
    LET chunks == IdsOf(s, "chunk") IN
    /\ chunks # {} /\ AllEmbedded(s, "chunk")
    /\ Layer(s, "proposition") # {}
    /\ \A p \in Layer(s, "proposition") :
          p.of = chunks /\ p.embedded /\ p.id \in IdsOf(s, "edge")
    /\ chunks = IdsOf(s, "section") /\ AllEmbedded(s, "section")
    /\ \E r \in Layer(s, "document") : r.of = chunks /\ r.embedded
    /\ Visual => Layer(s, "page") # {}

(* The barrier's promise, as a statement about a row.                      *)
LEMMA CompleteIsWhole == \A d : Complete(d) <=> Whole(doc[d])
BY DEF Complete, Whole

(* It depends on the rows alone.                                           *)
LEMMA SameRowsSameWhole ==
    ASSUME NEW old, NEW new, new.rows = old.rows, Whole(old)
    PROVE  Whole(new)
<1>1. \A layer : Layer(new, layer) = Layer(old, layer)
  BY DEF Layer
<1>2. \A layer : /\ IdsOf(new, layer) = IdsOf(old, layer)
                 /\ AllEmbedded(new, layer) <=> AllEmbedded(old, layer)
  BY <1>1 DEF IdsOf, AllEmbedded
<1>3. QED
  BY <1>1, <1>2 DEF Whole

(* Enrichment run again takes nothing away from it.                        *)
LEMMA EnrichedStaysWhole ==
    ASSUME NEW old, NEW new, Enriched(old, new), Whole(old)
    PROVE  Whole(new)
<1> DEFINE chunks == IdsOf(old, "chunk")
<1>1. /\ \A layer : IdsOf(old, layer) \subseteq IdsOf(new, layer)
      /\ \A layer : Layer(old, layer) # {} => Layer(new, layer) # {}
      /\ IdsOf(new, "chunk") = chunks
      /\ AllEmbedded(old, "chunk") => AllEmbedded(new, "chunk")
  BY EnrichedLayers
<1>2. /\ chunks # {} /\ AllEmbedded(old, "chunk") /\ Layer(old, "proposition") # {}
      /\ chunks = IdsOf(old, "section") /\ AllEmbedded(old, "section")
      /\ Layer(old, "document") # {}
  BY DEF Whole
<1>3. ASSUME NEW q \in new.rows, q.layer \in {"proposition", "section", "document"}
      PROVE  \E r \in old.rows : Alike(q, r)
  BY <1>2, <1>3 DEF Enriched, Derived
<1>4. ASSUME NEW q \in Layer(new, "proposition")
      PROVE  q.of = chunks /\ q.embedded /\ q.id \in IdsOf(new, "edge")
  <2>1. PICK r \in Layer(old, "proposition") : Alike(q, r)
    BY <1>3, <1>4 DEF Layer, Alike
  <2>2. r.of = chunks /\ r.embedded /\ r.id \in IdsOf(old, "edge")
    BY DEF Whole
  <2>3. QED
    BY <1>1, <2>1, <2>2 DEF Alike
<1>5. ASSUME NEW q \in Layer(new, "section")
      PROVE  q.embedded /\ q.id \in IdsOf(old, "section")
  <2>1. PICK r \in Layer(old, "section") : Alike(q, r)
    BY <1>3, <1>5 DEF Layer, Alike
  <2>2. QED
    BY <1>2, <2>1 DEF Alike, AllEmbedded, IdsOf
<1>6. chunks = IdsOf(new, "section") /\ AllEmbedded(new, "section")
  <2>1. IdsOf(new, "section") \subseteq IdsOf(old, "section")
    BY <1>5 DEF IdsOf
  <2>2. IdsOf(old, "section") \subseteq IdsOf(new, "section")
    BY <1>1
  <2>3. AllEmbedded(new, "section")
    BY <1>5 DEF AllEmbedded
  <2>4. QED
    BY <1>2, <2>1, <2>2, <2>3
<1>7. \E q \in Layer(new, "document") : q.of = chunks /\ q.embedded
  <2>1. PICK r \in Layer(old, "document") : r.of = chunks /\ r.embedded
    BY DEF Whole
  <2>2. PICK q \in new.rows : Alike(q, r)
    BY <2>1 DEF Enriched, Layer
  <2>3. QED
    BY <2>1, <2>2 DEF Layer, Alike
<1>8. Visual => Layer(new, "page") # {}
  BY <1>1 DEF Whole
<1> HIDE DEF chunks
<1>9. QED
  BY <1>1, <1>2, <1>4, <1>6, <1>7, <1>8 DEF Whole

(* No step rewrites the kind of a job, nor takes a job from its handler.   *)
LEMMA TransactKeepsKinds ==
    ASSUME TypeOK, NEW dropped, NEW spared, NEW batch \in ProperBatches,
           jobs' = Transact(dropped, spared, batch), NEW j \in DOMAIN jobs
    PROVE  j \in DOMAIN jobs' /\ jobs'[j].kind = jobs[j].kind /\ (Live(j)' => Live(j))
<1>1. j \in RowsOf(jobs[j].kind.target)
  BY DEF RowsOf, Ids
<1>2. \A i \in RowsOf(jobs[j].kind.target) :
         /\ i \in DOMAIN jobs'
         /\ jobs'[i].kind = jobs[i].kind /\ (Live(i)' => Live(i))
         /\ \/ jobs'[i].status = jobs[i].status
            \/ jobs[i].status = "pending" /\ jobs'[i].status = "deleted"
         /\ jobs[j].kind.target \in dropped /\ i \notin spared
            => jobs'[i].status # "pending"
  BY Appends
<1>3. QED
  BY <1>1, <1>2

(* No step rewrites the kind of a job.                                     *)
LEMMA KindsKept ==
    ASSUME Known, Exclusive, HeldRuns, QueueStep \/ UNCHANGED queueVars,
           NEW j \in DOMAIN jobs
    PROVE  j \in DOMAIN jobs' /\ jobs'[j].kind = jobs[j].kind
<1>0. TypeOK
  BY DEF Known
<1>1. CASE UNCHANGED jobs
  BY <1>1
<1>2. ASSUME NEW w \in Workers, Loop(w)
      PROVE  j \in DOMAIN jobs' /\ jobs'[j].kind = jobs[j].kind
  BY <1>2, LoopKeepsTable DEF SameTable
<1>3. ASSUME NEW dropped, NEW spared, NEW batch \in ProperBatches,
             jobs' = Transact(dropped, spared, batch)
      PROVE  j \in DOMAIN jobs' /\ jobs'[j].kind = jobs[j].kind
  BY <1>0, <1>3, TransactKeepsKinds
<1>4. ASSUME NEW w \in Workers, Acts(w)
      PROVE  j \in DOMAIN jobs' /\ jobs'[j].kind = jobs[j].kind
  BY <1>3, <1>4 DEF Acts, CommitWork
<1>5. CASE AsksFor
  BY <1>3, <1>5 DEF AsksFor, Request
<1>6. ASSUME NEW w \in Workers, Start(w) \/ Fault(w) \/ RaiseError(w)
      PROVE  UNCHANGED jobs
  BY <1>6 DEF Start, Fault, Crash, SucceedNotCommitted, FailNotCommitted, RaiseError
<1>7. \A i \in Ids : Expire(i) \/ Outlive(i) => UNCHANGED jobs
  BY DEF Expire, Outlive
<1>8. UNCHANGED queueVars => UNCHANGED jobs
  BY DEF queueVars
<1>9. QED
  BY <1>1, <1>2, <1>4, <1>5, <1>6, <1>7, <1>8 DEF QueueStep

(* A worker that goes on executing goes on with the same job.              *)
LEMMA HandlersKeepTheirJob ==
    ASSUME TypeOK, QueueStep \/ UNCHANGED queueVars,
           NEW v \in Workers, pc[v] = "execute", pc'[v] = "execute"
    PROVE  cur'[v] = cur[v]
<1>0. pc \in [Workers -> Steps] /\ cur \in [Workers -> Nat]
  BY DEF TypeOK
<1>1. ASSUME NEW w \in Workers, Loop(w) PROVE cur'[v] = cur[v]
  <2>1. w # v
    BY <1>1, LoopMoves
  <2>2. QED
    BY <1>0, <1>1, <2>1 DEF Loop, ScanStale, RequeueStale, RequeueRolledBack, Pick,
             ClaimLost, Claim, ClaimUnhandled, Succeed, Fail, Release
<1>2. ASSUME NEW w \in Workers, Fault(w) PROVE cur'[v] = cur[v]
  <2>1. CASE Crash(w)
    <3>1. w # v
      BY <1>0, <2>1 DEF Crash, Goto
    <3>2. QED
      BY <1>0, <2>1, <3>1 DEF Crash
  <2>2. CASE SucceedNotCommitted(w)
    BY <2>2 DEF SucceedNotCommitted
  <2>3. CASE FailNotCommitted(w)
    BY <1>0, <2>3 DEF FailNotCommitted, Release
  <2>4. QED
    BY <1>2, <2>1, <2>2, <2>3 DEF Fault
<1>3. \A w \in Workers : Start(w) \/ RaiseError(w) \/ Acts(w) => cur' = cur
  BY DEF Start, RaiseError, Acts, CommitWork
<1>4. /\ AsksFor \/ UNCHANGED queueVars => cur' = cur
      /\ \A j \in Ids : Expire(j) \/ Outlive(j) => cur' = cur
  BY DEF AsksFor, Request, Expire, Outlive, queueVars
<1>5. QED
  BY <1>1, <1>2, <1>3, <1>4 DEF QueueStep

(* A reading that outlasts a step is what it was.                          *)
LEMMA ReadingsLast ==
    ASSUME Known, Known', Exclusive, Lifecycle, [PipelineNext]_pipelineVars,
           NEW v \in Workers, seen'[v].step # "unread", ~Begin(v)
    PROVE  /\ seen[v].step # "unread" /\ pc[v] = "execute"
           /\ seen'[v].doc = seen[v].doc /\ seen'[v].ready = seen[v].ready
           /\ Type(v)' = Type(v) /\ Target(v)' = Target(v)
<1> USE JobQueueAssumption
<1>0. TypeOK /\ JobsFit /\ DataOK /\ SeenWhileExecuting /\ seen \in [Workers -> SeenType]
  BY DEF Known, DataOK
<1>1. \/ UNCHANGED seen
      \/ \E w \in Workers : Forget(w)
      \/ \E w \in Workers : Begin(w) \/ UseQdrant(w)
  <2>1. \A w \in Workers : Write(w) => Forget(w)
    BY DEF Write, Parse, ParseRefused, Normalize, Segment, Embed, Extract,
           EmbedPropositions, GenerateSummaries, EmbedSummaries, BuildGraph,
           IndexVisualPages, CheckReadiness, Rebuild, Skip, Refuse, Commit
  <2>2. \A w \in Workers : Poll(w) => UNCHANGED seen
    BY DEF Poll, docVars
  <2>3. \A w \in Workers : Break(w) => Forget(w) \/ UNCHANGED seen
    BY DEF Break, Abort, docVars
  <2>4. Ask => UNCHANGED seen
    BY DEF Ask, RequestRebuild, Register, Resume, Asked
  <2>5. QED
    BY <2>1, <2>2, <2>3, <2>4 DEF PipelineNext, Work, pipelineVars, docVars
<1>2. /\ seen[v].step # "unread"
      /\ seen'[v].doc = seen[v].doc /\ seen'[v].ready = seen[v].ready
  <2>1. CASE UNCHANGED seen
    BY <2>1
  <2>2. ASSUME NEW w \in Workers, Forget(w)
        PROVE  seen[v].step # "unread" /\ seen'[v] = seen[v]
    BY <1>0, <2>2 DEF Forget
  <2>3. ASSUME NEW w \in Workers, Begin(w)
        PROVE  seen[v].step # "unread" /\ seen'[v] = seen[v]
    BY <1>0, <2>3 DEF Begin
  <2>4. ASSUME NEW w \in Workers, UseQdrant(w)
        PROVE  /\ seen[v].step # "unread"
               /\ seen'[v].doc = seen[v].doc /\ seen'[v].ready = seen[v].ready
    <3>1. CASE v # w
      BY <1>0, <2>4, <3>1 DEF UseQdrant, CallQdrant, MissQdrant, AtQdrant
    <3>2. CASE v = w
      <4>1. seen[v].step = "read" /\ seen' = [seen EXCEPT ![v].step = "called"]
        BY <2>4, <3>2 DEF UseQdrant, CallQdrant, MissQdrant, AtQdrant
      <4>2. seen[v] \in SeenRow
        BY <1>0, <4>1, ReadIsTyped
      <4>3. QED
        BY <1>0, <4>1, <4>2 DEF SeenRow
    <3>3. QED
      BY <3>1, <3>2
  <2>5. QED
    BY <1>1, <2>1, <2>2, <2>3, <2>4
<1>3. pc[v] = "execute" /\ cur[v] \in Ids
  BY <1>0, <1>2, HeldJob DEF SeenWhileExecuting
<1>4. /\ cur'[v] = cur[v]
      /\ cur[v] \in DOMAIN jobs' /\ jobs'[cur[v]].kind = jobs[cur[v]].kind
  <2>1. QueueStep \/ UNCHANGED queueVars
    BY <1>0, PipelineQueueStep
  <2>2. pc'[v] = "execute"
    BY DEF Known, SeenWhileExecuting
  <2>3. cur'[v] = cur[v]
    BY <1>0, <1>3, <2>1, <2>2, HandlersKeepTheirJob
  <2>4. cur[v] \in DOMAIN jobs' /\ jobs'[cur[v]].kind = jobs[cur[v]].kind
    BY <1>3, <2>1, KindsKept DEF Ids, Lifecycle
  <2>5. QED
    BY <2>3, <2>4
<1>5. QED
  BY <1>2, <1>3, <1>4 DEF Type, Target

ReportSteps ==
    /\ \A d \in Docs : Built(d)
    /\ CommittedIsDone /\ OneGeneration /\ ReportIsTrue /\ ReadyIsComplete

(* The report of CHECK is true when it is made, and stays true.            *)
LEMMA ReportStep ==
    ASSUME Known, Known', Exclusive, Lifecycle, Lifecycle', ReportSteps,
           MaxFaults = 0 \/ "rebuild" \notin Requests,
           [PipelineNext]_pipelineVars
    PROVE  ReportIsTrue'
<1> SUFFICES ASSUME NEW v \in Workers, seen'[v].step # "unread", seen'[v].ready
             PROVE  Type(v)' = "check" /\ Complete(Target(v))'
  BY DEF ReportIsTrue
<1>1. CASE Begin(v)
  <2>1. /\ pc[v] = "execute" /\ UNCHANGED <<queueVars, doc>>
        /\ seen \in [Workers -> SeenType] /\ TypeOK /\ JobsFit
    BY <1>1 DEF Begin, Known, DataOK
  <2>2. Type(v) = "check" /\ IsReady(Target(v))
    BY <1>1, <2>1 DEF Begin
  <2>3. Target(v) \in Docs
    BY <2>1, <2>2, HeldJob
  <2>4. \A w \in Workers : pc[w] # "succeed"
    BY <2>1, OnlyReader
  <2>5. Complete(Target(v))
    BY <2>2, <2>3, <2>4, ReadyMeansComplete DEF ReportSteps
  <2>6. Type(v)' = Type(v) /\ Target(v)' = Target(v)
    BY <2>1 DEF Type, Target, queueVars
  <2>7. Whole(doc[Target(v)])
    BY <2>5, CompleteIsWhole
  <2>8. Whole(doc'[Target(v)'])
    BY <2>1, <2>6, <2>7
  <2>9. Complete(Target(v))'
    BY <2>8 DEF Complete, Whole, Layer, IdsOf, AllEmbedded
  <2>10. QED
    BY <2>2, <2>6, <2>9
<1>2. CASE ~Begin(v)
  <2>1. /\ seen[v].step # "unread" /\ pc[v] = "execute"
        /\ seen'[v].doc = seen[v].doc /\ seen'[v].ready = seen[v].ready
        /\ Type(v)' = Type(v) /\ Target(v)' = Target(v)
    BY <1>2, ReadingsLast
  <2>2. Type(v) = "check" /\ Complete(Target(v))
    BY <2>1 DEF ReportSteps, ReportIsTrue
  <2>3. PICK d : d = Target(v)
    OBVIOUS
  <2>4. d \in Docs
    BY <2>1, <2>2, <2>3, HeldJob DEF Known
  <2>5. seen[v].doc[d].status # "absent"
    BY <2>1, <2>2, <2>3 DEF Lifecycle, SeenIsNow, Mine
  <2>6. doc'[d].rows = doc[d].rows
    <3>1. seen[v].doc[d].rows = doc[d].rows
      BY <2>1, <2>4, <2>5 DEF Lifecycle, SeenIsNow
    <3>2. seen'[v].doc[d].rows = doc'[d].rows
      BY <2>1, <2>4, <2>5 DEF Lifecycle, SeenIsNow
    <3>3. QED
      BY <2>1, <3>1, <3>2
  <2>7. Whole(doc[d])
    BY <2>2, <2>3, CompleteIsWhole
  <2>8. Whole(doc'[d])
    BY <2>6, <2>7, SameRowsSameWhole
  <2>9. Target(v)' = d
    BY <2>1, <2>3
  <2>10. Complete(Target(v))'
    BY <2>8, <2>9 DEF Complete, Whole, Layer, IdsOf, AllEmbedded
  <2>11. QED
    BY <2>1, <2>2, <2>10
<1>3. QED
  BY <1>1, <1>2

(* Only CHECK publishes, and only what its report says is ready.           *)
LEMMA OnlyCheckPublishes ==
    ASSUME Known, Lifecycle, NEW w \in Workers, NEW d, Builds(w, d),
           doc[d].status # "ready", doc'[d].status = "ready"
    PROVE  seen[w].ready /\ doc'[d].rows = doc[d].rows
<1>0. /\ d = Target(w) /\ pc[w] = "execute" /\ seen[w].step # "unread"
      /\ Type(w) # "rebuild" /\ doc \in [Docs -> DocRow] /\ DataOK
  BY DEF Builds, Known, DataOK
<1>1. d \in Docs /\ doc[d] \in DocRow /\ Mine(w).status = doc[d].status
  BY <1>0, ReadIsNow
<1>2. ASSUME NEW row, NEW batch, Commit(w, d, row, batch)
      PROVE  doc'[d] = row
  BY <1>0, <1>1, <1>2 DEF Commit
<1>3. ASSUME NEW status, NEW rows,
             \/ doc'[d] = [doc[d] EXCEPT !.status = status]
             \/ doc'[d] = [doc[d] EXCEPT !.status = status, !.rows = rows]
      PROVE  doc'[d].status = status
  <2>1. [doc[d] EXCEPT !.status = status].status = status
    BY <1>1, RowWritten
  <2>2. [doc[d] EXCEPT !.status = status, !.rows = rows].status = status
    BY <1>1, RowWritten
  <2>3. QED
    BY <1>3, <2>1, <2>2
<1>4. ASSUME NEW rows, NEW made,
             \/ doc'[d] = [doc[d] EXCEPT !.rows = rows]
             \/ doc'[d] = [doc[d] EXCEPT !.made = made, !.rows = rows]
      PROVE  FALSE
  <2>1. [doc[d] EXCEPT !.rows = rows].status = doc[d].status
    BY <1>1, RowWritten
  <2>2. [doc[d] EXCEPT !.made = made, !.rows = rows].status = doc[d].status
    BY <1>1, RowWritten
  <2>3. QED
    BY <1>4, <2>1, <2>2
<1>5. ~Parse(w)
  <2> DEFINE rows == Survivors(d, Mine(w)) \cup {New("node", 0, {})}
  <2>1. SUFFICES ASSUME Parse(w) PROVE FALSE
    OBVIOUS
  <2>2. doc'[d] = [doc[d] EXCEPT !.status = "parsed", !.rows = rows]
    BY <1>0, <1>2, <2>1 DEF Parse, Reparsed
  <2> HIDE DEF rows
  <2>3. doc'[d].status = "parsed"
    BY <1>3, <2>2
  <2>4. QED
    BY <2>3
<1>6. ~Normalize(w)
  <2>1. SUFFICES ASSUME Normalize(w) PROVE FALSE
    OBVIOUS
  <2>2. doc'[d] = [doc[d] EXCEPT !.status = "normalized"]
    BY <1>0, <1>2, <2>1 DEF Normalize
  <2>3. doc'[d].status = "normalized"
    BY <1>3, <2>2
  <2>4. QED
    BY <2>3
<1>7. ~Segment(w)
  <2> DEFINE id == doc[d].made + 1
             chunks == IF HasText(d, Mine(w)) THEN {New("chunk", id, {})} ELSE {}
             rows == doc[d].rows \cup chunks
             row == [doc[d] EXCEPT !.status = "segmented", !.made = id, !.rows = rows]
  <2>1. SUFFICES ASSUME Segment(w) PROVE FALSE
    OBVIOUS
  <2>2. Commit(w, d, row, <<Job("embed", d)>>)
    BY <1>0, <2>1 DEF Segment
  <2>3. row.status = "segmented"
    <3> HIDE DEF id, rows
    <3> QED
      BY <1>1, RowWritten
  <2> HIDE DEF row
  <2>4. doc'[d] = row
    BY <1>2, <2>2
  <2>5. QED
    BY <2>3, <2>4
<1>8. ~Embed(w)
  <2> DEFINE rows == MarkEmbedded(doc[d].rows, Unembedded(Mine(w)))
  <2>1. SUFFICES ASSUME Embed(w) PROVE FALSE
    OBVIOUS
  <2>2. doc'[d] = [doc[d] EXCEPT !.status = "indexed", !.rows = rows]
    BY <1>0, <1>2, <2>1 DEF Embed
  <2> HIDE DEF rows
  <2>3. doc'[d].status = "indexed"
    BY <1>3, <2>2
  <2>4. QED
    BY <2>3
<1>9. ~Extract(w)
  <2> DEFINE id == doc[d].made + 1
             rows == doc[d].rows \cup {New("proposition", id, IdsOf(Mine(w), "chunk"))}
             row == IF Layer(Mine(w), "proposition") = {}
                    THEN [doc[d] EXCEPT !.made = id, !.rows = rows] ELSE doc[d]
  <2>1. SUFFICES ASSUME Extract(w) PROVE FALSE
    OBVIOUS
  <2>2. doc'[d] = row
    BY <1>0, <1>2, <2>1 DEF Extract
  <2>3. doc'[d] = [doc[d] EXCEPT !.made = id, !.rows = rows]
    BY <2>2
  <2> HIDE DEF id, rows
  <2>4. QED
    BY <1>4, <2>3
<1>10. ~EmbedPropositions(w)
  <2> DEFINE rows == MarkEmbedded(doc[d].rows, Layer(Mine(w), "proposition"))
  <2>1. SUFFICES ASSUME EmbedPropositions(w) PROVE FALSE
    OBVIOUS
  <2>2. doc'[d] = [doc[d] EXCEPT !.rows = rows]
    BY <1>0, <1>2, <2>1 DEF EmbedPropositions
  <2> HIDE DEF rows
  <2>3. QED
    BY <1>4, <2>2
<1>11. ~GenerateSummaries(w) /\ ~EmbedSummaries(w)
  <2> DEFINE chosen == {r \in Layer(Mine(w), "section") : r.id \in payload[cur[w]]}
                          \cup Layer(Mine(w), "document")
             rows == MarkEmbedded(doc[d].rows, chosen)
             summarized == Summarized(d, Mine(w))
  <2>1. SUFFICES ASSUME GenerateSummaries(w) \/ EmbedSummaries(w) PROVE FALSE
    OBVIOUS
  <2>2. \/ doc'[d] = [doc[d] EXCEPT !.rows = summarized]
        \/ doc'[d] = [doc[d] EXCEPT !.rows = rows]
    BY <1>0, <1>2, <2>1 DEF GenerateSummaries, EmbedSummaries
  <2> HIDE DEF rows, summarized
  <2>3. QED
    BY <1>4, <2>2
<1>12. ~BuildGraph(w) /\ ~IndexVisualPages(w)
  <2> DEFINE linked == doc[d].rows \cup {New("edge", p, {p}) :
                                            p \in IdsOf(Mine(w), "proposition")}
             paged == doc[d].rows \cup (IF Layer(Mine(w), "node") = {} THEN {}
                                        ELSE {New("page", 0, {})})
  <2>1. SUFFICES ASSUME BuildGraph(w) \/ IndexVisualPages(w) PROVE FALSE
    OBVIOUS
  <2>2. \/ doc'[d] = [doc[d] EXCEPT !.rows = linked]
        \/ doc'[d] = [doc[d] EXCEPT !.rows = paged]
    BY <1>0, <1>2, <2>1 DEF BuildGraph, IndexVisualPages
  <2> HIDE DEF linked, paged
  <2>3. QED
    BY <1>4, <2>2
<1>13. ~Skip(w)
  BY <1>0, <1>2 DEF Skip
<1>14. CheckReadiness(w)
  BY <1>4, <1>5, <1>6, <1>7, <1>8, <1>9, <1>10, <1>11, <1>12, <1>13 DEF Builds
<1>15. doc'[d] = [doc[d] EXCEPT !.status = Barrier(d, Mine(w), seen[w].ready)]
  BY <1>0, <1>2, <1>14 DEF CheckReadiness
<1>16. Barrier(d, Mine(w), seen[w].ready) = "ready" /\ doc'[d].rows = doc[d].rows
  <2> DEFINE status == Barrier(d, Mine(w), seen[w].ready)
  <2>1. doc'[d] = [doc[d] EXCEPT !.status = status]
    BY <1>15
  <2> HIDE DEF status
  <2>2. doc'[d].status = status /\ doc'[d].rows = doc[d].rows
    BY <1>1, <2>1, RowWritten
  <2>3. QED
    BY <2>2 DEF status
<1>17. seen[w].ready
  <2>1. seen[w].ready \in BOOLEAN
    BY <1>0, ReadIsTyped DEF SeenRow
  <2>2. QED
    BY <1>1, <1>16, <2>1 DEF Barrier
<1>18. QED
  BY <1>16, <1>17

(* A published document is complete and stays so.                          *)
LEMMA ReadyStep ==
    ASSUME Known, Exclusive, UploadsAndRebuilds, Lifecycle, ReportSteps,
           [PipelineNext]_pipelineVars
    PROVE  ReadyIsComplete'
<1> SUFFICES ASSUME NEW d \in Docs, doc'[d].status = "ready" PROVE Whole(doc'[d])
  <2>1. \A d \in Docs : Whole(doc'[d]) => Complete(d)'
    BY DEF Complete, Whole, Layer, IdsOf, AllEmbedded
  <2>2. QED
    BY <2>1 DEF ReadyIsComplete
<1>1. doc[d].status = "ready" => Whole(doc[d])
  BY CompleteIsWhole DEF ReportSteps, ReadyIsComplete
<1>2. CASE Still(d)
  BY <1>1, <1>2, SameRowsSameWhole DEF Still
<1>3. ASSUME NEW w \in Workers, Builds(w, d), doc[d].status = "ready"
      PROVE  Whole(doc'[d])
  <2>1. Advances(doc[d], doc'[d])
    BY <1>3, HandlerCommits
  <2>2. doc'[d].rows = doc[d].rows \/ Enriched(doc[d], doc'[d])
    BY <1>3, <2>1 DEF Advances
  <2>3. QED
    BY <1>1, <1>3, <2>2, SameRowsSameWhole, EnrichedStaysWhole
<1>4. ASSUME NEW w \in Workers, Builds(w, d), doc[d].status # "ready"
      PROVE  Whole(doc'[d])
  <2>1. seen[w].ready /\ doc'[d].rows = doc[d].rows
    BY <1>4, OnlyCheckPublishes
  <2>2. Complete(d)
    BY <1>4, <2>1 DEF Builds, ReportSteps, ReportIsTrue
  <2>3. QED
    BY <2>1, <2>2, CompleteIsWhole, SameRowsSameWhole
<1>5. QED
  BY <1>2, <1>3, <1>4, DocumentSteps

(* ReadyIsComplete: with one worker, when files are uploaded once, a       *)
(* document that is READY has all its memory layers, all of the chunks it  *)
(* has now: whatever crashes and fails as long as no collection is         *)
(* rebuilt, and through any number of rebuilds as long as no process dies  *)
(* and no status commit is lost.  With both a rebuild and a crash it does  *)
(* not hold: the barrier compares ids of jobs of two generations.          *)
THEOREM ReadyDocumentsAreComplete ==
    ASSUME Exclusive, UploadsAndRebuilds,
           MaxFaults = 0 \/ "rebuild" \notin Requests
    PROVE  PipelineSpec => []ReadyIsComplete
<1>1. PipelineInit => ReportSteps
  <2> SUFFICES ASSUME PipelineInit PROVE ReportSteps
    OBVIOUS
  <2>1. Ids = {} /\ committed = {}
    BY LenProperties DEF PipelineInit, Init, Ids
  <2>2. \A d \in Docs : doc[d].status = "absent"
    BY DEF PipelineInit, NoDoc
  <2>3. \A w \in Workers : seen[w].step = "unread"
    BY DEF PipelineInit
  <2>4. QED
    BY <2>1, <2>2, <2>3 DEF ReportSteps, Built, Indexed, CommittedIsDone, OneGeneration,
                            RowsOf, ReportIsTrue, ReadyIsComplete
<1>2. /\ Known /\ Lifecycle /\ Known' /\ Lifecycle' /\ ReportSteps
      /\ [PipelineNext]_pipelineVars
      => ReportSteps'
  <2> SUFFICES ASSUME Known, Known', Lifecycle, Lifecycle', ReportSteps,
                      [PipelineNext]_pipelineVars
               PROVE  ReportSteps'
    OBVIOUS
  <2>1. \A d \in Docs : Built(d)'
    BY BuiltStep DEF ReportSteps
  <2>2. CommittedIsDone'
    <3>1. QueueStep \/ UNCHANGED queueVars
      BY PipelineQueueStep DEF Known
    <3>2. QED
      BY <3>1, CommittedIsDoneStep DEF ReportSteps, Lifecycle
  <2>3. OneGeneration'
    BY OneGenerationStep DEF ReportSteps
  <2>4. ReportIsTrue'
    BY ReportStep
  <2>5. ReadyIsComplete'
    BY ReadyStep
  <2>6. QED
    BY <2>1, <2>2, <2>3, <2>4, <2>5 DEF ReportSteps
<1>3. ReportSteps => ReadyIsComplete
  BY DEF ReportSteps
<1>4. QED
  BY <1>1, <1>2, <1>3, LifecycleHolds, PTL DEF PipelineSpec

-----------------------------------------------------------------------------
(***************************************************************************)
(* Vectors.  Only calls to Qdrant change the points of a document: PARSE   *)
(* takes them away before the document is INDEXED again, EMBED puts in     *)
(* those of its chunks, and REBUILD empties the collection and ends, when  *)
(* nothing fails, with every document back to REGISTERED.                  *)
(***************************************************************************)
SamePoints ==
    \A d \in Docs : doc'[d].points = doc[d].points /\ doc'[d].missed = doc[d].missed

(* Writing a row of a document leaves its points.                          *)
LEMMA RowKeepsPoints ==
    ASSUME doc \in [Docs -> DocRow], NEW e \in Docs, NEW row,
           doc' = [doc EXCEPT ![e] = row],
           row.points = doc[e].points /\ row.missed = doc[e].missed
    PROVE  SamePoints
BY DEF SamePoints

(* Neither does the cleanup of PARSE and REBUILD.                          *)
LEMMA ReparsedKeepsPoints ==
    ASSUME doc \in [Docs -> DocRow], NEW e \in Docs, NEW s, NEW status, NEW nodes
    PROVE  /\ Reparsed(e, s, status, nodes).points = doc[e].points
           /\ Reparsed(e, s, status, nodes).missed = doc[e].missed
<1> DEFINE rows == Survivors(e, s) \cup nodes
           row == [doc[e] EXCEPT !.status = status, !.rows = rows]
<1>1. row.points = doc[e].points /\ row.missed = doc[e].missed
  <2> HIDE DEF rows
  <2>1. doc[e] \in DocRow
    OBVIOUS
  <2>2. QED
    BY <2>1, RowWritten
<1>2. QED
  BY <1>1 DEF Reparsed

(* The transaction of a handler writes no points.                          *)
LEMMA HandlersKeepPoints ==
    ASSUME Known, NEW w \in Workers, NEW d, Builds(w, d)
    PROVE  SamePoints
<1>0. /\ d = Target(w) /\ d \in Docs /\ doc \in [Docs -> DocRow] /\ doc[d] \in DocRow
  BY HeldJob DEF Builds, Known, DataOK
<1>1. ASSUME NEW row, NEW batch, Commit(w, d, row, batch),
             row.points = doc[d].points /\ row.missed = doc[d].missed
      PROVE  SamePoints
  BY <1>0, <1>1, RowKeepsPoints DEF Commit
<1>2. ASSUME NEW rows, NEW batch, Commit(w, d, [doc[d] EXCEPT !.rows = rows], batch)
      PROVE  SamePoints
  <2> DEFINE row == [doc[d] EXCEPT !.rows = rows]
  <2>1. row.points = doc[d].points /\ row.missed = doc[d].missed
    BY <1>0, RowWritten
  <2>2. Commit(w, d, row, batch)
    BY <1>2
  <2> HIDE DEF row
  <2>3. QED
    BY <1>1, <2>1, <2>2
<1>3. ASSUME NEW status, NEW batch, Commit(w, d, [doc[d] EXCEPT !.status = status], batch)
      PROVE  SamePoints
  <2> DEFINE row == [doc[d] EXCEPT !.status = status]
  <2>1. row.points = doc[d].points /\ row.missed = doc[d].missed
    BY <1>0, RowWritten
  <2>2. Commit(w, d, row, batch)
    BY <1>3
  <2> HIDE DEF row
  <2>3. QED
    BY <1>1, <2>1, <2>2
<1>4. CASE Parse(w)
  <2> DEFINE row == Reparsed(d, Mine(w), "parsed", {New("node", 0, {})})
  <2>1. Commit(w, d, row, <<Job("normalize", d)>>)
    BY <1>0, <1>4 DEF Parse
  <2>2. row.points = doc[d].points /\ row.missed = doc[d].missed
    BY <1>0, ReparsedKeepsPoints
  <2> HIDE DEF row
  <2>3. QED
    BY <1>1, <2>1, <2>2
<1>5. CASE Normalize(w)
  BY <1>0, <1>3, <1>5 DEF Normalize
<1>6. CASE Segment(w)
  <2> DEFINE id == doc[d].made + 1
             chunks == IF HasText(d, Mine(w)) THEN {New("chunk", id, {})} ELSE {}
             rows == doc[d].rows \cup chunks
             row == [doc[d] EXCEPT !.status = "segmented", !.made = id, !.rows = rows]
  <2>1. Commit(w, d, row, <<Job("embed", d)>>)
    BY <1>0, <1>6 DEF Segment
  <2>2. row.points = doc[d].points /\ row.missed = doc[d].missed
    <3> HIDE DEF id, rows
    <3> QED
      BY <1>0, RowWritten
  <2> HIDE DEF row
  <2>3. QED
    BY <1>1, <2>1, <2>2
<1>7. CASE Embed(w)
  <2> DEFINE rows == MarkEmbedded(doc[d].rows, Unembedded(Mine(w)))
             row == [doc[d] EXCEPT !.status = "indexed", !.rows = rows]
  <2>1. Commit(w, d, row, <<Job("extract", d)>>)
    BY <1>0, <1>7 DEF Embed
  <2>2. row.points = doc[d].points /\ row.missed = doc[d].missed
    <3> HIDE DEF rows
    <3> QED
      BY <1>0, RowWritten
  <2> HIDE DEF row
  <2>3. QED
    BY <1>1, <2>1, <2>2
<1>8. CASE Extract(w)
  <2> DEFINE id == doc[d].made + 1
             rows == doc[d].rows \cup {New("proposition", id, IdsOf(Mine(w), "chunk"))}
             fresh == [doc[d] EXCEPT !.made = id, !.rows = rows]
             row == IF Layer(Mine(w), "proposition") = {} THEN fresh ELSE doc[d]
             batch == Ensure("embed_propositions", d) \o Ensure("summarize", d)
                         \o Ensure("graph", d)
  <2>1. Commit(w, d, row, batch)
    BY <1>0, <1>8 DEF Extract
  <2>2. fresh.points = doc[d].points /\ fresh.missed = doc[d].missed
    <3> HIDE DEF id, rows
    <3> QED
      BY <1>0, RowWritten
  <2>3. row.points = doc[d].points /\ row.missed = doc[d].missed
    <3> HIDE DEF fresh
    <3> QED
      BY <2>2
  <2> HIDE DEF row, batch
  <2>4. QED
    BY <1>1, <2>1, <2>3
<1>9. CASE EmbedPropositions(w)
  BY <1>0, <1>2, <1>9 DEF EmbedPropositions
<1>10. CASE GenerateSummaries(w)
  BY <1>0, <1>2, <1>10 DEF GenerateSummaries
<1>11. CASE EmbedSummaries(w)
  BY <1>0, <1>2, <1>11 DEF EmbedSummaries
<1>12. CASE BuildGraph(w)
  BY <1>0, <1>2, <1>12 DEF BuildGraph
<1>13. CASE IndexVisualPages(w)
  BY <1>0, <1>2, <1>13 DEF IndexVisualPages
<1>14. CASE CheckReadiness(w)
  BY <1>0, <1>3, <1>14 DEF CheckReadiness
<1>15. CASE Skip(w)
  BY <1>0, <1>1, <1>15 DEF Skip
<1>16. QED
  BY <1>4, <1>5, <1>6, <1>7, <1>8, <1>9, <1>10, <1>11, <1>12, <1>13, <1>14, <1>15
     DEF Builds

(* No step but a call to Qdrant changes any points.                        *)
LEMMA OnlyCallsMovePoints ==
    ASSUME Known, UploadsAndRebuilds, [PipelineNext]_pipelineVars,
           \A w \in Workers : ~UseQdrant(w)
    PROVE  SamePoints
<1>0. doc \in [Docs -> DocRow] /\ TypeOK /\ JobsFit
  BY DEF Known, DataOK
<1>1. doc' = doc => SamePoints
  BY DEF SamePoints
<1>2. ASSUME NEW e \in Docs, NEW s, NEW status, NEW nodes,
             doc' = [doc EXCEPT ![e] = Reparsed(e, s, status, nodes)]
      PROVE  SamePoints
  <2> DEFINE row == Reparsed(e, s, status, nodes)
  <2>1. /\ row.points = doc[e].points /\ row.missed = doc[e].missed
        /\ doc' = [doc EXCEPT ![e] = row]
    BY <1>0, <1>2, ReparsedKeepsPoints
  <2> HIDE DEF row
  <2>2. QED
    BY <1>0, <2>1, RowKeepsPoints
<1>3. ASSUME NEW e \in Docs, NEW status, doc' = [doc EXCEPT ![e].status = status]
      PROVE  SamePoints
  <2> DEFINE row == [doc[e] EXCEPT !.status = status]
  <2>1. doc' = [doc EXCEPT ![e] = row]
    BY <1>3
  <2>2. row.points = doc[e].points /\ row.missed = doc[e].missed
    BY <1>0, RowWritten
  <2> HIDE DEF row
  <2>3. QED
    BY <1>0, <2>1, <2>2, RowKeepsPoints
<1>4. ASSUME NEW w \in Workers, Rebuild(w) PROVE SamePoints
  <2>1. \A d \in Docs :
           /\ Reparsed(d, seen[w].doc[d], "registered", {}).points = doc[d].points
           /\ Reparsed(d, seen[w].doc[d], "registered", {}).missed = doc[d].missed
    BY <1>0, ReparsedKeepsPoints
  <2>2. doc' = Restarted(w)
    BY <1>4 DEF Rebuild
  <2>3. QED
    BY <2>1, <2>2 DEF Restarted, SamePoints
<1>5. ASSUME NEW w \in Workers, ParseRefused(w) PROVE SamePoints
  <2>1. Target(w) \in Docs
    BY <1>0, <1>5, HeldJob DEF ParseRefused, Turn
  <2>2. QED
    BY <1>2, <1>5, <2>1 DEF ParseRefused
<1>6. ASSUME NEW w \in Workers, Abort(w) PROVE SamePoints
  <2>1. CASE Type(w) # "parse"
    BY <1>1, <1>6, <2>1 DEF Abort
  <2>2. CASE Type(w) = "parse"
    <3>1. Target(w) \in Docs
      BY <1>0, <1>6, <2>2, HeldJob DEF Abort
    <3>2. \/ doc' = [doc EXCEPT ![Target(w)].status = "failed"]
          \/ doc' = [doc EXCEPT ![Target(w)] = Reparsed(Target(w), Mine(w), "failed", {})]
      BY <1>6, <2>2 DEF Abort
    <3>3. QED
      BY <1>2, <1>3, <3>1, <3>2
  <2>3. QED
    BY <2>1, <2>2
<1>7. ASSUME NEW w \in Workers, Write(w) PROVE SamePoints
  <2>1. CASE ~ParseRefused(w) /\ ~Refuse(w) /\ ~Rebuild(w)
    BY <1>7, <2>1, WriteBuilds, HandlersKeepPoints
  <2>2. CASE Refuse(w)
    BY <1>1, <2>2 DEF Refuse
  <2>3. QED
    BY <1>4, <1>5, <2>1, <2>2
<1>8. ASSUME NEW d \in Docs, Register(d) PROVE SamePoints
  BY <1>3, <1>8 DEF Register, SetStatus
<1>9. ASSUME NEW d \in Docs, Resume(d) PROVE FALSE
  BY <1>9 DEF Resume, Asked, UploadsAndRebuilds
<1>10. \A w \in Workers : Poll(w) \/ Begin(w) => doc' = doc
  BY DEF Poll, Begin, docVars
<1>11. \A w \in Workers : Break(w) => Abort(w) \/ doc' = doc
  BY DEF Break, docVars
<1>12. /\ RequestRebuild => doc' = doc
       /\ UNCHANGED docVars => doc' = doc
       /\ UNCHANGED pipelineVars => doc' = doc
  BY DEF RequestRebuild, docVars, pipelineVars
<1> HIDE DEF SamePoints
<1>13. ASSUME NEW w \in Workers, Poll(w) \/ Work(w) \/ Break(w) PROVE SamePoints
  BY <1>1, <1>6, <1>7, <1>10, <1>11, <1>13 DEF Work
<1>14. Ask => SamePoints
  BY <1>1, <1>8, <1>9, <1>12 DEF Ask
<1>15. QED
  BY <1>1, <1>12, <1>13, <1>14 DEF PipelineNext

(* A handler that has called Qdrant made that call in this step, or had    *)
(* made it before and still holds the same job.                            *)
LEMMA CallsLast ==
    ASSUME Known, Known', Exclusive, Lifecycle, [PipelineNext]_pipelineVars,
           NEW v \in Workers, seen'[v].step = "called", ~UseQdrant(v)
    PROVE  /\ seen[v].step = "called" /\ pc[v] = "execute"
           /\ Type(v)' = Type(v) /\ Target(v)' = Target(v)
<1>0. DataOK /\ seen \in [Workers -> SeenType]
  BY DEF Known, DataOK
<1>1. ~Begin(v)
  <2>1. Begin(v) => seen'[v].step = "read"
    BY <1>0 DEF Begin
  <2>2. QED
    BY <2>1
<1>2. /\ seen[v].step # "unread" /\ pc[v] = "execute"
      /\ Type(v)' = Type(v) /\ Target(v)' = Target(v)
  BY <1>1, ReadingsLast
<1>3. \/ UNCHANGED seen
      \/ \E w \in Workers : Forget(w)
      \/ \E w \in Workers : Begin(w) \/ UseQdrant(w)
  <2>1. \A w \in Workers : Write(w) => Forget(w)
    BY DEF Write, Parse, ParseRefused, Normalize, Segment, Embed, Extract,
           EmbedPropositions, GenerateSummaries, EmbedSummaries, BuildGraph,
           IndexVisualPages, CheckReadiness, Rebuild, Skip, Refuse, Commit
  <2>2. \A w \in Workers : Poll(w) => UNCHANGED seen
    BY DEF Poll, docVars
  <2>3. \A w \in Workers : Break(w) => Forget(w) \/ UNCHANGED seen
    BY DEF Break, Abort, docVars
  <2>4. Ask => UNCHANGED seen
    BY DEF Ask, RequestRebuild, Register, Resume, Asked
  <2>5. QED
    BY <2>1, <2>2, <2>3, <2>4 DEF PipelineNext, Work, pipelineVars, docVars
<1>4. ASSUME NEW w \in Workers, Forget(w) PROVE seen'[v] = seen[v]
  BY <1>0, <1>4 DEF Forget
<1>5. ASSUME NEW w \in Workers, Begin(w) \/ UseQdrant(w) PROVE seen'[v] = seen[v]
  <2>1. w # v
    BY <1>1, <1>5
  <2>2. QED
    BY <1>0, <1>5, <2>1 DEF Begin, UseQdrant, CallQdrant, MissQdrant, AtQdrant
<1>6. QED
  BY <1>2, <1>3, <1>4, <1>5

(* When nothing fails, a rebuild that has emptied the collection commits.  *)
Emptied == \E w \in Workers : seen[w].step = "called" /\ Type(w) = "rebuild"

(* Once it has emptied the collection it stays so until it commits.        *)
LEMMA EmptiedLasts ==
    ASSUME Known, Known', Exclusive, Lifecycle, [PipelineNext]_pipelineVars,
           MaxFaults = 0, "rebuild" \notin Fallible, Emptied
    PROVE  Emptied' \/ \E w \in Workers : Rebuild(w)
<1> USE JobQueueAssumption
<1>0. TypeOK /\ JobsFit /\ DataOK /\ seen \in [Workers -> SeenType] /\ faults \in Nat
  BY DEF Known, DataOK, TypeOK
<1>1. PICK v \in Workers : seen[v].step = "called" /\ Type(v) = "rebuild"
  BY DEF Emptied
<1>2. pc[v] = "execute" /\ cur[v] \in Ids
  BY <1>0, <1>1, HeldJob DEF Known, SeenWhileExecuting
<1>3. SUFFICES ASSUME ~Rebuild(v) PROVE Emptied'
  OBVIOUS
<1>4. QueueStep \/ UNCHANGED queueVars
  BY <1>0, PipelineQueueStep
<1>5. \A w \in Workers \ {v} : pc[w] = "down" /\ seen[w].step = "unread"
  BY <1>2, OnlyReader
<1>6. seen'[v] = seen[v]
  <2>1. ASSUME NEW w \in Workers, Begin(w) \/ UseQdrant(w) \/ Write(w)
        PROVE  w = v
    BY <1>5, <2>1 DEF Begin, UseQdrant, CallQdrant, MissQdrant, AtQdrant, Write,
       Parse, ParseRefused, Normalize, Segment,
       Embed, Extract, EmbedPropositions, GenerateSummaries, EmbedSummaries, BuildGraph,
       IndexVisualPages, CheckReadiness, Rebuild, Skip, Refuse, Turn
  <2>2. ~Begin(v) /\ ~UseQdrant(v)
    BY <1>1 DEF Begin, UseQdrant, CallQdrant, MissQdrant, AtQdrant
  <2>3. ~Write(v)
    <3>1. ~Refuse(v)
      BY <1>1 DEF Refuse, Refused, Turn, NeedsQdrant
    <3>2. ~Skip(v)
      BY <1>1 DEF Skip, NothingToDo
    <3>3. QED
      BY <1>1, <1>3, <3>1, <3>2 DEF Write, Parse, ParseRefused, Normalize, Segment, Embed,
         Extract, EmbedPropositions, GenerateSummaries, EmbedSummaries, BuildGraph,
         IndexVisualPages, CheckReadiness, Turn
  <2>4. ASSUME NEW w \in Workers, Break(w) PROVE FALSE
    <3>1. ~Abort(w)
      BY <1>1, <1>5 DEF Abort
    <3>2. QED
      BY <1>0, <2>4, <3>1 DEF Break, Crash, SucceedNotCommitted, FailNotCommitted
  <2>5. \A w \in Workers : Poll(w) => UNCHANGED seen
    BY DEF Poll, docVars
  <2>6. Ask => UNCHANGED seen
    BY DEF Ask, RequestRebuild, Register, Resume, Asked
  <2>7. QED
    BY <2>1, <2>2, <2>3, <2>4, <2>5, <2>6 DEF PipelineNext, Work, pipelineVars, docVars
<1>7. pc'[v] = "execute"
  BY <1>1, <1>6 DEF Known, SeenWhileExecuting
<1>8. cur'[v] = cur[v] /\ jobs'[cur[v]].kind = jobs[cur[v]].kind
  BY <1>0, <1>2, <1>4, <1>7, HandlersKeepTheirJob, KindsKept DEF Lifecycle, Ids
<1>9. QED
  BY <1>1, <1>6, <1>8 DEF Emptied, Type

(* A document whose PARSE has not committed is REGISTERED, or FAILED.      *)
ParseFirst ==
    \A d \in Docs : \A j \in RowsOf(d) :
        jobs[j].kind.type = "parse" /\ Live(j) /\ j \notin committed
        => doc[d].status \in {"registered", "failed"}

(* A PARSE stays ahead of its document until it commits.                   *)
LEMMA ParseFirstStep ==
    ASSUME Known, Exclusive, UploadsAndRebuilds, Lifecycle, Lifecycle', ParseFirst,
           [PipelineNext]_pipelineVars
    PROVE  ParseFirst'
<1> SUFFICES ASSUME NEW d \in Docs, NEW j \in RowsOf(d)', jobs'[j].kind.type = "parse",
                    Live(j)', j \notin committed'
             PROVE  doc'[d].status \in {"registered", "failed"}
  BY DEF ParseFirst
<1>1. ASSUME NEW w \in Workers, Builds(w, d)
      PROVE  doc'[d].status \in {"registered", "failed"}
  <2>1. Grows(d) /\ Advances(doc[d], doc'[d])
    BY <1>1, HandlerGrows, HandlerCommits
  <2>2. /\ j \in RowsOf(d) /\ jobs[j].kind.type = "parse" /\ Live(j)
        /\ j \notin committed /\ j # cur[w]
    <3>1. j \in RowsOf(d)
      BY <2>1 DEF Grows
    <3>2. PICK batch \in ProperBatches : CommitWork(w, {}, batch)
      BY <1>1, HandlerCommits DEF Commits
    <3>3. jobs' = Transact({}, {cur[w]}, batch) /\ j \in DOMAIN jobs
      BY <3>1, <3>2 DEF CommitWork, RowsOf, Ids
    <3>4. jobs'[j].kind = jobs[j].kind /\ (Live(j)' => Live(j))
      BY <3>3, TransactKeepsKinds DEF Known
    <3>5. j \notin committed /\ j # cur[w]
      BY <1>1 DEF Builds
    <3>6. QED
      BY <3>1, <3>4, <3>5
  <2>3. doc[d].status \in {"registered", "failed"}
    BY <2>2 DEF ParseFirst
  <2>4. /\ pc[w] = "execute" /\ seen[w].step # "unread" /\ Type(w) # "rebuild"
        /\ d = Target(w)
    BY <1>1 DEF Builds
  <2>5. /\ cur[w] \in RowsOf(d) /\ Live(cur[w]) /\ Type(w) \in Reached(doc[d].status)
        /\ DocJobs(d)
    BY <2>4, ReadIsNow
  <2>6. Type(w) # "parse"
    BY <2>2, <2>5 DEF DocJobs, Type
  <2>7. doc[d].status = "failed"
    BY <2>3, <2>5, <2>6 DEF Reached
  <2>8. QED
    BY <2>1, <2>7 DEF Advances
<1>2. CASE Still(d)
  <2>1. j \in RowsOf(d) /\ jobs[j].kind.type = "parse" /\ Live(j) /\ j \notin committed
    BY <1>2 DEF Still, SameJobs
  <2>2. QED
    BY <1>2, <2>1 DEF Still, ParseFirst
<1>3. doc'[d].status # "absent"
  BY DEF Lifecycle, DocJobs
<1>4. QED
  BY <1>1, <1>2, <1>3, DocumentSteps

(* The PARSE that is about to delete points has not committed.             *)
LEMMA ParsingIsFirst ==
    ASSUME Known, Exclusive, Lifecycle, MaxFaults = 0, CommittedIsDone, ParseFirst,
           NEW w \in Workers, pc[w] = "execute", seen[w].step # "unread",
           Type(w) = "parse"
    PROVE  ~Indexed(Target(w))
<1>1. PICK d : d = Target(w)
  OBVIOUS
<1>2. d \in Docs /\ cur[w] \in RowsOf(d) /\ Live(cur[w])
  BY <1>1, ReadIsNow
<1>3. cur[w] \notin committed
  <2>1. SUFFICES ASSUME cur[w] \in committed PROVE FALSE
    OBVIOUS
  <2>2. jobs[cur[w]].status # "succeeded"
    BY <1>2 DEF Live
  <2>3. PICK v \in Workers : cur[v] = cur[w] /\ pc[v] = "succeed"
    BY <2>1, <2>2 DEF CommittedIsDone
  <2>4. v # w
    BY <2>3
  <2>5. QED
    BY <2>3, <2>4, OnlyReader
<1>4. doc[d].status \in {"registered", "failed"}
  BY <1>2, <1>3 DEF ParseFirst, Type
<1>5. QED
  BY <1>1, <1>4 DEF Indexed

(* Only EMBED makes a document INDEXED, after its call.                    *)
LEMMA OnlyEmbedIndexes ==
    ASSUME Known, Lifecycle, NEW w \in Workers, NEW d, Builds(w, d),
           ~Indexed(d), doc'[d].status \in {"indexed", "ready"}
    PROVE  /\ Type(w) = "embed" /\ seen[w].step = "called"
           /\ doc[d].status = "segmented"
           /\ doc[d].rows = {Node, New("chunk", doc[d].made, {})}
           /\ doc'[d].rows = MarkEmbedded(doc[d].rows, Unembedded(doc[d]))
<1>1. Advances(doc[d], doc'[d]) /\ d \in Docs
  BY HandlerCommits
<1>2. /\ doc[d].status = "segmented" /\ Layer(doc[d], "chunk") # {}
      /\ doc'[d].rows = MarkEmbedded(doc[d].rows, Unembedded(doc[d]))
  BY <1>1 DEF Advances, Indexed
<1>3. /\ d = Target(w) /\ pc[w] = "execute" /\ seen[w].step # "unread"
      /\ Type(w) # "rebuild" /\ doc \in [Docs -> DocRow]
  BY DEF Builds, Known, DataOK
<1>4. /\ Type(w) \in Reached(doc[d].status) /\ Shape(doc[d])
      /\ Mine(w).status = doc[d].status
      /\ Unembedded(Mine(w)) = Unembedded(doc[d])
  BY <1>3, ReadIsNow
<1>5. Type(w) \in {"parse", "normalize", "segment", "embed"}
  BY <1>2, <1>4 DEF Reached
<1>6. ~Skip(w)
  <2>1. Skip(w) => doc' = [doc EXCEPT ![d] = doc[d]]
    BY <1>3 DEF Skip, Commit
  <2>2. Skip(w) => doc'[d] = doc[d]
    BY <1>1, <1>3, <2>1
  <2>3. QED
    BY <1>2, <2>2
<1>7. Embed(w)
  BY <1>2, <1>4, <1>5, <1>6 DEF Builds, Parse, Normalize, Segment, Extract, Turn,
     EmbedPropositions, GenerateSummaries, EmbedSummaries, BuildGraph,
     IndexVisualPages, CheckReadiness
<1>8. /\ Unembedded(Mine(w)) # {}
      /\ doc[d].rows = {Node, New("chunk", doc[d].made, {})}
  <2>0. doc[d].rows = {Node, New("chunk", doc[d].made, {})}
    <3>1. doc[d].rows \in {{Node}, {Node, New("chunk", doc[d].made, {})}}
      BY <1>2, <1>4 DEF Shape
    <3>2. doc[d].rows # {Node}
      BY <1>2 DEF Layer, Node, New
    <3>3. QED
      BY <3>1, <3>2
  <2>1. New("chunk", doc[d].made, {}) \in doc[d].rows
    BY <2>0
  <2>2. New("chunk", doc[d].made, {}) \in Unembedded(doc[d])
    BY <2>1 DEF Unembedded, Layer, New
  <2>3. QED
    BY <1>4, <2>0, <2>2
<1>9. Type(w) = "embed" /\ seen[w].step = "called"
  BY <1>2, <1>4, <1>7, <1>8 DEF Embed, Turn, NeedsQdrant
<1>10. QED
  BY <1>2, <1>8, <1>9

(* The vectors of an INDEXED document are there, or an optional Qdrant has *)
(* swallowed their upsert, unless a rebuild has emptied the collection; so *)
(* are those EMBED has called for.                                         *)
Accounted(d) == doc[d].points \cup Swallowed(d)

PointsKept ==
    \A d \in Docs : Indexed(d) => IdsOf(doc[d], "chunk") \subseteq Accounted(d) \/ Emptied

EmbedCalled ==
    \A w \in Workers : seen[w].step = "called" /\ Type(w) = "embed"
        => \A r \in Unembedded(doc[Target(w)]) : r.id \in Accounted(Target(w))

Searchable == CommittedIsDone /\ ParseFirst /\ PointsKept /\ EmbedCalled

(* A call to Qdrant, seen from one document: only the deletions of PARSE   *)
(* and REBUILD take something out of account.                              *)
LEMMA CallChanges ==
    ASSUME Known, NEW w \in Workers, UseQdrant(w), NEW d \in Docs
    PROVE  /\ doc'[d].status = doc[d].status /\ doc'[d].rows = doc[d].rows
           /\ \/ Type(w) = "rebuild"
              \/ Type(w) = "parse" /\ d = Target(w)
              \/ Accounted(d) \subseteq Accounted(d)'
           /\ Type(w) = "embed" /\ d = Target(w)
              => {r.id : r \in Unembedded(Mine(w))} \subseteq Accounted(d)'
<1>1. doc[d] \in DocRow /\ doc \in [Docs -> DocRow]
  BY DEF Known, DataOK
<1>2. NeedsQdrant(w)
  BY <1>1, CallTouchesPoints DEF CallOnly
<1> DEFINE sent == Upserted(w, d)
<1>3. Type(w) = "embed" /\ d = Target(w) => sent = {r.id : r \in Unembedded(Mine(w))}
  BY DEF Upserted
<1>4. ~(Type(w) = "embed" /\ d = Target(w)) => sent = {}
  BY DEF Upserted
<1>5. CASE CallQdrant(w)
  <2>1. doc'[d] = [doc[d] EXCEPT !.points = PointsAfterCall(w, d), !.missed = @ \ sent]
    BY <1>5 DEF CallQdrant
  <2>2. /\ doc'[d].points = PointsAfterCall(w, d)
        /\ doc'[d].missed = doc[d].missed \ sent
    BY <1>1, <2>1 DEF DocRow
  <2>3. \/ Type(w) = "rebuild"
        \/ Type(w) = "parse" /\ d = Target(w)
        \/ PointsAfterCall(w, d) = doc[d].points \cup sent
    <3>1. Type(w) # "rebuild" /\ d # Target(w) => PointsAfterCall(w, d) = doc[d].points
      BY DEF PointsAfterCall
    <3>2. Type(w) = "embed" /\ d = Target(w)
          => PointsAfterCall(w, d) = doc[d].points \cup sent
      BY DEF PointsAfterCall
    <3>3. QED
      BY <1>2, <1>4, <3>1, <3>2 DEF NeedsQdrant
  <2> HIDE DEF sent
  <2>4. ASSUME PointsAfterCall(w, d) = doc[d].points \cup sent
        PROVE  Accounted(d) \subseteq Accounted(d)' /\ sent \subseteq Accounted(d)'
    BY <2>2, <2>4 DEF Accounted, Swallowed
  <2>5. Type(w) = "embed" => Type(w) # "rebuild" /\ Type(w) # "parse"
    OBVIOUS
  <2>6. QED
    BY <1>1, <1>3, <2>3, <2>4, <2>5, CallTouchesPoints DEF CallOnly
<1>6. CASE MissQdrant(w)
  <2>1. doc'[d] = [doc[d] EXCEPT !.missed = @ \cup sent] /\ ~QdrantRequired
    BY <1>6 DEF MissQdrant
  <2>2. doc'[d].points = doc[d].points /\ doc'[d].missed = doc[d].missed \cup sent
    BY <1>1, <2>1 DEF DocRow
  <2> HIDE DEF sent
  <2>3. Accounted(d) \subseteq Accounted(d)' /\ sent \subseteq Accounted(d)'
    BY <2>1, <2>2 DEF Accounted, Swallowed
  <2>4. QED
    BY <1>1, <1>3, <2>3, CallTouchesPoints DEF CallOnly
<1>7. QED
  BY <1>5, <1>6 DEF UseQdrant

(* EMBED finds its points there when it commits.                           *)
LEMMA EmbedCalledStep ==
    ASSUME Known, Known', Exclusive, UploadsAndRebuilds, Lifecycle, Lifecycle',
           EmbedCalled, [PipelineNext]_pipelineVars
    PROVE  EmbedCalled'
<1> SUFFICES ASSUME NEW v \in Workers, seen'[v].step = "called", Type(v)' = "embed"
             PROVE  \A r \in Unembedded(doc'[Target(v)']) :
                       r.id \in Accounted(Target(v))'
  BY DEF EmbedCalled
<1>0. TypeOK /\ JobsFit /\ DataOK
  BY DEF Known
<1>1. CASE UseQdrant(v)
  <2>1. /\ pc[v] = "execute" /\ seen[v].step = "read" /\ UNCHANGED queueVars
    BY <1>1 DEF UseQdrant, CallQdrant, MissQdrant, AtQdrant
  <2>2. Type(v) = "embed" /\ Type(v)' = Type(v) /\ Target(v)' = Target(v)
    BY <2>1 DEF Type, Target, queueVars
  <2>3. PICK d : d = Target(v)
    OBVIOUS
  <2>4. d \in Docs /\ Unembedded(Mine(v)) = Unembedded(doc[d])
    BY <2>1, <2>2, <2>3, ReadIsNow
  <2>5. /\ doc'[d].rows = doc[d].rows
        /\ {r.id : r \in Unembedded(doc[d])} \subseteq Accounted(d)'
    BY <1>1, <2>2, <2>3, <2>4, CallChanges
  <2>6. Unembedded(doc'[d]) = Unembedded(doc[d])
    BY <2>5 DEF Unembedded, Layer
  <2>7. \A r \in Unembedded(doc'[d]) : r.id \in Accounted(d)'
    BY <2>5, <2>6
  <2>8. QED
    BY <2>2, <2>3, <2>7 DEF Accounted, Swallowed
<1>2. CASE ~UseQdrant(v)
  <2>1. /\ seen[v].step = "called" /\ pc[v] = "execute"
        /\ Type(v)' = Type(v) /\ Target(v)' = Target(v)
    BY <1>2, CallsLast
  <2>2. PICK d : d = Target(v)
    OBVIOUS
  <2>3. /\ d \in Docs /\ Mine(v).status # "absent"
        /\ Mine(v).rows = doc[d].rows
    BY <2>1, <2>2, ReadIsNow
  <2>4. doc'[d].rows = doc[d].rows
    <3>1. ~Begin(v)
      BY <2>1 DEF Begin
    <3>2. seen'[v].doc = seen[v].doc
      BY <3>1, ReadingsLast
    <3>3. seen'[v].doc[d].rows = doc'[d].rows
      BY <2>2, <2>3, <3>2 DEF Lifecycle, SeenIsNow, Mine
    <3>4. QED
      BY <2>2, <2>3, <3>2, <3>3 DEF Mine
  <2>5. \A w \in Workers : ~UseQdrant(w)
    BY <1>2, <2>1, OnlyReader DEF UseQdrant, CallQdrant, MissQdrant, AtQdrant
  <2>6. Accounted(d)' = Accounted(d)
    BY <2>3, <2>5, OnlyCallsMovePoints DEF SamePoints, Accounted, Swallowed
  <2>7. \A r \in Unembedded(doc[d]) : r.id \in Accounted(d)
    BY <2>1, <2>2 DEF EmbedCalled
  <2>8. Unembedded(doc'[d]) = Unembedded(doc[d])
    BY <2>4 DEF Unembedded, Layer
  <2>9. \A r \in Unembedded(doc'[d]) : r.id \in Accounted(d)'
    BY <2>6, <2>7, <2>8
  <2>10. QED
    BY <2>1, <2>2, <2>9 DEF Accounted, Swallowed
<1>3. QED
  BY <1>1, <1>2

(* The chunks an EMBED marks are those it has sent to Qdrant.              *)
LEMMA IndexedAreEmbedded ==
    ASSUME Known, Lifecycle, EmbedCalled, NEW w \in Workers, NEW d, Builds(w, d),
           ~Indexed(d), doc'[d].status \in {"indexed", "ready"}
    PROVE  IdsOf(doc'[d], "chunk") \subseteq Accounted(d)
<1>1. /\ Type(w) = "embed" /\ seen[w].step = "called" /\ doc[d].status = "segmented"
      /\ doc[d].rows = {Node, New("chunk", doc[d].made, {})}
      /\ doc'[d].rows = MarkEmbedded(doc[d].rows, Unembedded(doc[d]))
  BY OnlyEmbedIndexes
<1>2. d \in Docs /\ d = Target(w) /\ Shape(doc[d])
  BY HandlerCommits DEF Builds, Lifecycle
<1>3. \A r \in Unembedded(doc[d]) : r.id \in Accounted(d)
  BY <1>1, <1>2 DEF EmbedCalled
<1>4. doc[d].rows = {Node, New("chunk", doc[d].made, {})}
  BY <1>1
<1>5. New("chunk", doc[d].made, {}) \in Unembedded(doc[d])
  BY <1>4 DEF Unembedded, Layer, New
<1>6. doc[d].made \in Accounted(d)
  BY <1>3, <1>5 DEF New
<1>7. IdsOf(doc'[d], "chunk") = IdsOf(doc[d], "chunk")
  <2>1. doc[d] \in DocRow
    BY <1>2 DEF Known, DataOK
  <2>2. Enriched(doc[d], doc'[d])
    BY <1>1, <2>1, MarkedIsEnriched
  <2>3. QED
    BY <2>2, EnrichedLayers
<1>8. IdsOf(doc[d], "chunk") = {doc[d].made}
  <2>1. ASSUME NEW r \in doc[d].rows, r.layer = "chunk"
        PROVE  r.id = doc[d].made
    BY <1>4, <2>1 DEF Node, New
  <2>2. \A id \in IdsOf(doc[d], "chunk") : id = doc[d].made
    BY <2>1 DEF IdsOf, Layer
  <2>3. doc[d].made \in IdsOf(doc[d], "chunk")
    BY <1>5 DEF Unembedded, IdsOf, Layer, New
  <2>4. QED
    BY <2>2, <2>3
<1>9. QED
  BY <1>6, <1>7, <1>8

(* Advancing an INDEXED document leaves its chunks.                        *)
LEMMA ChunksStay ==
    ASSUME NEW old, NEW new, Advances(old, new), old.status \in {"indexed", "ready"},
           new.status # "failed"
    PROVE  IdsOf(new, "chunk") = IdsOf(old, "chunk")
<1>1. new.rows = old.rows \/ Enriched(old, new)
  BY DEF Advances
<1>2. CASE new.rows = old.rows
  BY <1>2 DEF IdsOf, Layer
<1>3. CASE Enriched(old, new)
  BY <1>3, EnrichedLayers
<1>4. QED
  BY <1>1, <1>2, <1>3

(* No step takes the vectors of an INDEXED document away.                  *)
LEMMA PointsKeptStep ==
    ASSUME Known, Known', Exclusive, UploadsAndRebuilds, Lifecycle, Lifecycle',
           MaxFaults = 0, "rebuild" \notin Fallible, Searchable,
           [PipelineNext]_pipelineVars
    PROVE  PointsKept'
<1> SUFFICES ASSUME NEW d \in Docs, doc'[d].status \in {"indexed", "ready"}, ~Emptied'
             PROVE  IdsOf(doc'[d], "chunk") \subseteq Accounted(d)'
  BY DEF PointsKept, Indexed
<1>1. ASSUME NEW w \in Workers, Rebuild(w) PROVE FALSE
  BY <1>1, RebuildMoves
<1>2. ~Emptied
  BY <1>1, EmptiedLasts
<1>3. Indexed(d) => IdsOf(doc[d], "chunk") \subseteq Accounted(d)
  BY <1>2 DEF Searchable, PointsKept
<1>4. ASSUME NEW w \in Workers, UseQdrant(w)
      PROVE  IdsOf(doc'[d], "chunk") \subseteq Accounted(d)'
  <2>1. /\ pc[w] = "execute" /\ seen[w].step = "read" /\ NeedsQdrant(w)
        /\ UNCHANGED queueVars /\ seen' = [seen EXCEPT ![w].step = "called"]
    BY <1>4 DEF UseQdrant, CallQdrant, MissQdrant, AtQdrant
  <2>2. /\ doc'[d].status = doc[d].status /\ doc'[d].rows = doc[d].rows
        /\ \/ Type(w) = "rebuild"
           \/ Type(w) = "parse" /\ d = Target(w)
           \/ Accounted(d) \subseteq Accounted(d)'
    BY <1>4, CallChanges
  <2>3. Indexed(d) /\ IdsOf(doc'[d], "chunk") = IdsOf(doc[d], "chunk")
    BY <2>2 DEF Indexed, IdsOf, Layer
  <2>4. Type(w) # "rebuild"
    <3>1. seen[w] \in SeenRow /\ seen \in [Workers -> SeenType]
      BY <2>1, ReadIsTyped DEF Known, DataOK
    <3>2. seen'[w].step = "called" /\ Type(w)' = Type(w)
      BY <2>1, <3>1 DEF SeenRow, Type, queueVars
    <3>3. QED
      BY <3>2 DEF Emptied
  <2>5. ~(d = Target(w) /\ Type(w) = "parse")
    BY <2>1, <2>3, ParsingIsFirst DEF Searchable
  <2>6. QED
    BY <1>3, <2>2, <2>3, <2>4, <2>5
<1>5. CASE \A w \in Workers : ~UseQdrant(w)
  <2>1. Accounted(d)' = Accounted(d)
    BY <1>5, OnlyCallsMovePoints DEF SamePoints, Accounted, Swallowed
  <2>2. CASE Still(d)
    BY <1>3, <2>1, <2>2 DEF Still, Indexed, IdsOf, Layer
  <2>3. ASSUME NEW w \in Workers, Builds(w, d), Indexed(d)
        PROVE  IdsOf(doc'[d], "chunk") \subseteq Accounted(d)'
    BY <1>3, <2>1, <2>3, HandlerCommits, ChunksStay DEF Indexed
  <2>4. ASSUME NEW w \in Workers, Builds(w, d), ~Indexed(d)
        PROVE  IdsOf(doc'[d], "chunk") \subseteq Accounted(d)'
    BY <2>1, <2>4, IndexedAreEmbedded DEF Searchable
  <2>5. QED
    BY <2>2, <2>3, <2>4, DocumentSteps
<1>6. QED
  BY <1>4, <1>5

(* PublishedIsSearchable: with one worker, when files are uploaded once,   *)
(* no process dies, no status commit is lost and a rebuild's own calls do  *)
(* not fail, every chunk of a READY document of a published collection     *)
(* has its vector in Qdrant, through any number of rebuilds and of failing *)
(* calls of the other stages: every one when Qdrant is required, and when  *)
(* it is optional all but those whose own upsert its adapter has logged    *)
(* and dropped.  A rebuild that has deleted the points and then rolls      *)
(* back, or a PARSE run again after a crash, breaks it.                    *)
THEOREM PublishedCorpusIsSearchable ==
    ASSUME Exclusive, UploadsAndRebuilds, MaxFaults = 0, "rebuild" \notin Fallible
    PROVE  PipelineSpec => []PublishedIsSearchable
<1>1. PipelineInit => Searchable
  <2> SUFFICES ASSUME PipelineInit PROVE Searchable
    OBVIOUS
  <2>1. Ids = {} /\ committed = {}
    BY LenProperties DEF PipelineInit, Init, Ids
  <2>2. \A d \in Docs : doc[d].status = "absent"
    BY DEF PipelineInit, NoDoc
  <2>3. \A w \in Workers : seen[w].step = "unread"
    BY DEF PipelineInit
  <2>4. QED
    BY <2>1, <2>2, <2>3 DEF Searchable, CommittedIsDone, ParseFirst, RowsOf,
                            PointsKept, Indexed, EmbedCalled
<1>2. /\ Known /\ Lifecycle /\ Known' /\ Lifecycle' /\ Searchable
      /\ [PipelineNext]_pipelineVars
      => Searchable'
  <2> SUFFICES ASSUME Known, Known', Lifecycle, Lifecycle', Searchable,
                      [PipelineNext]_pipelineVars
               PROVE  Searchable'
    OBVIOUS
  <2>1. CommittedIsDone'
    <3>1. QueueStep \/ UNCHANGED queueVars
      BY PipelineQueueStep DEF Known
    <3>2. QED
      BY <3>1, CommittedIsDoneStep DEF Searchable, Lifecycle
  <2>2. ParseFirst'
    BY ParseFirstStep DEF Searchable
  <2>3. PointsKept'
    BY PointsKeptStep
  <2>4. EmbedCalled'
    BY EmbedCalledStep DEF Searchable
  <2>5. QED
    BY <2>1, <2>2, <2>3, <2>4 DEF Searchable
<1>3. Known /\ Lifecycle /\ Searchable => PublishedIsSearchable
  <2> SUFFICES ASSUME Known, Lifecycle, Searchable, Published, NEW d \in Docs,
                      doc[d].status = "ready"
               PROVE  IdsOf(doc[d], "chunk") \subseteq Accounted(d)
    BY DEF PublishedIsSearchable, Accounted
  <2>1. ASSUME Emptied PROVE FALSE
    <3>1. PICK w \in Workers : seen[w].step = "called" /\ Type(w) = "rebuild"
      BY <2>1 DEF Emptied
    <3>2. pc[w] = "execute"
      BY <3>1 DEF Known, SeenWhileExecuting
    <3>3. cur[w] \in Ids /\ Target(w) = Collection
      BY <3>1, <3>2, HeldJob DEF Known
    <3>4. jobs[cur[w]].status = "running"
      BY <3>2 DEF Lifecycle, HeldRuns
    <3>5. QED
      BY <3>1, <3>3, <3>4 DEF Published, Active, Type, Target
  <2>2. QED
    BY <2>1 DEF Searchable, PointsKept, Indexed
<1>4. QED
  BY <1>1, <1>2, <1>3, LifecycleHolds, PTL DEF PipelineSpec


-----------------------------------------------------------------------------
(***************************************************************************)
(* What becomes of a job in one step of the pipeline.                      *)
(***************************************************************************)
Fate(j) ==
    \/ jobs'[j].status = jobs[j].status
    \/ Live(j) /\ Live(j)'
    \/ /\ Live(j) /\ jobs'[j].status = "succeeded"
       /\ \E w \in Workers : Succeed(w) /\ cur[w] = j
    \/ /\ Live(j) /\ jobs'[j].status = "failed"
       /\ \E w \in Workers : Fail(w) /\ cur[w] = j
    \/ /\ Live(j) /\ jobs'[j].status = "deleted"
       /\ \/ \E w \in Workers : Rebuild(w)
          \/ \E d \in Docs : Register(d) /\ jobs[j].kind.target = d

(* The loop claims, requeues and settles.                                  *)
LEMMA LoopFates ==
    ASSUME Known, Exclusive, HeldRuns, NEW w \in Workers, Loop(w),
           NEW j \in DOMAIN jobs
    PROVE  Fate(j)
<1> USE JobQueueAssumption
<1>0. /\ TypeOK /\ StaleRowsRun /\ jobs \in Seq(Row) /\ JobsFit
      /\ \A i \in DOMAIN jobs : jobs[i] \in Row
  <2>1. TypeOK /\ StaleRowsRun /\ JobsFit
    BY DEF Known, IInv
  <2>2. QED
    BY <2>1, LenProperties, ElementOfSeq DEF TypeOK
<1>1. CASE UNCHANGED jobs
  BY <1>1 DEF Fate
<1>2. CASE Claim(w)
  <2>1. jobs[cur[w]].status = "pending"
    BY <1>2 DEF Claim, Has
  <2>2. \A i \in DOMAIN jobs :
           jobs'[i] = IF i = cur[w] THEN [jobs[i] EXCEPT !.status = "running"] ELSE jobs[i]
    BY <1>0, <1>2, ClaimRows
  <2>3. [jobs[j] EXCEPT !.status = "running"].status = "running"
    BY <1>0, RowWrites DEF Statuses
  <2>4. QED
    BY <2>1, <2>2, <2>3 DEF Fate, Live
<1>3. CASE ClaimUnhandled(w)
  <2>1. cur[w] \in Ids /\ jobs[cur[w]].kind.type \notin HandledTypes
    BY <1>0, <1>3 DEF ClaimUnhandled, TypeOK
  <2>2. jobs[cur[w]].kind \in PipelineKind
    BY <1>0, <2>1 DEF JobsFit
  <2>3. QED
    BY <2>1, <2>2, PipelineAssumption DEF PipelineKind, Kind
<1>4. CASE Succeed(w)
  <2>1. jobs[cur[w]].status = "running"
    BY <1>4 DEF Succeed, HeldRuns
  <2>2. \A i \in DOMAIN jobs :
           jobs'[i] = IF i = cur[w] /\ jobs[i].status # "deleted"
                      THEN [jobs[i] EXCEPT !.status = "succeeded"] ELSE jobs[i]
    BY <1>0, <1>4, SucceedRows
  <2>3. [jobs[j] EXCEPT !.status = "succeeded"].status = "succeeded"
    BY <1>0, RowWrites DEF Statuses
  <2>4. QED
    BY <1>4, <2>1, <2>2, <2>3 DEF Fate, Live
<1>5. CASE Fail(w)
  <2>1. jobs[cur[w]].status = "running"
    BY <1>5 DEF Fail, HeldRuns
  <2>2. \A i \in DOMAIN jobs :
           jobs'[i] = IF i = cur[w] /\ jobs[i].status # "deleted"
                      THEN Failed(jobs[i]) ELSE jobs[i]
    BY <1>0, <1>5, FailRows
  <2>3. Failed(jobs[j]).status \in {"failed", "pending"}
    BY <1>0, RowWrites
  <2>4. QED
    BY <1>5, <2>1, <2>2, <2>3 DEF Fate, Live
<1>6. CASE RequeueStale(w)
  <2>1. \A i \in stale[w] : i \in DOMAIN jobs => jobs[i].status = "running"
    BY <1>0, <1>6 DEF RequeueStale, StaleRowsRun, Has
  <2>2. \A i \in DOMAIN jobs :
           jobs'[i] = IF i \in stale[w]
                      THEN [jobs[i] EXCEPT !.status = "pending"] ELSE jobs[i]
    BY <1>0, <1>6, RequeueRows
  <2>3. [jobs[j] EXCEPT !.status = "pending"].status = "pending"
    BY <1>0, RowWrites DEF Statuses
  <2>4. QED
    BY <2>1, <2>2, <2>3 DEF Fate, Live
<1>7. QED
  BY <1>1, <1>2, <1>3, <1>4, <1>5, <1>6
     DEF Loop, ScanStale, RequeueRolledBack, Pick, Release, ClaimLost

(* A transaction deletes jobs of the targets it drops, and adds new ones.  *)
LEMMA TransactFates ==
    ASSUME TypeOK, NEW dropped, NEW spared, NEW batch \in ProperBatches,
           jobs' = Transact(dropped, spared, batch)
    PROVE  /\ \A j \in DOMAIN jobs :
                 \/ jobs'[j].status = jobs[j].status
                 \/ /\ jobs[j].status = "pending" /\ jobs'[j].status = "deleted"
                    /\ jobs[j].kind.target \in dropped
           /\ \A n \in DOMAIN jobs' \ DOMAIN jobs : jobs'[n].status = "pending"
<1> USE JobQueueAssumption
<1>1. /\ jobs \in Seq(Row) /\ DOMAIN jobs = 1..Len(jobs) /\ Len(jobs) \in Nat
      /\ \A j \in DOMAIN jobs : jobs[j] \in Row
  BY LenProperties, ElementOfSeq DEF TypeOK
<1>2. TransactEffect(dropped, spared, batch)
  BY <1>1, TransactTable DEF ProperBatches
<1>3. \A j \in DOMAIN jobs : [jobs[j] EXCEPT !.status = "deleted"].status = "deleted"
  BY <1>1, RowWrites DEF Statuses
<1>4. \A k \in Kind : NewRow(k).status = "pending"
  BY DEF NewRow
<1>5. \A i \in DOMAIN batch : NewRow(batch[i]).status = "pending"
  BY DEF NewRow
<1>6. QED
  BY <1>2, <1>3, <1>5 DEF TransactEffect

(* Only the step of a handler or a request inserts jobs, all PENDING.      *)
LEMMA JobFates ==
    ASSUME Known, Exclusive, UploadsAndRebuilds, Lifecycle,
           [PipelineNext]_pipelineVars
    PROVE  /\ \A j \in DOMAIN jobs : Fate(j)
           /\ \A n \in DOMAIN jobs' \ DOMAIN jobs : jobs'[n].status = "pending"
<1> DEFINE Goal == /\ \A j \in DOMAIN jobs : Fate(j)
                   /\ \A n \in DOMAIN jobs' \ DOMAIN jobs : jobs'[n].status = "pending"
<1>0. TypeOK /\ JobsFit /\ HeldRuns
  BY DEF Known, Lifecycle
<1>1. ASSUME UNCHANGED jobs PROVE Goal
  BY <1>1 DEF Fate
<1>2. ASSUME NEW dropped, NEW spared, NEW batch \in ProperBatches,
             jobs' = Transact(dropped, spared, batch),
             \/ dropped = {}
             \/ \E w \in Workers : Rebuild(w)
             \/ \E d \in Docs : Register(d) /\ dropped = {d}
      PROVE  Goal
  <2>1. /\ \A j \in DOMAIN jobs :
              \/ jobs'[j].status = jobs[j].status
              \/ /\ jobs[j].status = "pending" /\ jobs'[j].status = "deleted"
                 /\ jobs[j].kind.target \in dropped
        /\ \A n \in DOMAIN jobs' \ DOMAIN jobs : jobs'[n].status = "pending"
    BY <1>0, <1>2, TransactFates
  <2>2. \A j \in DOMAIN jobs : jobs[j].kind.target \in dropped
           => \/ \E w \in Workers : Rebuild(w)
              \/ \E d \in Docs : Register(d) /\ jobs[j].kind.target = d
    BY <1>2
  <2>3. QED
    BY <2>1, <2>2 DEF Fate, Live
<1>3. ASSUME NEW w \in Workers, Poll(w) PROVE Goal
  <2>1. CASE Start(w)
    BY <1>1, <2>1 DEF Start
  <2>2. CASE Loop(w)
    <3>1. \A j \in DOMAIN jobs : Fate(j)
      BY <1>0, <2>2, LoopFates
    <3>2. DOMAIN jobs' = DOMAIN jobs
      BY <1>0, <2>2, LoopKeepsTable DEF SameTable
    <3>3. QED
      BY <3>1, <3>2
  <2>3. QED
    BY <1>3, <2>1, <2>2 DEF Poll
<1>4. ASSUME NEW w \in Workers, NEW d, Builds(w, d) PROVE Goal
  <2>1. PICK batch \in ProperBatches : CommitWork(w, {}, batch)
    BY <1>4, HandlerCommits DEF Commits
  <2>2. PICK gone, held : gone = {} /\ held = {cur[w]}
    OBVIOUS
  <2>3. jobs' = Transact(gone, held, batch)
    BY <2>1, <2>2 DEF CommitWork
  <2>4. QED
    BY <1>2, <2>2, <2>3
<1>5. ASSUME NEW w \in Workers, Rebuild(w) PROVE Goal
  <2>1. Acts(w)
    <3>1. pc \in [Workers -> Steps] /\ pc'[w] = "succeed"
      BY <1>0, <1>5 DEF TypeOK, Rebuild, CommitWork, Goto
    <3>2. Acts(w) \/ RaiseError(w)
      BY <1>0, <1>5, WriteActs DEF Write
    <3>3. ~RaiseError(w)
      BY <3>1 DEF RaiseError, Goto
    <3>4. QED
      BY <3>2, <3>3
  <2>2. PICK dropped \in SUBSET Targets, batch \in ProperBatches :
           CommitWork(w, dropped, batch)
    BY <2>1 DEF Acts
  <2>3. PICK held : held = {cur[w]}
    OBVIOUS
  <2>4. jobs' = Transact(dropped, held, batch)
    BY <2>2, <2>3 DEF CommitWork
  <2>5. QED
    BY <1>2, <1>5, <2>4
<1>6. ASSUME NEW d \in Docs, Register(d) PROVE Goal
  <2>1. PICK batch : batch = <<Job("parse", d)>>
    OBVIOUS
  <2>2. batch \in ProperBatches
    BY <2>1, SmallBatch, ProperJob DEF Job, PipelineTypes
  <2>3. PICK gone, held : gone = {d} /\ held = {}
    OBVIOUS
  <2>4. jobs' = Transact(gone, held, batch)
    BY <1>6, <2>1, <2>3 DEF Register, Request
  <2>5. QED
    BY <1>2, <1>6, <2>2, <2>3, <2>4
<1>7. ASSUME RequestRebuild PROVE Goal
  <2>1. PICK batch : batch = <<Job("rebuild", Collection)>>
    OBVIOUS
  <2>2. batch \in ProperBatches
    BY <2>1, SmallBatch, ProperJob, PipelineAssumption DEF Job
  <2>3. PICK gone, held : gone = {} /\ held = {}
    OBVIOUS
  <2>4. jobs' = Transact(gone, held, batch)
    BY <1>7, <2>1, <2>3 DEF RequestRebuild, Request
  <2>5. QED
    BY <1>2, <2>2, <2>3, <2>4
<1> HIDE DEF Goal
<1>8. ASSUME NEW w \in Workers, Work(w) PROVE Goal
  <2>1. ASSUME Begin(w) \/ UseQdrant(w) \/ ParseRefused(w) \/ Refuse(w)
        PROVE  UNCHANGED jobs
    BY <2>1 DEF Begin, UseQdrant, CallQdrant, MissQdrant, AtQdrant, ParseRefused,
                Refuse, RaiseError, queueVars
  <2>2. CASE Write(w) /\ ~ParseRefused(w) /\ ~Refuse(w) /\ ~Rebuild(w)
    BY <1>4, <2>2, WriteBuilds
  <2>3. QED
    BY <1>1, <1>5, <1>8, <2>1, <2>2 DEF Work
<1>9. ASSUME NEW w \in Workers, Break(w) PROVE UNCHANGED jobs
  BY <1>9 DEF Break, Abort, RaiseError, Crash, SucceedNotCommitted, FailNotCommitted
<1>10. ASSUME NEW j \in Ids, Expire(j) \/ Outlive(j) PROVE UNCHANGED jobs
  BY <1>10 DEF Expire, Outlive
<1>11. ASSUME UNCHANGED pipelineVars PROVE UNCHANGED jobs
  BY <1>11 DEF pipelineVars, queueVars
<1>12. ASSUME NEW d \in Docs, Resume(d) PROVE FALSE
  BY <1>12 DEF Resume, Asked, UploadsAndRebuilds
<1>13. Goal
  BY <1>1, <1>3, <1>6, <1>7, <1>8, <1>9, <1>10, <1>11, <1>12 DEF PipelineNext, Ask
<1>14. QED
  BY <1>13 DEF Goal

-----------------------------------------------------------------------------
(***************************************************************************)
(* The order of the stages.  Without faults each stage of a generation but *)
(* CHECK has one job, inserted when the stage before it has committed.     *)
(***************************************************************************)
Before(type) ==
    CASE type = "normalize"       -> "parse"
      [] type = "segment"         -> "normalize"
      [] type = "embed"           -> "segment"
      [] type = "extract"         -> "embed"
      [] type \in {"embed_propositions", "summarize", "graph"} -> "extract"
      [] type = "embed_summaries" -> "summarize"
      [] type = "visual"          -> "graph"
      [] OTHER                    -> "none"

Ordered(d) ==
    \A j \in RowsOf(d) : Since(d, j) /\ jobs[j].kind.type # "check" =>
        /\ \A i \in RowsOf(d) :
              Since(d, i) /\ jobs[i].kind.type = jobs[j].kind.type => i = j
        /\ jobs[j].kind.type # "parse" => \E i \in RowsOf(d) :
              /\ Since(d, i) /\ i \in committed
              /\ jobs[i].kind.type = Before(jobs[j].kind.type)

(* The job a worker executes has not committed.                            *)
LEMMA HeldIsOpen ==
    ASSUME Known, Exclusive, HeldRuns, CommittedIsDone, MaxFaults = 0,
           NEW w \in Workers, pc[w] = "execute"
    PROVE  cur[w] \notin committed
<1> SUFFICES ASSUME cur[w] \in committed PROVE FALSE
  OBVIOUS
<1>1. jobs[cur[w]].status = "running"
  BY DEF HeldRuns
<1>2. PICK v \in Workers : cur[v] = cur[w] /\ pc[v] = "succeed"
  BY <1>1 DEF CommittedIsDone
<1>3. v # w
  BY <1>2
<1>4. QED
  BY <1>2, <1>3, OnlyReader

(* A live check has not committed while a worker executes another job.     *)
LEMMA LiveIsOpen ==
    ASSUME Known, Exclusive, HeldRuns, CommittedIsDone, MaxFaults = 0,
           NEW j \in Ids, Live(j),
           \A w \in Workers : pc[w] = "succeed" => cur[w] # j
    PROVE  j \notin committed
BY DEF CommittedIsDone, Live

(* What a handler inserts follows its own stage.                           *)
FollowUp(w, batch) ==
    \A i \in DOMAIN batch :
        batch[i].type = "check" \/ Before(batch[i].type) = Type(w)

(* Two such batches make one.                                              *)
LEMMA FollowConcat ==
    ASSUME NEW w, NEW s \in Seq(PipelineKind), NEW t \in Seq(PipelineKind),
           FollowUp(w, s), FollowUp(w, t)
    PROVE  FollowUp(w, s \o t) /\ s \o t \in Seq(PipelineKind)
<1>1. /\ s \o t \in Seq(PipelineKind)
      /\ Len(s \o t) = Len(s) + Len(t)
      /\ \A i \in 1..Len(s) + Len(t) :
            (s \o t)[i] = IF i <= Len(s) THEN s[i] ELSE t[i - Len(s)]
  BY ConcatProperties, Zenon
<1>2. /\ DOMAIN s = 1..Len(s) /\ Len(s) \in Nat
      /\ DOMAIN t = 1..Len(t) /\ Len(t) \in Nat
      /\ DOMAIN (s \o t) = 1..Len(s) + Len(t)
  BY <1>1, LenProperties
<1>3. ASSUME NEW i \in DOMAIN (s \o t)
      PROVE  \/ i \in DOMAIN s /\ (s \o t)[i] = s[i]
             \/ i - Len(s) \in DOMAIN t /\ (s \o t)[i] = t[i - Len(s)]
  BY <1>1, <1>2
<1>4. QED
  BY <1>1, <1>3 DEF FollowUp

(* Every handler commits such a batch.                                     *)
LEMMA HandlersFollow ==
    ASSUME Known, NEW w \in Workers, NEW d, Builds(w, d)
    PROVE  \E batch \in ProperBatches : FollowUp(w, batch) /\ CommitWork(w, {}, batch)
<1>1. /\ d = Target(w) /\ d \in Docs /\ TypeOK /\ JobsFit
      /\ pc[w] = "execute" /\ Type(w) # "rebuild"
  BY HeldJob DEF Builds, Known
<1>2. ASSUME NEW type \in PipelineTypes \ {"rebuild"},
             type = "check" \/ Before(type) = Type(w)
      PROVE  /\ FollowUp(w, <<Job(type, d)>>) /\ FollowUp(w, Ensure(type, d))
             /\ <<Job(type, d)>> \in ProperBatches /\ Ensure(type, d) \in ProperBatches
  <2>1. FollowUp(w, <<Job(type, d)>>)
    BY <1>2 DEF FollowUp, Job
  <2>2. FollowUp(w, <<>>)
    BY DEF FollowUp
  <2>3. FollowUp(w, Ensure(type, d))
    BY <2>1, <2>2 DEF Ensure
  <2>4. <<Job(type, d)>> \in ProperBatches /\ Ensure(type, d) \in ProperBatches
    BY <1>1, ProperJob, SmallBatch, EnsureIsFew, FewIsProper
  <2>5. QED
    BY <2>1, <2>3, <2>4
<1>3. ASSUME NEW row, NEW batch \in ProperBatches, Commit(w, d, row, batch),
             FollowUp(w, batch)
      PROVE  \E b \in ProperBatches : FollowUp(w, b) /\ CommitWork(w, {}, b)
  BY <1>3 DEF Commit
<1>4. ASSUME NEW type \in PipelineTypes \ {"rebuild"},
             type = "check" \/ Before(type) = Type(w), NEW row,
             Commit(w, d, row, <<Job(type, d)>>) \/ Commit(w, d, row, Ensure(type, d))
      PROVE  \E b \in ProperBatches : FollowUp(w, b) /\ CommitWork(w, {}, b)
  BY <1>2, <1>3, <1>4
<1>5. CASE Parse(w)
  <2>1. Before("normalize") = Type(w) /\ "normalize" \in PipelineTypes \ {"rebuild"}
    BY <1>5 DEF Parse, Turn, Before, PipelineTypes
  <2>2. \E row : Commit(w, d, row, <<Job("normalize", d)>>)
    BY <1>1, <1>5 DEF Parse
  <2>3. QED
    BY <1>4, <2>1, <2>2
<1>6. CASE Normalize(w)
  <2>1. Before("segment") = Type(w) /\ "segment" \in PipelineTypes \ {"rebuild"}
    BY <1>6 DEF Normalize, Turn, Before, PipelineTypes
  <2>2. \E row : Commit(w, d, row, <<Job("segment", d)>>)
    BY <1>1, <1>6 DEF Normalize
  <2>3. QED
    BY <1>4, <2>1, <2>2
<1>7. CASE Segment(w)
  <2>1. Before("embed") = Type(w) /\ "embed" \in PipelineTypes \ {"rebuild"}
    BY <1>7 DEF Segment, Turn, Before, PipelineTypes
  <2>2. \E row : Commit(w, d, row, <<Job("embed", d)>>)
    BY <1>1, <1>7 DEF Segment
  <2>3. QED
    BY <1>4, <2>1, <2>2
<1>8. CASE Embed(w)
  <2>1. Before("extract") = Type(w) /\ "extract" \in PipelineTypes \ {"rebuild"}
    BY <1>8 DEF Embed, Turn, Before, PipelineTypes
  <2>2. \E row : Commit(w, d, row, <<Job("extract", d)>>)
    BY <1>1, <1>8 DEF Embed
  <2>3. QED
    BY <1>4, <2>1, <2>2
<1>9. CASE Extract(w)
  <2>1. /\ Before("embed_propositions") = Type(w) /\ Before("summarize") = Type(w)
        /\ Before("graph") = Type(w)
        /\ {"embed_propositions", "summarize", "graph"} \subseteq PipelineTypes \ {"rebuild"}
    BY <1>9 DEF Extract, Turn, Before, PipelineTypes
  <2> DEFINE s == Ensure("embed_propositions", d)
             t == Ensure("summarize", d)
             u == Ensure("graph", d)
  <2>2. FollowUp(w, s) /\ FollowUp(w, t) /\ FollowUp(w, u)
    BY <1>2, <2>1
  <2>3. Few(3, s \o t \o u)
    BY <1>1, FanOutIsFresh
  <2>4. s \in Seq(PipelineKind) /\ t \in Seq(PipelineKind) /\ u \in Seq(PipelineKind)
    BY <1>1, <2>1, EnsureIsFew DEF Few
  <2>5. \E row : Commit(w, d, row, s \o t \o u)
    BY <1>1, <1>9 DEF Extract
  <2> HIDE DEF s, t, u
  <2>6. FollowUp(w, s \o t) /\ s \o t \in Seq(PipelineKind)
    BY <2>2, <2>4, FollowConcat
  <2>7. FollowUp(w, s \o t \o u)
    BY <2>2, <2>4, <2>6, FollowConcat
  <2>8. s \o t \o u \in ProperBatches
    BY <2>3, FewIsProper
  <2>9. QED
    BY <1>3, <2>5, <2>7, <2>8
<1>10. CASE EmbedPropositions(w) \/ EmbedSummaries(w) \/ IndexVisualPages(w)
  <2>1. \E row : Commit(w, d, row, Ensure("check", d))
    BY <1>1, <1>10 DEF EmbedPropositions, EmbedSummaries, IndexVisualPages
  <2>2. "check" \in PipelineTypes \ {"rebuild"}
    BY DEF PipelineTypes
  <2>3. QED
    BY <1>4, <2>1, <2>2
<1>11. CASE GenerateSummaries(w)
  <2>1. /\ Before("embed_summaries") = Type(w)
        /\ "embed_summaries" \in PipelineTypes \ {"rebuild"}
    BY <1>11 DEF GenerateSummaries, Turn, Before, PipelineTypes
  <2>2. \E row : Commit(w, d, row, Ensure("embed_summaries", d))
    BY <1>1, <1>11 DEF GenerateSummaries
  <2>3. QED
    BY <1>4, <2>1, <2>2
<1>12. CASE BuildGraph(w)
  <2>1. PICK type : type = IF Visual THEN "visual" ELSE "check"
    OBVIOUS
  <2>2. type = "check" \/ Before(type) = Type(w)
    BY <1>12, <2>1 DEF BuildGraph, Turn, Before
  <2>3. type \in PipelineTypes \ {"rebuild"}
    BY <2>1 DEF PipelineTypes
  <2>4. \E row : Commit(w, d, row, Ensure(type, d))
    BY <1>1, <1>12, <2>1 DEF BuildGraph
  <2>5. QED
    BY <1>4, <2>2, <2>3, <2>4
<1>13. CASE CheckReadiness(w) \/ Skip(w)
  <2>1. FollowUp(w, <<>>) /\ <<>> \in ProperBatches
    BY SmallBatch DEF FollowUp
  <2>2. \E row : Commit(w, d, row, <<>>)
    BY <1>1, <1>13 DEF CheckReadiness, Skip
  <2>3. QED
    BY <1>3, <2>1, <2>2
<1>14. QED
  BY <1>5, <1>6, <1>7, <1>8, <1>9, <1>10, <1>11, <1>12, <1>13 DEF Builds

(* The new jobs of a document are of different stages, each after the one  *)
(* that has committed.                                                     *)
LEMMA NewFollow ==
    ASSUME Known, Lifecycle, NEW w \in Workers, NEW d, Builds(w, d)
    PROVE  \A n \in RowsOf(d)' \ RowsOf(d) :
              /\ \/ jobs'[n].kind.type = "check"
                 \/ Before(jobs'[n].kind.type) = Type(w)
              /\ \A m \in RowsOf(d)' \ RowsOf(d) :
                    jobs'[m].kind.type = jobs'[n].kind.type => m = n
<1>0. TypeOK
  BY DEF Known
<1>1. PICK gone, held : gone = {} /\ held = {cur[w]}
  OBVIOUS
<1>2. PICK batch \in ProperBatches,
           types \in SUBSET (Reached(doc'[d].status) \ {"parse"}) :
         CommitWork(w, {}, batch) /\ Fresh(d, types, batch)
  BY HandlerCommits DEF Commits
<1>3. PICK follow \in ProperBatches : FollowUp(w, follow) /\ CommitWork(w, {}, follow)
  BY HandlersFollow
<1>4. jobs' = Transact(gone, held, batch)
  BY <1>1, <1>2 DEF CommitWork
<1>4a. jobs' = Transact(gone, held, follow)
  BY <1>1, <1>3 DEF CommitWork
<1>5. \A n \in RowsOf(d)' \ RowsOf(d) :
         \E i \in DOMAIN batch : n = Len(jobs) + i /\ jobs'[n].kind = batch[i]
  <2>1. RowsOf(d)' = RowsOf(d) \cup NewRows(d, batch)
    BY <1>0, <1>4, Appends
  <2>2. \A n \in NewRows(d, batch) :
           /\ n \in Nat /\ \A j \in RowsOf(d) : j < n
           /\ \E i \in DOMAIN batch : /\ n = Len(jobs) + i
                                      /\ batch[i].target = d
                                      /\ jobs'[n].kind = batch[i]
                                      /\ jobs'[n].status = "pending"
    BY <1>0, <1>4, Appends
  <2>3. QED
    BY <2>1, <2>2
<1>6. \A n \in RowsOf(d)' \ RowsOf(d) :
         \E i \in DOMAIN follow : jobs'[n].kind = follow[i]
  <2>1. RowsOf(d)' = RowsOf(d) \cup NewRows(d, follow)
    BY <1>0, <1>4a, Appends
  <2>2. \A n \in NewRows(d, follow) :
           /\ n \in Nat /\ \A j \in RowsOf(d) : j < n
           /\ \E i \in DOMAIN follow : /\ n = Len(jobs) + i
                                       /\ follow[i].target = d
                                       /\ jobs'[n].kind = follow[i]
                                       /\ jobs'[n].status = "pending"
    BY <1>0, <1>4a, Appends
  <2>3. QED
    BY <2>1, <2>2
<1>7. ASSUME NEW n \in RowsOf(d)' \ RowsOf(d), NEW m \in RowsOf(d)' \ RowsOf(d),
             jobs'[m].kind.type = jobs'[n].kind.type
      PROVE  m = n
  <2>1. PICK i \in DOMAIN batch : n = Len(jobs) + i /\ jobs'[n].kind = batch[i]
    BY <1>5
  <2>2. PICK k \in DOMAIN batch : m = Len(jobs) + k /\ jobs'[m].kind = batch[k]
    BY <1>5
  <2>3. k = i
    BY <1>2, <1>7, <2>1, <2>2 DEF Fresh
  <2>4. QED
    BY <2>1, <2>2, <2>3
<1>8. QED
  BY <1>3, <1>6, <1>7 DEF FollowUp

(* Nothing of the order changes with the jobs.                             *)
LEMMA OrderedStill ==
    ASSUME NEW d, Ordered(d), SameJobs(d), committed \subseteq committed'
    PROVE  Ordered(d)'
<1>1. /\ RowsOf(d)' = RowsOf(d)
      /\ \A j \in RowsOf(d) : jobs'[j].kind = jobs[j].kind
  BY DEF SameJobs
<1>2. \A j \in RowsOf(d) : Since(d, j)' <=> Since(d, j)
  BY <1>1 DEF Since
<1>3. \A type : Before(type)' = Before(type)
  BY DEF Before
<1>4. QED
  BY <1>1, <1>2 DEF Ordered

(* A commit inserts stages that its generation did not have.               *)
LEMMA OrderedGrows ==
    ASSUME Known, Exclusive, Lifecycle, CommittedIsDone, MaxFaults = 0,
           NEW w \in Workers, NEW d \in Docs, Builds(w, d), Ordered(d)
    PROVE  Ordered(d)'
<1>0. /\ TypeOK /\ pc[w] = "execute" /\ d = Target(w) /\ cur[w] \in RowsOf(d)
      /\ Since(d, cur[w]) /\ Type(w) = jobs[cur[w]].kind.type
      /\ committed' = committed \cup {cur[w]}
  BY ReadIsNow DEF Builds, Known, Type
<1>1. PICK h : h = cur[w]
  OBVIOUS
<1>2. h \notin committed
  BY <1>0, <1>1, HeldIsOpen DEF Lifecycle
<1>3. Grows(d)
  BY HandlerGrows
<1>4. \A j \in RowsOf(d) : Since(d, j)' <=> Since(d, j)
  BY <1>3, GrowsKeepsSince
<1>5. \A n \in RowsOf(d)' \ RowsOf(d) :
         /\ jobs'[n].kind.type = "check" \/ Before(jobs'[n].kind.type) = Type(w)
         /\ \A m \in RowsOf(d)' \ RowsOf(d) :
               jobs'[m].kind.type = jobs'[n].kind.type => m = n
  BY NewFollow
<1>6. \A j \in RowsOf(d) : jobs'[j].kind = jobs[j].kind /\ j \in RowsOf(d)'
  BY <1>3 DEF Grows
<1>7. ASSUME NEW n \in RowsOf(d)' \ RowsOf(d), jobs'[n].kind.type # "check",
             NEW i \in RowsOf(d), Since(d, i)
      PROVE  jobs[i].kind.type # jobs'[n].kind.type
  <2> SUFFICES ASSUME jobs[i].kind.type = jobs'[n].kind.type PROVE FALSE
    OBVIOUS
  <2>1. Before(jobs[i].kind.type) = jobs[h].kind.type
    BY <1>0, <1>1, <1>5, <1>7
  <2>2. jobs[i].kind.type # "parse" /\ jobs[i].kind.type # "check"
    BY <1>3, <1>7 DEF Grows
  <2>3. PICK k \in RowsOf(d) : /\ Since(d, k) /\ k \in committed
                               /\ jobs[k].kind.type = jobs[h].kind.type
    BY <1>7, <2>1, <2>2 DEF Ordered
  <2>4. jobs[h].kind.type # "check"
    BY <2>1 DEF Before
  <2>5. k = h
    BY <1>0, <1>1, <2>3, <2>4 DEF Ordered
  <2>6. QED
    BY <1>2, <2>3, <2>5
<1>8. ASSUME NEW j \in RowsOf(d)', Since(d, j)', jobs'[j].kind.type # "check"
      PROVE  /\ \A i \in RowsOf(d)' :
                   Since(d, i)' /\ jobs'[i].kind.type = jobs'[j].kind.type => i = j
             /\ jobs'[j].kind.type # "parse" => \E i \in RowsOf(d)' :
                   /\ Since(d, i)' /\ i \in committed'
                   /\ jobs'[i].kind.type = Before(jobs'[j].kind.type)
  <2>1. CASE j \in RowsOf(d)
    <3>1. /\ Since(d, j) /\ jobs[j].kind.type # "check"
          /\ jobs'[j].kind.type = jobs[j].kind.type
      BY <1>4, <1>6, <1>8, <2>1
    <3>2. ASSUME NEW i \in RowsOf(d)', Since(d, i)',
                 jobs'[i].kind.type = jobs'[j].kind.type
          PROVE  i = j
      <4>1. CASE i \in RowsOf(d)
        BY <1>4, <1>6, <2>1, <3>1, <3>2, <4>1 DEF Ordered
      <4>2. CASE i \notin RowsOf(d)
        BY <1>7, <2>1, <3>1, <3>2, <4>2
      <4>3. QED
        BY <4>1, <4>2
    <3>3. ASSUME jobs'[j].kind.type # "parse"
          PROVE  \E i \in RowsOf(d)' :
                   /\ Since(d, i)' /\ i \in committed'
                   /\ jobs'[i].kind.type = Before(jobs'[j].kind.type)
      <4>1. PICK i \in RowsOf(d) :
               /\ Since(d, i) /\ i \in committed
               /\ jobs[i].kind.type = Before(jobs[j].kind.type)
        BY <2>1, <3>1, <3>3 DEF Ordered
      <4>2. QED
        BY <1>0, <1>4, <1>6, <3>1, <4>1
    <3>4. QED
      BY <3>2, <3>3
  <2>2. CASE j \notin RowsOf(d)
    <3>1. ASSUME NEW i \in RowsOf(d)', Since(d, i)',
                 jobs'[i].kind.type = jobs'[j].kind.type
          PROVE  i = j
      <4>1. CASE i \in RowsOf(d)
        BY <1>4, <1>6, <1>7, <1>8, <2>2, <3>1, <4>1
      <4>2. CASE i \notin RowsOf(d)
        BY <1>5, <2>2, <3>1, <4>2
      <4>3. QED
        BY <4>1, <4>2
    <3>2. Before(jobs'[j].kind.type) = jobs'[h].kind.type
      BY <1>0, <1>1, <1>5, <1>6, <1>8, <2>2
    <3>3. h \in RowsOf(d)' /\ Since(d, h)' /\ h \in committed'
      BY <1>0, <1>1, <1>4, <1>6
    <3>4. QED
      BY <3>1, <3>2, <3>3
  <2>3. QED
    BY <2>1, <2>2
<1>9. \A type : Before(type)' = Before(type)
  BY DEF Before
<1>10. QED
  BY <1>8 DEF Ordered

(* A generation begins with its PARSE alone.                               *)
LEMMA BeginningIsOrdered ==
    TypeOK /\ (\A d \in Docs : DocJobs(d))
    => \A d \in Docs : doc[d].status \in {"absent", "registered"} => Ordered(d)
<1> SUFFICES ASSUME TypeOK, NEW d \in Docs, DocJobs(d),
                    doc[d].status \in {"absent", "registered"}
             PROVE  Ordered(d)
  OBVIOUS
<1>1. \A j \in RowsOf(d) : Since(d, j) => jobs[j].kind.type = "parse"
  BY DEF DocJobs, Reached
<1>2. \A j \in RowsOf(d) : j \in Nat
  BY LenProperties DEF RowsOf, Ids, TypeOK
<1>3. ASSUME NEW i \in RowsOf(d), NEW j \in RowsOf(d), Since(d, i), Since(d, j)
      PROVE  i = j
  BY <1>1, <1>2, <1>3 DEF Since
<1>4. QED
  BY <1>1, <1>3 DEF Ordered

(* The same, of the next state.                                            *)
LEMMA BeginningIsOrderedAfter ==
    (TypeOK /\ (\A d \in Docs : DocJobs(d))
     => \A d \in Docs : doc[d].status \in {"absent", "registered"} => Ordered(d))'
BY BeginningIsOrdered, PTL

(* What is committed stays committed.                                      *)
LEMMA CommittedGrows ==
    ASSUME QueueStep \/ UNCHANGED queueVars
    PROVE  committed \subseteq committed'
<1>1. \A w \in Workers : Start(w) \/ Loop(w) \/ Fault(w) \/ RaiseError(w) => committed' = committed
  BY DEF Start, Loop, ScanStale, RequeueStale, RequeueRolledBack, Pick, ClaimLost, Claim,
         ClaimUnhandled, Succeed, Fail, Fault, Crash, SucceedNotCommitted,
         FailNotCommitted, RaiseError
<1>2. \A w \in Workers : Acts(w) => committed' = committed \cup {cur[w]}
  BY DEF Acts, CommitWork
<1>3. AsksFor \/ UNCHANGED queueVars => committed' = committed
  BY DEF AsksFor, Request, queueVars
<1>4. \A j \in Ids : Expire(j) \/ Outlive(j) => committed' = committed
  BY DEF Expire, Outlive
<1>5. QED
  BY <1>1, <1>2, <1>3, <1>4 DEF QueueStep

(* Each step keeps the order.                                              *)
LEMMA OrderedStep ==
    ASSUME Known, Known', Exclusive, UploadsAndRebuilds, Lifecycle, Lifecycle',
           CommittedIsDone, MaxFaults = 0, [PipelineNext]_pipelineVars,
           \A d \in Docs : Ordered(d)
    PROVE  \A d \in Docs : Ordered(d)'
<1> SUFFICES ASSUME NEW d \in Docs PROVE Ordered(d)'
  OBVIOUS
<1>0. Ordered(d) /\ TypeOK /\ JobsFit
  BY DEF Known
<1>1. committed \subseteq committed'
  BY <1>0, PipelineQueueStep, CommittedGrows
<1>2. CASE Still(d) \/ SameJobs(d)
  BY <1>0, <1>1, <1>2, OrderedStill DEF Still
<1>3. CASE \E w \in Workers : Builds(w, d)
  BY <1>0, <1>3, OrderedGrows
<1>4. CASE doc'[d].status \in {"absent", "registered"}
  <2>1. TypeOK' /\ \A e \in Docs : DocJobs(e)'
    BY DEF Known, Lifecycle
  <2>2. QED
    BY <1>4, <2>1, BeginningIsOrderedAfter
<1>5. QED
  BY <1>2, <1>3, <1>4, DocumentSteps

-----------------------------------------------------------------------------
(***************************************************************************)
(* The barrier.  What is asked of a document, spelled out.                 *)
(***************************************************************************)
BaseThere(s) ==
    /\ s.status \in {"indexed", "ready"}
    /\ IdsOf(s, "chunk") # {} /\ AllEmbedded(s, "chunk")

LayersThere(s) ==
    /\ Layer(s, "proposition") # {} /\ AllEmbedded(s, "proposition")
    /\ IdsOf(s, "chunk") \subseteq IdsOf(s, "section") /\ Layer(s, "document") # {}
    /\ \A r \in Layer(s, "section") : r.id \in IdsOf(s, "chunk") => r.embedded
    /\ AllEmbedded(s, "document")

AskedTypes ==
    {"extract", "embed_propositions", "summarize", "embed_summaries", "graph"}
        \cup (IF Visual THEN {"visual"} ELSE {})

(* The barrier as a conjunction.                                           *)
LEMMA ReadyAsks ==
    \A d : IsReady(d) <=>
        /\ BaseThere(doc[d]) /\ LayersThere(doc[d]) /\ Succeeded(d, "embed") # {}
        /\ \A type \in AskedTypes : SucceededSinceEmbed(d, type)
<1> TAKE d
<1> DEFINE s == doc[d]
           chunks == IdsOf(s, "chunk")
<1>1. IsReady(d) <=>
      \A m \in {"base", "propositions", "proposition_embeddings", "summaries",
                  "summary_embeddings", "graph", "visual"} :
           ~ CASE m = "base" ->
                    \/ s.status \notin {"indexed", "ready"}
                    \/ chunks = {} \/ ~AllEmbedded(s, "chunk")
                    \/ Succeeded(d, "embed") = {}
               [] m = "propositions" ->
                    \/ Layer(s, "proposition") = {} \/ ~SucceededSinceEmbed(d, "extract")
               [] m = "proposition_embeddings" ->
                    \/ ~AllEmbedded(s, "proposition")
                    \/ ~SucceededSinceEmbed(d, "embed_propositions")
               [] m = "summaries" ->
                    \/ ~(chunks \subseteq IdsOf(s, "section"))
                    \/ Layer(s, "document") = {}
                    \/ ~SucceededSinceEmbed(d, "summarize")
               [] m = "summary_embeddings" ->
                    \/ \E r \in Layer(s, "section") : r.id \in chunks /\ ~r.embedded
                    \/ ~AllEmbedded(s, "document")
                    \/ ~SucceededSinceEmbed(d, "embed_summaries")
               [] m = "graph"  -> ~SucceededSinceEmbed(d, "graph")
               [] m = "visual" -> Visual /\ ~SucceededSinceEmbed(d, "visual")
  BY DEF IsReady, Missing
<1> HIDE DEF s, chunks
<1>2. IsReady(d) <=>
        /\ s.status \in {"indexed", "ready"} /\ chunks # {} /\ AllEmbedded(s, "chunk")
        /\ Succeeded(d, "embed") # {}
        /\ Layer(s, "proposition") # {} /\ SucceededSinceEmbed(d, "extract")
        /\ AllEmbedded(s, "proposition") /\ SucceededSinceEmbed(d, "embed_propositions")
        /\ chunks \subseteq IdsOf(s, "section") /\ Layer(s, "document") # {}
        /\ SucceededSinceEmbed(d, "summarize")
        /\ \A r \in Layer(s, "section") : r.id \in chunks => r.embedded
        /\ AllEmbedded(s, "document") /\ SucceededSinceEmbed(d, "embed_summaries")
        /\ SucceededSinceEmbed(d, "graph")
        /\ Visual => SucceededSinceEmbed(d, "visual")
  BY <1>1
<1>3. (\A type \in AskedTypes : SucceededSinceEmbed(d, type)) <=>
        /\ SucceededSinceEmbed(d, "extract") /\ SucceededSinceEmbed(d, "embed_propositions")
        /\ SucceededSinceEmbed(d, "summarize") /\ SucceededSinceEmbed(d, "embed_summaries")
        /\ SucceededSinceEmbed(d, "graph")
        /\ Visual => SucceededSinceEmbed(d, "visual")
  BY DEF AskedTypes
<1>4. QED
  BY <1>2, <1>3 DEF BaseThere, LayersThere, s, chunks

(* The same, of the next state.                                            *)
LEMMA ReadyAsksAfter ==
    (\A d : IsReady(d) <=>
        /\ BaseThere(doc[d]) /\ LayersThere(doc[d]) /\ Succeeded(d, "embed") # {}
        /\ \A type \in AskedTypes : SucceededSinceEmbed(d, type))'
BY ReadyAsks, PTL

(* It depends on the status, the rows and the successes.                   *)
LEMMA SameReadiness ==
    ASSUME NEW d, Indexed(d)' <=> Indexed(d), doc'[d].rows = doc[d].rows,
           \A type \in AskedTypes \cup {"embed"} : Succeeded(d, type)' = Succeeded(d, type)
    PROVE  IsReady(d)' <=> IsReady(d)
<1>1. \A layer : Layer(doc'[d], layer) = Layer(doc[d], layer)
  BY DEF Layer
<1>2. \A layer : /\ IdsOf(doc'[d], layer) = IdsOf(doc[d], layer)
                 /\ AllEmbedded(doc'[d], layer) <=> AllEmbedded(doc[d], layer)
  BY <1>1 DEF IdsOf, AllEmbedded
<1>3. BaseThere(doc'[d]) <=> BaseThere(doc[d])
  BY <1>2 DEF BaseThere, Indexed
<1>4. LayersThere(doc'[d]) <=> LayersThere(doc[d])
  BY <1>1, <1>2 DEF LayersThere
<1>5. \A type \in AskedTypes : SucceededSinceEmbed(d, type)' <=> SucceededSinceEmbed(d, type)
  BY DEF SucceededSinceEmbed
<1>6. IsReady(d)' <=>
        /\ BaseThere(doc'[d]) /\ LayersThere(doc'[d]) /\ Succeeded(d, "embed")' # {}
        /\ \A type \in AskedTypes : SucceededSinceEmbed(d, type)'
  BY ReadyAsksAfter
<1>7. QED
  BY <1>3, <1>4, <1>5, <1>6, ReadyAsks

(* When all commits have been reported, a document whose next stage is     *)
(* still to commit is not ready.                                           *)
Ahead(d, type) ==
    \E n \in RowsOf(d) :
        Since(d, n) /\ n \notin committed /\ Before(jobs[n].kind.type) = type

Passing == {"embed", "extract", "summarize"} \cup (IF Visual THEN {"graph"} ELSE {})

(* For the barrier counts successes since the last EMBED.                  *)
LEMMA AheadIsNotReady ==
    ASSUME Known, CommittedIsDone, MaxFaults = 0, NEW d \in Docs, Ordered(d),
           \A w \in Workers : pc[w] # "succeed",
           NEW type \in Passing, Ahead(d, type)
    PROVE  ~IsReady(d)
<1>0. TypeOK /\ JobsFit /\ SuccessNeedsWork /\ \A j \in RowsOf(d) : j \in Nat
  BY LenProperties DEF Known, IInv, RowsOf, Ids, TypeOK
<1>1. PICK n \in RowsOf(d) :
         Since(d, n) /\ n \notin committed /\ Before(jobs[n].kind.type) = type
  BY DEF Ahead
<1>2. /\ jobs[n].kind.type \in AskedTypes
      /\ jobs[n].kind.type \notin {"parse", "check"}
  BY <1>1 DEF Passing, Before, AskedTypes
<1>3. ASSUME NEW j \in RowsOf(d), Since(d, j), jobs[j].kind.type \notin {"parse", "check"}
      PROVE  \E i \in RowsOf(d) : /\ Since(d, i) /\ i \in committed
                                  /\ jobs[i].kind.type = Before(jobs[j].kind.type)
  BY <1>3 DEF Ordered
<1>4. \E g \in RowsOf(d) : Since(d, g) /\ g \in committed /\ jobs[g].kind.type = "embed"
  <2>1. PICK i \in RowsOf(d) : /\ Since(d, i) /\ i \in committed
                               /\ jobs[i].kind.type = type
    BY <1>1, <1>2, <1>3
  <2>2. CASE type = "embed"
    BY <2>1, <2>2
  <2>3. CASE type = "extract"
    <3>1. Before(jobs[i].kind.type) = "embed" /\ jobs[i].kind.type \notin {"parse", "check"}
      BY <2>1, <2>3 DEF Before
    <3>2. QED
      BY <1>3, <2>1, <3>1
  <2>4. CASE type \in {"summarize", "graph"}
    <3>1. Before(jobs[i].kind.type) = "extract" /\ jobs[i].kind.type \notin {"parse", "check"}
      BY <2>1, <2>4 DEF Before
    <3>2. PICK k \in RowsOf(d) : /\ Since(d, k) /\ k \in committed
                                 /\ jobs[k].kind.type = "extract"
      BY <1>3, <2>1, <3>1
    <3>3. Before(jobs[k].kind.type) = "embed" /\ jobs[k].kind.type \notin {"parse", "check"}
      BY <3>2 DEF Before
    <3>4. QED
      BY <1>3, <3>2, <3>3
  <2>5. QED
    BY <2>2, <2>3, <2>4 DEF Passing
<1>5. PICK g \in RowsOf(d) :
         Since(d, g) /\ g \in committed /\ jobs[g].kind.type = "embed"
  BY <1>4
<1>6. g \in Succeeded(d, "embed")
  <2>1. jobs[g].status = "succeeded"
    BY <1>5 DEF CommittedIsDone
  <2>2. jobs[g].kind \in PipelineKind /\ jobs[g].kind \in [type : Types, target : Targets]
    BY <1>0, <1>5 DEF JobsFit, RowsOf, PipelineKind, Kind
  <2>3. jobs[g].kind = Job("embed", d)
    BY <1>5, <2>2 DEF RowsOf, Job
  <2>4. QED
    BY <2>1, <2>3 DEF Succeeded, RowsOf, Has
<1>7. SUFFICES ASSUME SucceededSinceEmbed(d, jobs[n].kind.type) PROVE FALSE
  BY <1>2, ReadyAsks
<1>8. PICK k \in Succeeded(d, jobs[n].kind.type) : \A e \in Succeeded(d, "embed") : k >= e
  BY <1>7 DEF SucceededSinceEmbed
<1>9. /\ k \in RowsOf(d) /\ jobs[k].kind.type = jobs[n].kind.type /\ k \in committed
  BY <1>0, <1>8 DEF Succeeded, RowsOf, Job, SuccessNeedsWork
<1>10. Since(d, k)
  <2>1. g <= k
    BY <1>0, <1>5, <1>6, <1>8, <1>9
  <2>2. QED
    BY <1>0, <1>5, <1>9, <2>1 DEF Since
<1>11. k = n
  BY <1>1, <1>2, <1>9, <1>10 DEF Ordered
<1>12. QED
  BY <1>1, <1>9, <1>11

-----------------------------------------------------------------------------
(***************************************************************************)
(* The readiness check.  A stage hands the document on to another one, or, *)
(* as the last of its branch, leaves a check behind.                       *)
(***************************************************************************)
Last == {"embed_propositions", "embed_summaries", "visual"}
            \cup (IF Visual THEN {} ELSE {"graph"})

Queued(type, d, batch) ==
    Active(d, {type}) \/ \E i \in DOMAIN batch : batch[i] = Job(type, d)

LeadsOn(w, d, batch) ==
    /\ Type(w) \in Last => Queued("check", d, batch)
    /\ Type(w) \in Passing =>
          Skip(w) \/ \E type \in AskedTypes :
                        Before(type) = Type(w) /\ Queued(type, d, batch)

(* ensure_pending leaves a job behind in any case.                         *)
LEMMA EnsuredIsQueued ==
    \A type, d : Queued(type, d, Ensure(type, d)) /\ Queued(type, d, <<Job(type, d)>>)
<1> TAKE type, d
<1>1. Queued(type, d, <<Job(type, d)>>)
  BY DEF Queued
<1>2. CASE Active(d, {type})
  BY <1>1, <1>2 DEF Queued
<1>3. CASE ~Active(d, {type})
  BY <1>1, <1>3 DEF Ensure
<1>4. QED
  BY <1>2, <1>3

(* What the first part of a batch queues the batch queues.                 *)
LEMMA QueuedFirst ==
    ASSUME NEW s \in Seq(PipelineKind), NEW t \in Seq(PipelineKind),
           NEW type, NEW d, Queued(type, d, s)
    PROVE  Queued(type, d, s \o t)
<1>1. /\ s \o t \in Seq(PipelineKind)
      /\ Len(s \o t) = Len(s) + Len(t)
      /\ \A i \in 1..Len(s) + Len(t) :
            (s \o t)[i] = IF i <= Len(s) THEN s[i] ELSE t[i - Len(s)]
  BY ConcatProperties, Zenon
<1>2. /\ DOMAIN s = 1..Len(s) /\ Len(s) \in Nat /\ Len(t) \in Nat
      /\ DOMAIN (s \o t) = 1..Len(s) + Len(t)
  BY <1>1, LenProperties
<1>3. \A i \in DOMAIN s : i \in DOMAIN (s \o t) /\ (s \o t)[i] = s[i]
  BY <1>1, <1>2
<1>4. QED
  BY <1>3 DEF Queued

(* So does every handler.                                                  *)
LEMMA HandlersLead ==
    ASSUME Known, NEW w \in Workers, NEW d, Builds(w, d)
    PROVE  \E batch \in ProperBatches : LeadsOn(w, d, batch) /\ CommitWork(w, {}, batch)
<1>1. d = Target(w) /\ d \in Docs
  BY HeldJob DEF Builds, Known
<1>2. ASSUME NEW type \in PipelineTypes \ {"rebuild"}
      PROVE  <<Job(type, d)>> \in ProperBatches /\ Ensure(type, d) \in ProperBatches
  BY <1>1, <1>2, ProperJob, SmallBatch, EnsureIsFew, FewIsProper
<1>3. ASSUME NEW row, NEW batch \in ProperBatches, Commit(w, d, row, batch),
             LeadsOn(w, d, batch)
      PROVE  \E b \in ProperBatches : LeadsOn(w, d, b) /\ CommitWork(w, {}, b)
  BY <1>3 DEF Commit
<1>4. ASSUME NEW type \in AskedTypes, Before(type) = Type(w), Type(w) \notin Last,
             NEW row, Commit(w, d, row, <<Job(type, d)>>) \/ Commit(w, d, row, Ensure(type, d))
      PROVE  \E b \in ProperBatches : LeadsOn(w, d, b) /\ CommitWork(w, {}, b)
  <2>1. type \in PipelineTypes \ {"rebuild"}
    BY <1>4 DEF AskedTypes, PipelineTypes
  <2>2. LeadsOn(w, d, Ensure(type, d)) /\ LeadsOn(w, d, <<Job(type, d)>>)
    BY <1>4, EnsuredIsQueued DEF LeadsOn
  <2>3. QED
    BY <1>2, <1>3, <1>4, <2>1, <2>2
<1>5. ASSUME Type(w) \notin Passing, NEW row, Commit(w, d, row, Ensure("check", d))
      PROVE  \E b \in ProperBatches : LeadsOn(w, d, b) /\ CommitWork(w, {}, b)
  <2>1. "check" \in PipelineTypes \ {"rebuild"}
    BY DEF PipelineTypes
  <2>2. LeadsOn(w, d, Ensure("check", d))
    BY <1>5, EnsuredIsQueued DEF LeadsOn
  <2>3. QED
    BY <1>2, <1>3, <1>5, <2>1, <2>2
<1>6. ASSUME Type(w) \notin Passing, Type(w) \notin Last
      PROVE  \E b \in ProperBatches : LeadsOn(w, d, b) /\ CommitWork(w, {}, b)
  <2>1. PICK batch \in ProperBatches : FollowUp(w, batch) /\ CommitWork(w, {}, batch)
    BY HandlersFollow
  <2>2. LeadsOn(w, d, batch)
    BY <1>6 DEF LeadsOn
  <2>3. QED
    BY <2>1, <2>2
<1>7. CASE Parse(w) \/ Normalize(w) \/ Segment(w) \/ CheckReadiness(w)
  <2>1. Type(w) \in {"parse", "normalize", "segment", "check"}
    BY <1>7 DEF Parse, Normalize, Segment, CheckReadiness, Turn
  <2>2. QED
    BY <1>6, <2>1 DEF Passing, Last
<1>8. CASE Embed(w)
  <2>1. /\ Before("extract") = Type(w) /\ "extract" \in AskedTypes
        /\ Type(w) \notin Last
    BY <1>8 DEF Embed, Turn, Before, AskedTypes, Last
  <2>2. \E row : Commit(w, d, row, <<Job("extract", d)>>)
    BY <1>1, <1>8 DEF Embed
  <2>3. QED
    BY <1>4, <2>1, <2>2
<1>9. CASE Extract(w)
  <2>1. /\ Before("embed_propositions") = Type(w) /\ Type(w) \notin Last
        /\ "embed_propositions" \in AskedTypes
        /\ {"embed_propositions", "summarize", "graph"} \subseteq PipelineTypes \ {"rebuild"}
    BY <1>9 DEF Extract, Turn, Before, PipelineTypes, AskedTypes, Last
  <2> DEFINE s == Ensure("embed_propositions", d)
             t == Ensure("summarize", d)
             u == Ensure("graph", d)
  <2>2. Queued("embed_propositions", d, s)
    BY EnsuredIsQueued
  <2>3. Few(3, s \o t \o u)
    BY <1>1, FanOutIsFresh
  <2>4. s \in Seq(PipelineKind) /\ t \in Seq(PipelineKind) /\ u \in Seq(PipelineKind)
    BY <1>1, <2>1, EnsureIsFew DEF Few
  <2>5. \E row : Commit(w, d, row, s \o t \o u)
    BY <1>1, <1>9 DEF Extract
  <2> HIDE DEF s, t, u
  <2>6. Queued("embed_propositions", d, s \o t) /\ s \o t \in Seq(PipelineKind)
    BY <2>2, <2>4, QueuedFirst, ConcatProperties
  <2>7. Queued("embed_propositions", d, s \o t \o u)
    BY <2>4, <2>6, QueuedFirst
  <2>8. s \o t \o u \in ProperBatches
    BY <2>3, FewIsProper
  <2>9. LeadsOn(w, d, s \o t \o u)
    BY <2>1, <2>7 DEF LeadsOn
  <2>10. QED
    BY <1>3, <2>5, <2>8, <2>9
<1>10. CASE EmbedPropositions(w) \/ EmbedSummaries(w) \/ IndexVisualPages(w)
  <2>1. \E row : Commit(w, d, row, Ensure("check", d))
    BY <1>1, <1>10 DEF EmbedPropositions, EmbedSummaries, IndexVisualPages
  <2>2. Type(w) \in {"embed_propositions", "embed_summaries", "visual"}
    BY <1>10 DEF EmbedPropositions, EmbedSummaries, IndexVisualPages, Turn
  <2>3. Type(w) \notin Passing
    BY <2>2 DEF Passing
  <2>4. QED
    BY <1>5, <2>1, <2>3
<1>11. CASE GenerateSummaries(w)
  <2>1. /\ Before("embed_summaries") = Type(w) /\ "embed_summaries" \in AskedTypes
        /\ Type(w) \notin Last
    BY <1>11 DEF GenerateSummaries, Turn, Before, AskedTypes, Last
  <2>2. \E row : Commit(w, d, row, Ensure("embed_summaries", d))
    BY <1>1, <1>11 DEF GenerateSummaries
  <2>3. QED
    BY <1>4, <2>1, <2>2
<1>12. CASE BuildGraph(w)
  <2>1. Type(w) = "graph"
    BY <1>12 DEF BuildGraph, Turn
  <2>2. CASE Visual
    <3>1. \E row : Commit(w, d, row, Ensure("visual", d))
      BY <1>1, <1>12, <2>2 DEF BuildGraph
    <3>2. Before("visual") = Type(w) /\ "visual" \in AskedTypes /\ Type(w) \notin Last
      BY <2>1, <2>2 DEF Before, AskedTypes, Last
    <3>3. QED
      BY <1>4, <3>1, <3>2
  <2>3. CASE ~Visual
    <3>1. \E row : Commit(w, d, row, Ensure("check", d))
      BY <1>1, <1>12, <2>3 DEF BuildGraph
    <3>2. Type(w) \notin Passing
      BY <2>1, <2>3 DEF Passing
    <3>3. QED
      BY <1>5, <3>1, <3>2
  <2>4. QED
    BY <2>2, <2>3
<1>13. CASE Skip(w)
  <2>1. PICK batch \in ProperBatches : FollowUp(w, batch) /\ CommitWork(w, {}, batch)
    BY HandlersFollow
  <2>2. Type(w) \in {"segment", "embed"}
    BY <1>13 DEF Skip, NothingToDo
  <2>3. Type(w) \notin Last
    BY <2>2 DEF Last
  <2>4. LeadsOn(w, d, batch)
    BY <1>13, <2>3 DEF LeadsOn
  <2>5. QED
    BY <2>1, <2>4
<1>14. QED
  BY <1>7, <1>8, <1>9, <1>10, <1>11, <1>12, <1>13 DEF Builds

(* A queued job is live after the commit, and belongs to this generation.  *)
LEMMA QueuedIsThere ==
    ASSUME Known, Exclusive, Lifecycle, CommittedIsDone, MaxFaults = 0,
           NEW w \in Workers, NEW d, Builds(w, d), NEW type, type # Type(w),
           NEW batch \in ProperBatches, CommitWork(w, {}, batch),
           Queued(type, d, batch)
    PROVE  \E n \in RowsOf(d)' : /\ jobs'[n].kind.type = type /\ Live(n)'
                                 /\ Since(d, n)' /\ n \notin committed'
<1>0. /\ TypeOK /\ d \in Docs /\ d = Target(w) /\ pc[w] = "execute"
      /\ committed' = committed \cup {cur[w]} /\ cur[w] \in RowsOf(d) /\ DocJobs(d)
  BY ReadIsNow DEF Builds, Known
<1>1. PICK h : h = cur[w]
  OBVIOUS
<1>2. PICK gone, held : gone = {} /\ held = {cur[w]}
  OBVIOUS
<1>3. jobs' = Transact(gone, held, batch)
  BY <1>2 DEF CommitWork
<1>4. Grows(d)
  BY HandlerGrows
<1>5. \A j \in RowsOf(d) : /\ Since(d, j)' <=> Since(d, j)
                           /\ j \in RowsOf(d)' /\ jobs'[j].kind = jobs[j].kind
  BY <1>4, GrowsKeepsSince DEF Grows
<1>6. CASE Active(d, {type})
  <2>1. PICK j \in RowsOf(d) : jobs[j].kind.type = type /\ Live(j)
    BY <1>6 DEF Active, RowsOf, Live
  <2>2. j # h /\ j \in Ids
    BY <1>1, <2>1 DEF Type, RowsOf
  <2>3. \A v \in Workers : pc[v] # "succeed"
    BY <1>0, OnlyReader
  <2>4. j \notin committed
    BY <2>1, <2>2, <2>3, LiveIsOpen DEF Lifecycle
  <2>5. jobs'[j].status = jobs[j].status
    <3>1. \A i \in DOMAIN jobs :
             \/ jobs'[i].status = jobs[i].status
             \/ /\ jobs[i].status = "pending" /\ jobs'[i].status = "deleted"
                /\ jobs[i].kind.target \in gone
      BY <1>0, <1>3, TransactFates
    <3>2. QED
      BY <1>2, <2>2, <3>1 DEF Ids
  <2>6. Since(d, j)
    BY <1>0, <2>1 DEF DocJobs
  <2>7. QED
    BY <1>0, <1>1, <1>5, <2>1, <2>2, <2>4, <2>5, <2>6 DEF Live
<1>7. CASE \E i \in DOMAIN batch : batch[i] = Job(type, d)
  <2>1. PICK i \in DOMAIN batch : batch[i] = Job(type, d)
    BY <1>7
  <2>2. PICK n : n = Len(jobs) + i
    OBVIOUS
  <2>3. n \in NewRows(d, batch)
    BY <2>1, <2>2 DEF NewRows, Job
  <2>4. RowsOf(d)' = RowsOf(d) \cup NewRows(d, batch)
    BY <1>0, <1>3, Appends
  <2>5. \A m \in NewRows(d, batch) :
           /\ m \in Nat /\ \A j \in RowsOf(d) : j < m
           /\ \E k \in DOMAIN batch : /\ m = Len(jobs) + k
                                      /\ batch[k].target = d
                                      /\ jobs'[m].kind = batch[k]
                                      /\ jobs'[m].status = "pending"
    BY <1>0, <1>3, Appends
  <2>6. PICK k \in DOMAIN batch : /\ n = Len(jobs) + k
                                  /\ jobs'[n].kind = batch[k]
                                  /\ jobs'[n].status = "pending"
    BY <2>3, <2>5
  <2>7. k = i
    <3>1. Len(jobs) \in Nat
      BY <1>0, LenProperties DEF TypeOK
    <3>2. DOMAIN batch \subseteq Nat
      BY PipelineAssumption DEF ProperBatches, FollowUps
    <3>3. QED
      BY <2>2, <2>6, <3>1, <3>2
  <2>8. jobs'[n].kind.type = type /\ Live(n)'
    BY <2>1, <2>6, <2>7 DEF Job, Live
  <2>9. n \in RowsOf(d)' \ RowsOf(d)
    <3>1. \A j \in RowsOf(d) : j < n /\ n \in Nat
      BY <2>3, <2>5
    <3>2. \A j \in RowsOf(d) : j \in Nat
      BY <1>0, LenProperties DEF RowsOf, Ids, TypeOK
    <3>3. QED
      BY <2>3, <2>4, <3>1, <3>2
  <2>10. Since(d, n)'
    <3>1. \A m \in RowsOf(d)' : jobs'[m].kind.type = "parse" => m \in RowsOf(d)
      BY <1>4 DEF Grows
    <3>2. \A m \in RowsOf(d) : m < n /\ m \in Nat
      BY <1>0, <2>3, <2>5, LenProperties DEF RowsOf, Ids, TypeOK
    <3>3. n \in Nat
      BY <2>3, <2>5
    <3>4. QED
      BY <3>1, <3>2, <3>3 DEF Since
  <2>11. n \notin committed'
    BY <1>4, <2>9 DEF Grows
  <2>12. QED
    BY <2>8, <2>9, <2>10, <2>11
<1>8. QED
  BY <1>6, <1>7 DEF Queued

-----------------------------------------------------------------------------
(* A check of document d that will still look at what is there.            *)
Awaited(d) ==
    \E c \in RowsOf(d) : jobs[c].kind.type = "check" /\ Live(c) /\ c \notin committed

(* No check fails; its report is what the barrier says.                    *)
CheckRuns == \A w \in Workers : pc[w] = "fail" => Type(w) # "check"

ReportIsNow ==
    \A w \in Workers : seen[w].step # "unread" /\ Type(w) = "check"
        => (seen[w].ready <=> IsReady(Target(w)))

(* A stage that has committed leaves the next one, or a check, behind.     *)
LeavesWork ==
    \A w \in Workers : pc[w] = "succeed" =>
        /\ Type(w) \in Passing =>
              \/ ~Indexed(Target(w)) \/ Layer(doc[Target(w)], "chunk") = {}
              \/ Ahead(Target(w), Type(w))
        /\ Type(w) \in Last => Awaited(Target(w))

(* A complete document that is not yet READY awaits a check.               *)
Passed(d) == \E w \in Workers : pc[w] = "succeed" /\ Target(w) = d /\ Type(w) \in Passing

Heard == \A d \in Docs :
    ~Passed(d) /\ doc[d].status = "indexed" /\ IsReady(d) => Awaited(d)

Reports ==
    /\ \A d \in Docs : Ordered(d)
    /\ CommittedIsDone /\ CheckRuns /\ ReportIsNow /\ LeavesWork /\ Heard

(* Jobs succeed one by one.                                                *)
LEMMA SucceededKept ==
    ASSUME Known, Exclusive, UploadsAndRebuilds, Lifecycle,
           [PipelineNext]_pipelineVars, NEW d, NEW type,
           \A w \in Workers : Succeed(w) => jobs[cur[w]].kind # Job(type, d)
    PROVE  Succeeded(d, type)' = Succeeded(d, type)
<1>1. \A j \in DOMAIN jobs : j \in DOMAIN jobs' /\ jobs'[j].kind = jobs[j].kind
  BY PipelineQueueStep, KindsKept DEF Known, Lifecycle
<1>2. /\ \A j \in DOMAIN jobs : Fate(j)
      /\ \A n \in DOMAIN jobs' \ DOMAIN jobs : jobs'[n].status = "pending"
  BY JobFates
<1>3. PICK k : k = Job(type, d)
  OBVIOUS
<1>4. ASSUME NEW j \in DOMAIN jobs, jobs[j].kind = k
      PROVE  jobs'[j].status = "succeeded" <=> jobs[j].status = "succeeded"
  <2>1. Fate(j)
    BY <1>2
  <2>2. ~\E w \in Workers : Succeed(w) /\ cur[w] = j
    BY <1>3, <1>4
  <2>3. QED
    BY <2>1, <2>2 DEF Fate, Live
<1>5. Succeeded(d, type) = {j \in DOMAIN jobs : jobs[j].kind = k /\ jobs[j].status = "succeeded"}
  BY <1>3 DEF Succeeded, Has, Ids
<1>6. Succeeded(d, type)' = {j \in DOMAIN jobs' : jobs'[j].kind = k /\ jobs'[j].status = "succeeded"}
  BY <1>3 DEF Succeeded, Has, Ids, Job
<1>7. \A j \in DOMAIN jobs' : jobs'[j].status = "succeeded" => j \in DOMAIN jobs
  BY <1>2
<1>8. QED
  BY <1>1, <1>4, <1>5, <1>6, <1>7

(* The steps of a worker move that worker only.                            *)
LEMMA OneWorkerMoves ==
    ASSUME TypeOK, NEW v \in Workers, NEW w \in Workers, v # w,
           Start(v) \/ Loop(v) \/ Fault(v) \/ RaiseError(v) \/ Acts(v)
    PROVE  pc'[w] = pc[w] /\ cur'[w] = cur[w]
<1>0. pc \in [Workers -> Steps] /\ cur \in [Workers -> Nat]
  BY DEF TypeOK
<1>1. CASE Start(v) \/ RaiseError(v) \/ Acts(v)
  BY <1>0, <1>1 DEF Start, RaiseError, Acts, CommitWork, Goto
<1>2. CASE Loop(v)
  BY <1>0, <1>2 DEF Loop, ScanStale, RequeueStale, RequeueRolledBack, Pick, ClaimLost,
                    Claim, ClaimUnhandled, Succeed, Fail, Release, Goto
<1>3. CASE Fault(v)
  BY <1>0, <1>3 DEF Fault, Crash, SucceedNotCommitted, FailNotCommitted, Release, Goto
<1>4. QED
  BY <1>1, <1>2, <1>3

(* Without faults a worker settles the job it has executed.                *)
LEMMA Settling ==
    ASSUME TypeOK, MaxFaults = 0, QueueStep \/ UNCHANGED queueVars,
           NEW w \in Workers, pc[w] \in {"succeed", "fail"}
    PROVE  \/ Succeed(w) \/ Fail(w)
           \/ pc'[w] = pc[w] /\ cur'[w] = cur[w]
<1>1. ASSUME Start(w) \/ Loop(w) \/ Fault(w) \/ RaiseError(w) \/ Acts(w)
      PROVE  Succeed(w) \/ Fail(w)
  <2>1. ~Start(w) /\ ~RaiseError(w) /\ ~Acts(w)
    BY DEF Start, RaiseError, Acts, CommitWork
  <2>2. ~Fault(w)
    <3>1. ~(faults < MaxFaults)
      BY DEF TypeOK
    <3>2. QED
      BY <3>1 DEF Fault, Crash, SucceedNotCommitted, FailNotCommitted
  <2>3. QED
    BY <1>1, <2>1, <2>2 DEF Loop, ScanStale, RequeueStale, RequeueRolledBack, Pick,
                            ClaimLost, Claim, ClaimUnhandled
<1>2. /\ AsksFor \/ UNCHANGED queueVars => pc' = pc /\ cur' = cur
      /\ \A j \in Ids : Expire(j) \/ Outlive(j) => pc' = pc /\ cur' = cur
  BY DEF AsksFor, Request, Expire, Outlive, queueVars
<1>3. QED
  BY <1>1, <1>2, OneWorkerMoves DEF QueueStep

(* It comes there by a commit or an error of its handler.                  *)
LEMMA Arriving ==
    ASSUME TypeOK, MaxFaults = 0, QueueStep \/ UNCHANGED queueVars,
           NEW w \in Workers, pc'[w] \in {"succeed", "fail"}, pc'[w] # pc[w]
    PROVE  /\ pc[w] = "execute" /\ cur'[w] = cur[w]
           /\ IF pc'[w] = "succeed" THEN committed' = committed \cup {cur[w]}
                                    ELSE RaiseError(w)
<1>0. pc \in [Workers -> Steps] /\ cur \in [Workers -> Nat]
  BY DEF TypeOK
<1>1. CASE Start(w) \/ Loop(w) \/ Fault(w)
  <2>1. ~Start(w)
    BY <1>0 DEF Start, Goto
  <2>2. ~Fault(w)
    <3>1. ~(faults < MaxFaults)
      BY DEF TypeOK
    <3>2. QED
      BY <3>1 DEF Fault, Crash, SucceedNotCommitted, FailNotCommitted
  <2>3. ~Loop(w)
    BY <1>0 DEF Loop, ScanStale, RequeueStale, RequeueRolledBack, Pick, ClaimLost,
                Claim, ClaimUnhandled, Succeed, Fail, Release, Goto
  <2>4. QED
    BY <1>1, <2>1, <2>2, <2>3
<1>2. CASE RaiseError(w)
  BY <1>0, <1>2 DEF RaiseError, Goto
<1>3. CASE Acts(w)
  BY <1>0, <1>3 DEF Acts, CommitWork, Goto
<1>4. /\ AsksFor \/ UNCHANGED queueVars => pc' = pc
      /\ \A j \in Ids : Expire(j) \/ Outlive(j) => pc' = pc
  BY DEF AsksFor, Request, Expire, Outlive, queueVars
<1>5. QED
  BY <1>1, <1>2, <1>3, <1>4, OneWorkerMoves DEF QueueStep

(* That is a handler of a stage, or a rebuild.                             *)
LEMMA SuccessBegins ==
    ASSUME Known, Lifecycle, [PipelineNext]_pipelineVars,
           NEW w \in Workers, pc'[w] = "succeed", pc[w] # "succeed"
    PROVE  /\ Builds(w, Target(w)) \/ Rebuild(w)
           /\ cur'[w] = cur[w] /\ pc[w] = "execute"
<1>0. TypeOK /\ JobsFit /\ pc \in [Workers -> Steps]
  BY DEF Known, TypeOK
<1>1. ASSUME NEW v \in Workers, Poll(v) PROVE FALSE
  <2>1. Start(v) \/ Loop(v)
    BY <1>1 DEF Poll
  <2>2. v = w
    BY <1>0, <2>1, OneWorkerMoves
  <2>3. ~Start(w) /\ ~Loop(w)
    BY <1>0 DEF Start, Loop, ScanStale, RequeueStale, RequeueRolledBack, Pick, ClaimLost,
                Claim, ClaimUnhandled, Succeed, Fail, Release, Goto
  <2>4. QED
    BY <2>1, <2>2, <2>3
<1>2. ASSUME NEW v \in Workers, Break(v) PROVE FALSE
  <2>1. RaiseError(v) \/ Fault(v)
    BY <1>2 DEF Break, Abort, Fault
  <2>2. v = w
    BY <1>0, <2>1, OneWorkerMoves
  <2>3. ~RaiseError(w) /\ ~Fault(w)
    BY <1>0 DEF RaiseError, Fault, Crash, SucceedNotCommitted, FailNotCommitted,
                Release, Goto
  <2>4. QED
    BY <2>1, <2>2, <2>3
<1>3. ASSUME NEW v \in Workers, Work(v)
      PROVE  Builds(w, Target(w)) \/ Rebuild(w)
  <2>1. ~Begin(v) /\ ~UseQdrant(v)
    BY DEF Begin, UseQdrant, CallQdrant, MissQdrant, AtQdrant, queueVars
  <2>2. Write(v)
    BY <1>3, <2>1 DEF Work
  <2>3. v = w
    BY <1>0, <2>2, WriteActs, OneWorkerMoves
  <2>4. ~RaiseError(w)
    BY <1>0 DEF RaiseError, Goto
  <2>5. ~ParseRefused(w) /\ ~Refuse(w)
    BY <2>4 DEF ParseRefused, Refuse
  <2>6. QED
    BY <2>2, <2>3, <2>5, WriteBuilds
<1>4. /\ Ask => pc' = pc
      /\ \A j \in Ids : Expire(j) \/ Outlive(j) => pc' = pc
      /\ UNCHANGED pipelineVars => pc' = pc
  <2>1. Ask => AsksFor \/ UNCHANGED queueVars
    BY AskAsks
  <2>2. QED
    BY <2>1 DEF AsksFor, Request, Expire, Outlive, pipelineVars, queueVars
<1>5. Builds(w, Target(w)) \/ Rebuild(w)
  BY <1>1, <1>2, <1>3, <1>4 DEF PipelineNext
<1>6. pc[w] = "execute" /\ cur'[w] = cur[w]
  <2>1. CASE Rebuild(w)
    BY <2>1 DEF Rebuild, CommitWork
  <2>2. CASE Builds(w, Target(w))
    <3>1. \E batch \in ProperBatches : CommitWork(w, {}, batch)
      BY <2>2, HandlerCommits DEF Commits
    <3>2. QED
      BY <3>1 DEF CommitWork
  <2>3. QED
    BY <1>5, <2>1, <2>2
<1>7. QED
  BY <1>5, <1>6

(* An awaited check stays until it runs.                                   *)
LEMMA AwaitedLasts ==
    ASSUME Known, Exclusive, UploadsAndRebuilds, Lifecycle, CheckRuns,
           [PipelineNext]_pipelineVars, NEW d \in Docs, Awaited(d),
           \A w \in Workers : ~Rebuild(w),
           \A w \in Workers : Builds(w, d) => Type(w) # "check"
    PROVE  Awaited(d)'
<1>1. PICK c \in RowsOf(d) :
         jobs[c].kind.type = "check" /\ Live(c) /\ c \notin committed
  BY DEF Awaited
<1>2. c \in DOMAIN jobs /\ jobs[c].kind.target = d
  BY DEF RowsOf, Ids
<1>3. c \in DOMAIN jobs' /\ jobs'[c].kind = jobs[c].kind
  BY <1>2, PipelineQueueStep, KindsKept DEF Known, Lifecycle
<1>4. Live(c)'
  <2>1. Fate(c)
    BY <1>2, JobFates
  <2>2. ~\E w \in Workers : Succeed(w) /\ cur[w] = c
    BY <1>1 DEF Succeed, Known, IInv, ReportsWork
  <2>3. ~\E w \in Workers : Fail(w) /\ cur[w] = c
    BY <1>1 DEF Fail, CheckRuns, Type
  <2>4. ~\E e \in Docs : Register(e) /\ jobs[c].kind.target = e
    <3> SUFFICES ASSUME Register(d) PROVE FALSE
      BY <1>2
    <3>1. RowsOf(d) = {}
      BY RegisterAdds
    <3>2. QED
      BY <3>1
  <2>5. QED
    BY <1>1, <2>1, <2>2, <2>3, <2>4 DEF Fate, Live
<1>5. c \notin committed'
  <2>1. ASSUME NEW w \in Workers, NEW e \in Docs, Builds(w, e), c = cur[w] PROVE FALSE
    <3>1. e = d /\ Type(w) = "check"
      BY <1>1, <1>2, <2>1 DEF Builds, Target, Type
    <3>2. QED
      BY <2>1, <3>1
  <2>2. ASSUME NEW w \in Workers, NEW e \in Docs, Builds(w, e) PROVE c \notin committed'
    BY <1>1, <2>1, <2>2 DEF Builds
  <2>3. /\ RequestRebuild => committed' = committed
        /\ \A e \in Docs : Register(e) => committed' = committed
    BY DEF RequestRebuild, Register, Request
  <2>4. QED
    BY <1>1, <2>2, <2>3, TableSteps
<1>6. QED
  BY <1>1, <1>2, <1>3, <1>4, <1>5 DEF Awaited, RowsOf, Ids

(* A check makes no call that could fail, and refuses nothing.             *)
LEMMA CheckRunsStep ==
    ASSUME Known, Exclusive, UploadsAndRebuilds, Lifecycle, CheckRuns,
           "check" \notin Fallible, MaxFaults = 0, [PipelineNext]_pipelineVars
    PROVE  CheckRuns'
<1> SUFFICES ASSUME NEW w \in Workers, pc'[w] = "fail" PROVE Type(w)' # "check"
  BY DEF CheckRuns
<1>0. TypeOK /\ JobsFit /\ (QueueStep \/ UNCHANGED queueVars)
  BY PipelineQueueStep DEF Known
<1>1. ASSUME cur'[w] = cur[w], pc[w] \in {"execute", "fail"}, Type(w) # "check"
      PROVE  Type(w)' # "check"
  <2>1. PICK c : c = cur[w]
    OBVIOUS
  <2>2. c \in DOMAIN jobs
    BY <1>0, <1>1, <2>1, HeldRow
  <2>3. jobs'[c].kind = jobs[c].kind
    BY <1>0, <2>2, KindsKept DEF Lifecycle
  <2>4. QED
    BY <1>1, <2>1, <2>3 DEF Type
<1>2. CASE pc[w] = "fail"
  <2>1. ~Succeed(w)
    BY <1>2 DEF Succeed
  <2>2. ~Fail(w)
    BY <1>0 DEF Fail, Release, Goto, TypeOK
  <2>3. cur'[w] = cur[w]
    BY <1>0, <1>2, <2>1, <2>2, Settling
  <2>4. QED
    BY <1>1, <1>2, <2>3 DEF CheckRuns
<1>3. CASE pc[w] # "fail"
  <2>1. pc[w] = "execute" /\ cur'[w] = cur[w] /\ RaiseError(w)
    BY <1>0, <1>3, Arriving
  <2>2. pc \in [Workers -> Steps] /\ cur \in [Workers -> Nat]
    BY <1>0 DEF TypeOK
  <2>3. ASSUME NEW v \in Workers, Poll(v) PROVE FALSE
    <3>1. Start(v) \/ Loop(v)
      BY <2>3 DEF Poll
    <3>2. v # w
      BY <1>0, <2>1, <3>1, LoopMoves
    <3>3. QED
      BY <1>0, <1>3, <3>1, <3>2, OneWorkerMoves
  <2>4. ASSUME NEW v \in Workers, Work(v) PROVE Type(w) # "check"
    <3>1. ~Begin(v) /\ ~UseQdrant(v)
      BY <1>3 DEF Begin, UseQdrant, CallQdrant, MissQdrant, AtQdrant, queueVars
    <3>2. Write(v)
      BY <2>4, <3>1 DEF Work
    <3>3. v = w
      BY <1>0, <1>3, <3>2, WriteActs, OneWorkerMoves
    <3>4. CASE ParseRefused(w) \/ Refuse(w)
      BY <3>4 DEF ParseRefused, Refuse, Turn, Refused
    <3>5. CASE Rebuild(w)
      BY <3>5 DEF Rebuild, Turn
    <3>6. CASE ~ParseRefused(w) /\ ~Refuse(w) /\ ~Rebuild(w)
      <4>1. Builds(w, Target(w))
        BY <3>2, <3>3, <3>6, WriteBuilds
      <4>2. \E batch \in ProperBatches : CommitWork(w, {}, batch)
        BY <4>1, HandlerCommits DEF Commits
      <4>3. pc'[w] = "succeed"
        BY <2>2, <4>2 DEF CommitWork, Goto
      <4>4. QED
        BY <4>3
    <3>7. QED
      BY <3>4, <3>5, <3>6
  <2>5. ASSUME NEW v \in Workers, Break(v) PROVE Type(w) # "check"
    <3>1. ~Crash(v) /\ ~SucceedNotCommitted(v) /\ ~FailNotCommitted(v)
      BY <1>0 DEF Crash, SucceedNotCommitted, FailNotCommitted, TypeOK
    <3>2. Abort(v)
      BY <2>5, <3>1 DEF Break
    <3>3. RaiseError(v)
      BY <3>2 DEF Abort
    <3>4. v = w
      BY <1>0, <1>3, <3>3, OneWorkerMoves
    <3>5. QED
      BY <3>2, <3>4 DEF Abort
  <2>6. /\ Ask => pc' = pc
        /\ \A j \in Ids : Expire(j) \/ Outlive(j) => pc' = pc
        /\ UNCHANGED pipelineVars => pc' = pc
    <3>1. Ask => AsksFor \/ UNCHANGED queueVars
      BY AskAsks
    <3>2. QED
      BY <3>1 DEF AsksFor, Request, Expire, Outlive, pipelineVars, queueVars
  <2>7. Type(w) # "check"
    BY <1>3, <2>3, <2>4, <2>5, <2>6 DEF PipelineNext
  <2>8. QED
    BY <1>1, <2>1, <2>7
<1>4. QED
  BY <1>2, <1>3

(* The barrier does not move while a check is at work.                     *)
LEMMA ReportIsNowStep ==
    ASSUME Known, Known', Exclusive, UploadsAndRebuilds, Lifecycle, Lifecycle',
           ReportIsNow, [PipelineNext]_pipelineVars
    PROVE  ReportIsNow'
<1> SUFFICES ASSUME NEW v \in Workers, seen'[v].step # "unread", Type(v)' = "check"
             PROVE  seen'[v].ready <=> IsReady(Target(v))'
  BY DEF ReportIsNow
<1>0. TypeOK /\ JobsFit /\ seen \in [Workers -> SeenType]
  BY DEF Known, DataOK
<1>1. CASE Begin(v)
  <2>1. pc[v] = "execute" /\ UNCHANGED <<queueVars, doc>>
    BY <1>1 DEF Begin
  <2>2. Type(v)' = Type(v) /\ Target(v)' = Target(v)
    BY <2>1 DEF Type, Target, queueVars
  <2>3. seen'[v].ready <=> Type(v) = "check" /\ IsReady(Target(v))
    BY <1>0, <1>1 DEF Begin
  <2>4. PICK d : d = Target(v)
    OBVIOUS
  <2>5. \A type : Succeeded(d, type)' = Succeeded(d, type)
    BY <2>1 DEF queueVars, Succeeded, Has, Ids, Job
  <2>6. IsReady(d)' <=> IsReady(d)
    BY <2>1, <2>5, SameReadiness DEF Indexed
  <2>7. IsReady(Target(v))' <=> IsReady(d)'
    BY <2>2, <2>4, ReadyAsksAfter DEF IsReady, Missing
  <2>8. QED
    BY <2>2, <2>3, <2>4, <2>6, <2>7
<1>2. CASE ~Begin(v)
  <2>1. /\ seen[v].step # "unread" /\ pc[v] = "execute"
        /\ seen'[v].doc = seen[v].doc /\ seen'[v].ready = seen[v].ready
        /\ Type(v)' = Type(v) /\ Target(v)' = Target(v)
    BY <1>2, ReadingsLast
  <2>2. PICK d : d = Target(v)
    OBVIOUS
  <2>3. d \in Docs
    BY <1>0, <2>1, <2>2, HeldJob
  <2>4. seen[v].doc[d].status # "absent"
    BY <2>1, <2>2 DEF Lifecycle, SeenIsNow, Mine
  <2>5. doc'[d].rows = doc[d].rows /\ doc'[d].status = doc[d].status
    <3>1. seen[v].doc[d].rows = doc[d].rows /\ seen[v].doc[d].status = doc[d].status
      BY <2>1, <2>3, <2>4 DEF Lifecycle, SeenIsNow
    <3>2. seen'[v].doc[d].rows = doc'[d].rows /\ seen'[v].doc[d].status = doc'[d].status
      BY <2>1, <2>3, <2>4 DEF Lifecycle, SeenIsNow
    <3>3. QED
      BY <2>1, <3>1, <3>2
  <2>6. \A w \in Workers : ~Succeed(w)
    BY <2>1, OnlyReader DEF Succeed
  <2>7. \A type : Succeeded(d, type)' = Succeeded(d, type)
    BY <2>6, SucceededKept
  <2>8. IsReady(d)' <=> IsReady(d)
    BY <2>5, <2>7, SameReadiness DEF Indexed
  <2>9. seen[v].ready <=> IsReady(d)
    BY <2>1, <2>2 DEF ReportIsNow
  <2>10. Target(v)' = d
    BY <2>1, <2>2
  <2>11. IsReady(Target(v))' <=> IsReady(d)'
    BY <2>10 DEF IsReady, Missing
  <2>12. QED
    BY <2>1, <2>8, <2>9, <2>11
<1>3. QED
  BY <1>1, <1>2

(* What is ahead of a stage stays ahead while nothing commits.             *)
LEMMA AheadStill ==
    ASSUME NEW d, Still(d), NEW type, Ahead(d, type)
    PROVE  Ahead(d, type)'
<1>1. /\ RowsOf(d)' = RowsOf(d)
      /\ \A j \in RowsOf(d) : /\ jobs'[j].kind = jobs[j].kind
                              /\ j \in committed' <=> j \in committed
  BY DEF Still, SameJobs
<1>2. \A j \in RowsOf(d) : Since(d, j)' <=> Since(d, j)
  BY <1>1 DEF Since
<1>3. \A t : Before(t)' = Before(t)
  BY DEF Before
<1>4. QED
  BY <1>1, <1>2, <1>3 DEF Ahead

(* The job a worker reports is the one it executed.                        *)
LEMMA SameHeldJob ==
    ASSUME Known, Exclusive, HeldRuns, QueueStep \/ UNCHANGED queueVars,
           NEW w \in Workers, pc[w] \in {"execute", "succeed"}, cur'[w] = cur[w]
    PROVE  Type(w)' = Type(w) /\ Target(w)' = Target(w)
<1>1. PICK c : c = cur[w]
  OBVIOUS
<1>2. c \in DOMAIN jobs
  BY <1>1, HeldRow DEF Known
<1>3. jobs'[c].kind = jobs[c].kind
  BY <1>2, KindsKept
<1>4. QED
  BY <1>1, <1>3 DEF Type, Target

(* Each commit leaves something to do, until that is done.                 *)
LEMMA LeavesWorkStep ==
    ASSUME Known, Exclusive, UploadsAndRebuilds, Lifecycle, CommittedIsDone,
           CheckRuns, LeavesWork, MaxFaults = 0, [PipelineNext]_pipelineVars
    PROVE  LeavesWork'
<1> DEFINE Left(w, d, type) ==
              /\ type \in Passing =>
                    \/ ~Indexed(d)' \/ Layer(doc'[d], "chunk") = {}
                    \/ Ahead(d, type)'
              /\ type \in Last => Awaited(d)'
<1> SUFFICES ASSUME NEW w \in Workers, pc'[w] = "succeed"
             PROVE  /\ Type(w)' \in Passing =>
                          \/ ~Indexed(Target(w))' \/ Layer(doc'[Target(w)'], "chunk") = {}
                          \/ Ahead(Target(w), Type(w))'
                    /\ Type(w)' \in Last => Awaited(Target(w))'
  BY DEF LeavesWork, Passing, Last, Layer
<1>0. TypeOK /\ JobsFit /\ (QueueStep \/ UNCHANGED queueVars) /\ HeldRuns
  BY PipelineQueueStep DEF Known, Lifecycle
<1>1. /\ cur'[w] = cur[w] /\ pc[w] \in {"execute", "succeed"}
      /\ pc[w] # "succeed" => Builds(w, Target(w)) \/ Rebuild(w)
  <2>1. CASE pc[w] = "succeed"
    <3>1. ~Succeed(w) /\ ~Fail(w)
      BY <1>0, <2>1 DEF Succeed, Fail, Release, Goto, TypeOK
    <3>2. QED
      BY <1>0, <2>1, <3>1, Settling
  <2>2. CASE pc[w] # "succeed"
    BY <2>2, SuccessBegins
  <2>3. QED
    BY <2>1, <2>2
<1>2. PICK d, type : d = Target(w) /\ type = Type(w)
  OBVIOUS
<1>3. Type(w)' = type /\ Target(w)' = d
  BY <1>0, <1>1, <1>2, SameHeldJob
<1>4. SUFFICES ASSUME type \in Passing \cup Last PROVE Left(w, d, type)
  BY <1>3 DEF Indexed, Ahead, Awaited, RowsOf, Since
<1>5. type # "rebuild" /\ d \in Docs
  <2>1. type # "rebuild"
    BY <1>4 DEF Passing, Last
  <2>2. cur[w] \in DOMAIN jobs
    BY <1>0, <1>1, HeldRow
  <2>3. jobs[cur[w]].kind \in PipelineKind
    BY <1>0, <2>2 DEF JobsFit, Ids
  <2>4. QED
    BY <1>2, <2>1, <2>3 DEF PipelineKind, Type, Target
<1>6. CASE pc[w] = "succeed"
  <2>1. \A v \in Workers : pc[v] # "execute"
    BY <1>6, OnlyReader
  <2>2. ~\E v \in Workers : Builds(v, d) \/ Rebuild(v)
    BY <2>1 DEF Builds, Rebuild, Turn
  <2>3. type \in Passing =>
           ~Indexed(d) \/ Layer(doc[d], "chunk") = {} \/ Ahead(d, type)
    BY <1>2, <1>6 DEF LeavesWork
  <2>4. type \in Last => Awaited(d)
    BY <1>2, <1>6 DEF LeavesWork
  <2>5. CASE Still(d)
    <3>1. Ahead(d, type) => Ahead(d, type)'
      BY <2>5, AheadStill
    <3>2. Indexed(d)' <=> Indexed(d)
      BY <2>5 DEF Still, Indexed
    <3>3. Layer(doc'[d], "chunk") = Layer(doc[d], "chunk")
      BY <2>5 DEF Still, Layer
    <3>4. type \in Last => Awaited(d)'
      BY <1>5, <2>2, <2>4, AwaitedLasts
    <3>5. QED
      BY <2>3, <3>1, <3>2, <3>3, <3>4
  <2>6. CASE doc'[d].status \in {"failed", "absent", "registered"}
    <3>1. ~Indexed(d)'
      BY <2>6 DEF Indexed
    <3>2. type \in Last => Awaited(d)'
      BY <1>5, <2>2, <2>4, AwaitedLasts
    <3>3. QED
      BY <3>1, <3>2
  <2>7. QED
    BY <1>5, <2>2, <2>5, <2>6, DocumentSteps
<1>7. CASE pc[w] # "succeed"
  <2>1. Builds(w, d)
    BY <1>1, <1>2, <1>5, <1>7 DEF Rebuild, Turn
  <2>2. PICK batch \in ProperBatches : LeadsOn(w, d, batch) /\ CommitWork(w, {}, batch)
    BY <2>1, HandlersLead
  <2>3. ASSUME type \in Last PROVE Awaited(d)'
    <3>1. Queued("check", d, batch) /\ "check" # Type(w)
      BY <1>2, <2>2, <2>3 DEF LeadsOn, Last
    <3>2. PICK n \in RowsOf(d)' : /\ jobs'[n].kind.type = "check" /\ Live(n)'
                                  /\ Since(d, n)' /\ n \notin committed'
      BY <2>1, <2>2, <3>1, QueuedIsThere
    <3>3. QED
      BY <3>2 DEF Awaited
  <2>4. ASSUME type \in Passing, Skip(w)
        PROVE  ~Indexed(d)' \/ Layer(doc'[d], "chunk") = {}
    <3>1. type = "embed"
      BY <1>2, <2>4 DEF Skip, NothingToDo, Passing
    <3>2. Mine(w).status = "failed" \/ Layer(Mine(w), "chunk") = {}
      BY <1>2, <2>4, <3>1 DEF Skip, NothingToDo
    <3>3. /\ Mine(w).status = doc[d].status
          /\ Layer(Mine(w), "chunk") = Layer(doc[d], "chunk")
      BY <1>2, <1>5, <2>1, ReadIsNow DEF Builds
    <3>4. doc' = [doc EXCEPT ![d] = doc[d]]
      BY <1>2, <2>4 DEF Skip, Commit
    <3>5. doc'[d] = doc[d]
      BY <1>5, <3>4 DEF Known, DataOK
    <3>6. QED
      BY <3>2, <3>3, <3>5 DEF Indexed
  <2>5. ASSUME type \in Passing, ~Skip(w) PROVE Ahead(d, type)'
    <3>1. PICK t \in AskedTypes : Before(t) = type /\ Queued(t, d, batch)
      BY <1>2, <2>2, <2>5 DEF LeadsOn
    <3>2. t # Type(w)
      BY <1>2, <3>1 DEF AskedTypes, Before
    <3>3. PICK n \in RowsOf(d)' : /\ jobs'[n].kind.type = t /\ Live(n)'
                                  /\ Since(d, n)' /\ n \notin committed'
      BY <2>1, <2>2, <3>1, <3>2, QueuedIsThere
    <3>4. Before(t)' = Before(t)
      BY DEF Before
    <3>5. QED
      BY <3>1, <3>3, <3>4 DEF Ahead, Before
  <2>6. QED
    BY <2>3, <2>4, <2>5
<1>8. QED
  BY <1>6, <1>7

(* When all commits have been reported, as in the state after a success.   *)
LEMMA AheadIsNotReadyAfter ==
    (\A d \in Docs, type \in Passing :
        /\ Known /\ CommittedIsDone /\ MaxFaults = 0 /\ Ordered(d)
        /\ \A w \in Workers : pc[w] # "succeed"
        /\ Ahead(d, type)
        => ~IsReady(d))'
<1>1. \A d \in Docs, type \in Passing :
        /\ Known /\ CommittedIsDone /\ MaxFaults = 0 /\ Ordered(d)
        /\ \A w \in Workers : pc[w] # "succeed"
        /\ Ahead(d, type)
        => ~IsReady(d)
  BY AheadIsNotReady
<1>2. QED
  BY <1>1, PTL

(* The last stage to finish always has a check to follow.                  *)
LEMMA HeardStep ==
    ASSUME Known, Known', Exclusive, UploadsAndRebuilds, Lifecycle, Reports,
           CommittedIsDone', LeavesWork', \A d \in Docs : Ordered(d)',
           MaxFaults = 0, [PipelineNext]_pipelineVars
    PROVE  Heard'
<1> SUFFICES ASSUME NEW d \in Docs, ~Passed(d)', doc'[d].status = "indexed", IsReady(d)'
             PROVE  Awaited(d)'
  BY DEF Heard
<1>0. /\ TypeOK /\ JobsFit /\ (QueueStep \/ UNCHANGED queueVars) /\ HeldRuns
      /\ CheckRuns /\ CommittedIsDone /\ LeavesWork /\ ReportIsNow /\ Heard
  BY PipelineQueueStep DEF Known, Lifecycle, Reports
<1>1. \A v \in Workers : ~Rebuild(v)
  BY RebuildMoves
<1>2. Indexed(d)'
  BY DEF Indexed
<1>3. ASSUME doc[d].status = "indexed", doc'[d].rows = doc[d].rows,
             \A v \in Workers : Builds(v, d) => Type(v) # "check",
             ~Passed(d),
             \A v \in Workers : Succeed(v) /\ Target(v) = d
                                => Type(v) \notin Passing \cup Last
      PROVE  Awaited(d)'
  <2>1. ASSUME NEW type \in AskedTypes \cup {"embed"}
        PROVE  Succeeded(d, type)' = Succeeded(d, type)
    <3>1. type \in Passing \cup Last
      BY <2>1 DEF AskedTypes, Passing, Last
    <3>2. \A v \in Workers : Succeed(v) => jobs[cur[v]].kind # Job(type, d)
      BY <1>3, <3>1 DEF Target, Type, Job
    <3>3. QED
      BY <3>2, SucceededKept DEF Lifecycle
  <2>2. IsReady(d)
    BY <1>2, <1>3, <2>1, SameReadiness DEF Indexed
  <2>3. Awaited(d)
    BY <1>0, <1>3, <2>2 DEF Heard
  <2>4. QED
    BY <1>0, <1>1, <1>3, <2>3, AwaitedLasts
<1>4. ASSUME NEW w \in Workers, Builds(w, d) PROVE Awaited(d)'
  <2>1. /\ pc[w] = "execute" /\ d = Target(w) /\ pc'[w] = "succeed" /\ cur'[w] = cur[w]
        /\ seen[w].step # "unread" /\ Type(w) # "rebuild"
    <3>1. \E batch \in ProperBatches : CommitWork(w, {}, batch)
      BY <1>4, HandlerCommits DEF Commits
    <3>2. QED
      BY <1>0, <1>4, <3>1 DEF Builds, CommitWork, Goto, TypeOK
  <2>2. Type(w)' = Type(w) /\ Target(w)' = d
    BY <1>0, <2>1, SameHeldJob
  <2>3. Type(w) \notin Passing
    BY <2>1, <2>2 DEF Passed, Passing
  <2>4. CASE Type(w) \in Last
    BY <2>1, <2>2, <2>4 DEF LeavesWork, Last
  <2>5. CASE Type(w) \notin Last
    <3>1. /\ Mine(w).status = doc[d].status /\ Mine(w).rows = doc[d].rows
          /\ doc[d] \in DocRow
      BY <2>1, ReadIsNow
    <3>2. Indexed(d)
      <4>1. Type(w) # "embed"
        BY <2>3 DEF Passing
      <4>2. QED
        BY <1>2, <1>4, <4>1, OnlyEmbedIndexes DEF Indexed
    <3>3. Skip(w) \/ CheckReadiness(w)
      <4>1. ~Parse(w) /\ ~Normalize(w) /\ ~Segment(w)
        BY <2>1, <3>1, <3>2 DEF Parse, Normalize, Segment, Indexed
      <4>2. /\ ~Embed(w) /\ ~Extract(w) /\ ~EmbedPropositions(w) /\ ~GenerateSummaries(w)
            /\ ~EmbedSummaries(w) /\ ~BuildGraph(w) /\ ~IndexVisualPages(w)
        BY <2>3, <2>5 DEF Embed, Extract, EmbedPropositions, GenerateSummaries,
           EmbedSummaries, BuildGraph, IndexVisualPages, Turn, Passing, Last
      <4>3. QED
        BY <1>4, <4>1, <4>2 DEF Builds
    <3>4. \A v \in Workers : pc[v] # "succeed"
      BY <2>1, OnlyReader
    <3>5. ~Passed(d) /\ \A v \in Workers : ~Succeed(v)
      BY <3>4 DEF Passed, Succeed
    <3>6. CASE Skip(w)
      <4>1. doc' = [doc EXCEPT ![d] = doc[d]]
        BY <2>1, <3>6 DEF Skip, Commit
      <4>2. doc'[d] = doc[d]
        BY <4>1 DEF Known, DataOK
      <4>3. ASSUME NEW v \in Workers, Builds(v, d) PROVE Type(v) # "check"
        <5>1. v = w
          BY <2>1, <4>3, OnlyReader DEF Builds
        <5>2. QED
          BY <3>6, <5>1 DEF Skip, NothingToDo
      <4>4. QED
        BY <1>3, <3>5, <4>2, <4>3
    <3>7. CASE CheckReadiness(w)
      <4>1. Type(w) = "check"
        BY <3>7 DEF CheckReadiness, Turn
      <4>2. PICK status : status = Barrier(d, Mine(w), seen[w].ready)
        OBVIOUS
      <4>3. doc' = [doc EXCEPT ![d] = [doc[d] EXCEPT !.status = status]]
        BY <2>1, <3>7, <4>2 DEF CheckReadiness, Commit
      <4>4. doc'[d] = [doc[d] EXCEPT !.status = status]
        BY <4>3 DEF Known, DataOK
      <4>5. doc'[d].status = status /\ doc'[d].rows = doc[d].rows
        BY <3>1, <4>4, RowWritten
      <4>6. ~seen[w].ready
        BY <3>1, <3>2, <4>2, <4>5 DEF Barrier, Indexed
      <4>7. ~IsReady(d)
        BY <1>0, <2>1, <4>1, <4>6 DEF ReportIsNow
      <4>8. \A type : Succeeded(d, type)' = Succeeded(d, type)
        BY <3>5, SucceededKept DEF Lifecycle
      <4>9. QED
        BY <1>2, <3>2, <4>5, <4>7, <4>8, SameReadiness
    <3>8. QED
      BY <3>3, <3>6, <3>7
  <2>6. QED
    BY <2>4, <2>5
<1>5. CASE ~\E w \in Workers : Builds(w, d)
  <2>1. Still(d)
    BY <1>1, <1>5, DocumentSteps
  <2>2. doc[d].status = "indexed" /\ doc'[d].rows = doc[d].rows
    BY <2>1 DEF Still
  <2>3. ASSUME NEW w \in Workers, Succeed(w), Target(w) = d, Type(w) \in Passing
        PROVE  FALSE
    <3>1. PICK type : type = Type(w)
      OBVIOUS
    <3>2. pc[w] = "succeed"
      BY <2>3 DEF Succeed
    <3>3. \/ ~Indexed(d) \/ Layer(doc[d], "chunk") = {} \/ Ahead(d, type)
      BY <1>0, <2>3, <3>1, <3>2 DEF LeavesWork
    <3>4. Indexed(d)
      BY <2>2 DEF Indexed
    <3>5. Layer(doc[d], "chunk") # {}
      <4>1. IdsOf(doc'[d], "chunk") # {}
        BY ReadyAsksAfter DEF BaseThere
      <4>2. QED
        BY <2>2, <4>1 DEF IdsOf, Layer
    <3>6. Ahead(d, type)'
      BY <2>1, <3>3, <3>4, <3>5, AheadStill
    <3>7. \A v \in Workers : pc'[v] # "succeed"
      <4>1. pc'[w] = "scan"
        BY <1>0, <2>3 DEF Succeed, Release, Goto, TypeOK
      <4>2. ASSUME NEW v \in Workers, v # w PROVE pc'[v] = pc[v]
        <5>1. Loop(w)
          BY <2>3 DEF Loop
        <5>2. QED
          BY <1>0, <4>2, <5>1, OneWorkerMoves
      <4>3. \A v \in Workers \ {w} : pc[v] = "down"
        BY <3>2, OnlyReader
      <4>4. QED
        BY <4>1, <4>2, <4>3
    <3>8. type \in Passing' /\ type \in Passing
      BY <2>3, <3>1 DEF Passing
    <3>9. Known' /\ CommittedIsDone' /\ (MaxFaults = 0)' /\ Ordered(d)'
      OBVIOUS
    <3>10. QED
      BY <3>6, <3>7, <3>8, <3>9, AheadIsNotReadyAfter
  <2>4. CASE \E w \in Workers : Succeed(w) /\ Target(w) = d /\ Type(w) \in Last
    <3>1. Awaited(d)
      BY <1>0, <2>4 DEF LeavesWork, Succeed
    <3>2. QED
      BY <1>0, <1>1, <1>5, <3>1, AwaitedLasts
  <2>5. CASE ~\E w \in Workers : Succeed(w) /\ Target(w) = d /\ Type(w) \in Last
    <3>1. ASSUME Passed(d) PROVE FALSE
      <4>1. PICK w \in Workers : pc[w] = "succeed" /\ Target(w) = d /\ Type(w) \in Passing
        BY <3>1 DEF Passed
      <4>2. ~Succeed(w) /\ ~Fail(w)
        BY <2>3, <4>1 DEF Fail
      <4>3. pc'[w] = "succeed" /\ cur'[w] = cur[w]
        BY <1>0, <4>1, <4>2, Settling
      <4>4. Type(w)' = Type(w) /\ Target(w)' = Target(w)
        BY <1>0, <4>1, <4>3, SameHeldJob
      <4>5. Passed(d)'
        BY <4>1, <4>3, <4>4 DEF Passed, Passing
      <4>6. QED
        BY <4>5
    <3>2. QED
      BY <1>3, <1>5, <2>2, <2>3, <2>5, <3>1
  <2>6. QED
    BY <2>4, <2>5
<1>6. QED
  BY <1>4, <1>5

(* On SQLite, without crashes and with uploads and rebuilds only, a        *)
(* document whose layers are complete is READY when its jobs are done:     *)
(* whatever calls fail, the last layer to be built triggers the barrier    *)
(* (memory_enrichment_job.py).  CHECK_DOCUMENT_READINESS itself makes no   *)
(* external call.                                                          *)
THEOREM NothingCompleteIsForgotten ==
    ASSUME Exclusive, UploadsAndRebuilds, MaxFaults = 0, "check" \notin Fallible
    PROVE  PipelineSpec => []NothingIsForgotten
<1>1. PipelineInit => Reports
  <2> SUFFICES ASSUME PipelineInit PROVE Reports
    OBVIOUS
  <2>1. Ids = {} /\ committed = {}
    BY LenProperties DEF PipelineInit, Init, Ids
  <2>2. \A d \in Docs : doc[d].status = "absent"
    BY DEF PipelineInit, NoDoc
  <2>3. \A w \in Workers : seen[w].step = "unread" /\ pc[w] = "down"
    BY DEF PipelineInit, Init
  <2>4. \A d \in Docs : Ordered(d)
    BY <2>1 DEF Ordered, RowsOf
  <2>5. CommittedIsDone /\ CheckRuns /\ ReportIsNow /\ LeavesWork /\ Heard
    BY <2>1, <2>2, <2>3 DEF CommittedIsDone, CheckRuns, ReportIsNow, LeavesWork, Heard
  <2>6. QED
    BY <2>4, <2>5 DEF Reports
<1>2. /\ Known /\ Lifecycle /\ Known' /\ Lifecycle' /\ Reports
      /\ [PipelineNext]_pipelineVars
      => Reports'
  <2> SUFFICES ASSUME Known, Known', Lifecycle, Lifecycle', Reports,
                      [PipelineNext]_pipelineVars
               PROVE  Reports'
    OBVIOUS
  <2>0. /\ \A d \in Docs : Ordered(d)
        /\ CommittedIsDone /\ CheckRuns /\ ReportIsNow /\ LeavesWork
    BY DEF Reports
  <2>1. \A d \in Docs : Ordered(d)'
    BY <2>0, OrderedStep
  <2>2. CommittedIsDone'
    <3>1. QueueStep \/ UNCHANGED queueVars
      BY PipelineQueueStep DEF Known
    <3>2. QED
      BY <2>0, <3>1, CommittedIsDoneStep DEF Lifecycle
  <2>3. CheckRuns'
    BY <2>0, CheckRunsStep
  <2>4. ReportIsNow'
    BY <2>0, ReportIsNowStep
  <2>5. LeavesWork'
    BY <2>0, LeavesWorkStep
  <2>6. Heard'
    BY <2>1, <2>2, <2>5, HeardStep
  <2>7. QED
    BY <2>1, <2>2, <2>3, <2>4, <2>5, <2>6 DEF Reports
<1>3. Known /\ Lifecycle /\ Reports => NothingIsForgotten
  <2> SUFFICES ASSUME Known, Lifecycle, Reports, NEW d \in Docs, Idle(d), IsReady(d),
                      doc[d].status # "ready"
               PROVE  FALSE
    BY DEF NothingIsForgotten
  <2>1. \A j \in RowsOf(d) : ~Live(j)
    <3>1. ASSUME NEW j \in RowsOf(d), Live(j) PROVE FALSE
      <4>1. j \in Ids /\ jobs[j].kind.target = d /\ jobs[j].kind \in PipelineKind
        BY <3>1 DEF RowsOf, Known, JobsFit
      <4>2. jobs[j].kind.type \in PipelineTypes
        BY <4>1, PipelineAssumption DEF PipelineKind, Kind
      <4>3. QED
        BY <3>1, <4>1, <4>2 DEF Idle, Active, Live
    <3>2. QED
      BY <3>1
  <2>2. ~Awaited(d)
    BY <2>1 DEF Awaited
  <2>3. ~Passed(d)
    <3> SUFFICES ASSUME NEW w \in Workers, pc[w] = "succeed", Target(w) = d PROVE FALSE
      BY DEF Passed
    <3>1. cur[w] \in RowsOf(d)
      BY HeldRow DEF Known, RowsOf, Ids, Target
    <3>2. jobs[cur[w]].status = "running"
      BY DEF Lifecycle, HeldRuns
    <3>3. QED
      BY <2>1, <3>1, <3>2 DEF Live
  <2>4. doc[d].status = "indexed"
    BY ReadyAsks DEF BaseThere
  <2>5. QED
    BY <2>2, <2>3, <2>4 DEF Reports, Heard
<1>4. QED
  BY <1>1, <1>2, <1>3, LifecycleHolds, PTL DEF PipelineSpec

-----------------------------------------------------------------------------
(***************************************************************************)
(* A document that waits for its PARSE.                                    *)
(***************************************************************************)
ParseQueued == \A d \in Docs : doc[d].status = "registered" =>
    \E p \in RowsOf(d) : /\ jobs[p].kind.type = "parse"
                         /\ Live(p) \/ jobs[p].status = "failed"

(* PARSE does not succeed without moving its document on.                  *)
ParseMoves == \A w \in Workers :
    pc[w] = "succeed" /\ Type(w) = "parse" => doc[Target(w)].status # "registered"

(* While a worker has its success to report it keeps its job.              *)
LEMMA ReportKeepsJob ==
    ASSUME TypeOK, QueueStep \/ UNCHANGED queueVars,
           NEW w \in Workers, pc[w] = "succeed", pc'[w] = "succeed"
    PROVE  cur'[w] = cur[w]
<1>0. pc \in [Workers -> Steps] /\ cur \in [Workers -> Nat]
  BY DEF TypeOK
<1>1. ~(Start(w) \/ Fault(w) \/ RaiseError(w) \/ Acts(w))
  BY <1>0 DEF Start, RaiseError, Acts, CommitWork, Fault, Crash, SucceedNotCommitted,
              FailNotCommitted, Release, Goto
<1>2. ~Loop(w)
  BY <1>0 DEF Loop, ScanStale, RequeueStale, RequeueRolledBack, Pick, ClaimLost,
              Claim, ClaimUnhandled, Succeed, Fail, Release, Goto
<1>3. /\ AsksFor \/ UNCHANGED queueVars => cur' = cur
      /\ \A j \in Ids : Expire(j) \/ Outlive(j) => cur' = cur
  BY DEF AsksFor, Request, Expire, Outlive, queueVars
<1>4. QED
  BY <1>1, <1>2, <1>3, OneWorkerMoves DEF QueueStep

(* Each step keeps it so: a rebuild has no worker beside it.               *)
LEMMA ParseMovesStep ==
    ASSUME Known, Exclusive, UploadsAndRebuilds, Lifecycle, ParseMoves,
           [PipelineNext]_pipelineVars
    PROVE  ParseMoves'
<1> SUFFICES ASSUME NEW w \in Workers, pc'[w] = "succeed", Type(w)' = "parse"
             PROVE  doc'[Target(w)'].status # "registered"
  BY DEF ParseMoves
<1>0. TypeOK /\ JobsFit /\ (QueueStep \/ UNCHANGED queueVars) /\ HeldRuns
  BY PipelineQueueStep DEF Known, Lifecycle
<1>1. /\ cur'[w] = cur[w] /\ pc[w] \in {"execute", "succeed"}
      /\ pc[w] # "succeed" => Builds(w, Target(w)) \/ Rebuild(w)
  BY <1>0, ReportKeepsJob, SuccessBegins
<1>2. PICK d : d = Target(w)
  OBVIOUS
<1>3. Type(w) = "parse" /\ Target(w)' = d
  BY <1>0, <1>1, <1>2, SameHeldJob
<1>4. d \in Docs /\ cur[w] \in RowsOf(d)
  <2>1. cur[w] \in DOMAIN jobs
    BY <1>0, <1>1, HeldRow
  <2>2. jobs[cur[w]].kind \in PipelineKind
    BY <1>0, <2>1 DEF JobsFit, Ids
  <2>3. QED
    BY <1>2, <1>3, <2>1, <2>2 DEF PipelineKind, Type, Target, RowsOf, Ids
<1>5. CASE pc[w] = "succeed"
  <2>1. \A v \in Workers : pc[v] # "execute"
    BY <1>5, OnlyReader
  <2>2. ~\E v \in Workers : Builds(v, d) \/ Rebuild(v)
    BY <2>1 DEF Builds, Rebuild, Turn
  <2>3. doc[d].status # "registered"
    BY <1>2, <1>3, <1>5 DEF ParseMoves
  <2>4. ASSUME NEW e \in Docs, Register(e) PROVE doc'[d] = doc[d]
    <3>1. d # e
      BY <1>4, <2>4, RegisterAdds
    <3>2. QED
      BY <1>4, <2>4, <3>1, RegisterAdds
  <2>5. ASSUME NEW v \in Workers, NEW e \in Docs, Builds(v, e) PROVE FALSE
    BY <2>1, <2>5 DEF Builds
  <2>6. RequestRebuild => doc' = doc
    BY DEF RequestRebuild
  <2>7. Unmoved(d) => doc'[d].status # "registered"
    BY <2>3 DEF Unmoved
  <2>8. doc'[d].status # "registered"
    BY <1>4, <2>2, <2>3, <2>4, <2>5, <2>6, <2>7, TableSteps
  <2>9. QED
    BY <1>3, <2>8
<1>6. CASE pc[w] # "succeed"
  <2>1. Builds(w, d)
    BY <1>1, <1>2, <1>3, <1>6 DEF Rebuild, Turn
  <2>2. Advances(doc[d], doc'[d])
    BY <2>1, HandlerCommits
  <2>3. Parse(w)
    BY <1>3, <2>1 DEF Builds, Normalize, Segment, Embed, Extract, EmbedPropositions,
       GenerateSummaries, EmbedSummaries, BuildGraph, IndexVisualPages, CheckReadiness,
       Skip, NothingToDo, Turn
  <2>4. doc'[d] = Reparsed(d, Mine(w), "parsed", {New("node", 0, {})})
    BY <1>2, <1>4, <2>3 DEF Parse, Commit, Known, DataOK
  <2>5. Mine(w).rows = doc[d].rows /\ Tidy(doc[d])
    BY <1>2, <1>3, <2>1, ReadIsNow DEF Builds, Shape
  <2>6. doc'[d].status = "parsed"
    BY <1>4, <2>4, <2>5, ReparsedRow DEF Known
  <2>7. QED
    BY <1>3, <2>6
<1>7. QED
  BY <1>5, <1>6

(* The PARSE of a registered document is there as long as it waits.        *)
LEMMA ParseQueuedStep ==
    ASSUME Known, Known', Exclusive, UploadsAndRebuilds, Lifecycle, Lifecycle',
           ParseQueued, ParseMoves, [PipelineNext]_pipelineVars
    PROVE  ParseQueued'
<1> SUFFICES ASSUME NEW d \in Docs, doc'[d].status = "registered"
             PROVE  \E p \in RowsOf(d)' : /\ jobs'[p].kind.type = "parse"
                                          /\ Live(p)' \/ jobs'[p].status = "failed"
  BY DEF ParseQueued
<1> DEFINE Goal == \E p \in RowsOf(d)' : /\ jobs'[p].kind.type = "parse"
                                         /\ Live(p)' \/ jobs'[p].status = "failed"
<1>0. TypeOK /\ JobsFit /\ (QueueStep \/ UNCHANGED queueVars)
  BY PipelineQueueStep DEF Known
<1>1. ASSUME doc[d].status = "registered",
             \A p \in RowsOf(d) : jobs[p].kind.type = "parse" /\ Live(p)
                => jobs'[p].status # "deleted"
      PROVE  Goal
  <2>1. PICK p \in RowsOf(d) : /\ jobs[p].kind.type = "parse"
                               /\ Live(p) \/ jobs[p].status = "failed"
    BY <1>1 DEF ParseQueued
  <2>2. p \in DOMAIN jobs /\ jobs[p].kind.target = d
    BY DEF RowsOf, Ids
  <2>3. p \in DOMAIN jobs' /\ jobs'[p].kind = jobs[p].kind
    BY <1>0, <2>2, KindsKept DEF Lifecycle
  <2>4. Live(p)' \/ jobs'[p].status = "failed"
    <3>1. Fate(p)
      BY <2>2, JobFates
    <3>2. ~\E w \in Workers : Succeed(w) /\ cur[w] = p
      BY <1>1, <2>1, <2>2 DEF Succeed, ParseMoves, Type, Target
    <3>3. QED
      BY <1>1, <2>1, <3>1, <3>2 DEF Fate, Live
  <2>5. QED
    BY <2>1, <2>2, <2>3, <2>4 DEF RowsOf, Ids
<1>2. ASSUME NEW w \in Workers, Rebuild(w) PROVE Goal
  <2>1. CASE d \in Listed(w)
    <3>1. RebuildIsAlone
      BY DEF Known
    <3>2. PICK j \in DOMAIN jobs' :
             jobs'[j].kind = Job("parse", d) /\ jobs'[j].status = "pending"
      BY <1>0, <1>2, <2>1, <3>1, RebuildCleans
    <3>3. QED
      BY <3>2 DEF Job, RowsOf, Ids, Live
  <2>2. CASE d \notin Listed(w)
    <3>1. doc'[d] = doc[d]
      BY <1>2, <2>2 DEF Rebuild, Restarted
    <3>2. PICK dropped, held : dropped = Obsolete(w) /\ held = {cur[w]}
      OBVIOUS
    <3>3. PICK batch \in ParseJobs(w) : jobs' = Transact(dropped, held, batch)
      BY <1>2, <3>2 DEF Rebuild, CommitWork
    <3>4. batch \in ProperBatches
      BY <3>3, ParseJobsAreProper
    <3>5. d \notin dropped
      BY <2>2, <3>2, PipelineAssumption DEF Obsolete
    <3>6. \A j \in DOMAIN jobs :
             \/ jobs'[j].status = jobs[j].status
             \/ /\ jobs[j].status = "pending" /\ jobs'[j].status = "deleted"
                /\ jobs[j].kind.target \in dropped
      BY <1>0, <3>3, <3>4, TransactFates
    <3>7. \A p \in RowsOf(d) : Live(p) => jobs'[p].status # "deleted"
      BY <3>5, <3>6 DEF RowsOf, Ids, Live
    <3>8. QED
      BY <1>1, <3>1, <3>7
  <2>3. QED
    BY <2>1, <2>2
<1>3. CASE Register(d)
  <2>1. RowsOf(d) = {} /\ RowsOf(d)' = {Len(jobs) + 1}
    BY <1>3, RegisterAdds
  <2>2. PICK n : n = Len(jobs) + 1
    OBVIOUS
  <2>3. n \in DOMAIN jobs' \ DOMAIN jobs
    <3>1. n \in DOMAIN jobs'
      BY <2>1, <2>2 DEF RowsOf, Ids
    <3>2. Len(jobs) \in Nat /\ DOMAIN jobs = 1..Len(jobs)
      BY <1>0, LenProperties DEF TypeOK
    <3>3. QED
      BY <2>2, <3>1, <3>2
  <2>4. jobs'[n].status = "pending"
    BY <2>3, JobFates
  <2>5. DocJobs(d)' /\ RowsOf(d)' = {n} /\ Live(n)'
    BY <2>1, <2>2, <2>4 DEF Lifecycle, Live
  <2>6. Since(d, n)'
    <3>1. n \in Nat
      BY <1>0, <2>2, LenProperties DEF TypeOK
    <3>2. QED
      BY <2>5, <3>1 DEF Since
  <2>7. jobs'[n].kind.type \in Reached("registered")
    BY <2>5, <2>6 DEF DocJobs, Reached
  <2>8. QED
    BY <2>5, <2>7 DEF Reached
<1>4. ASSUME NEW w \in Workers, Builds(w, d) PROVE FALSE
  <2>1. Advances(doc[d], doc'[d])
    BY <1>4, HandlerCommits
  <2>2. doc[d].status = "registered"
    BY <2>1 DEF Advances
  <2>3. Type(w) = "parse"
    BY <1>4, <2>2, ReadIsNow DEF Builds, Reached
  <2>4. Parse(w)
    BY <1>4, <2>3 DEF Builds, Normalize, Segment, Embed, Extract, EmbedPropositions,
       GenerateSummaries, EmbedSummaries, BuildGraph, IndexVisualPages, CheckReadiness,
       Skip, NothingToDo, Turn
  <2>5. d = Target(w)
    BY <1>4 DEF Builds
  <2>6. doc'[d] = Reparsed(d, Mine(w), "parsed", {New("node", 0, {})})
    BY <2>4, <2>5 DEF Parse, Commit, Known, DataOK
  <2>7. Mine(w).rows = doc[d].rows /\ Tidy(doc[d])
    BY <1>4, <2>5, ReadIsNow DEF Builds, Shape
  <2>8. doc'[d].status = "parsed"
    BY <2>6, <2>7, ReparsedRow DEF Known
  <2>9. QED
    BY <2>8
<1>5. CASE /\ ~\E w \in Workers : Rebuild(w) \/ Builds(w, d)
           /\ ~Register(d)
  <2>1. \A p \in RowsOf(d) : Live(p) => jobs'[p].status # "deleted"
    <3>1. ASSUME NEW p \in RowsOf(d), Live(p), jobs'[p].status = "deleted" PROVE FALSE
      <4>1. p \in DOMAIN jobs /\ jobs[p].kind.target = d
        BY DEF RowsOf, Ids
      <4>2. Fate(p)
        BY <4>1, JobFates
      <4>3. QED
        BY <1>5, <3>1, <4>1, <4>2 DEF Fate, Live
    <3>2. QED
      BY <3>1
  <2>2. Unmoved(d) => doc[d].status = "registered"
    BY DEF Unmoved
  <2>3. ASSUME NEW w \in Workers, NEW e \in Docs, Builds(w, e)
        PROVE  doc[d].status = "registered"
    <3>1. e # d
      BY <1>5, <2>3
    <3>2. doc'[d] = doc[d]
      BY <2>3, <3>1, BuildsElsewhere
    <3>3. QED
      BY <3>2
  <2>4. ASSUME NEW e \in Docs, Register(e) PROVE doc[d].status = "registered"
    <3>1. e # d
      BY <1>5, <2>4
    <3>2. doc'[d] = doc[d]
      BY <2>4, <3>1, RegisterAdds
    <3>3. QED
      BY <3>2
  <2>5. RequestRebuild => doc[d].status = "registered"
    BY DEF RequestRebuild
  <2>6. doc[d].status = "registered"
    BY <1>5, <2>2, <2>3, <2>4, <2>5, TableSteps
  <2>7. QED
    BY <1>1, <2>1, <2>6
<1>6. QED
  BY <1>2, <1>3, <1>4, <1>5

(* Without repeated registrations and repairs a document waiting to be     *)
(* parsed has a PARSE job, or had one that used up its attempts, whatever  *)
(* crashes, commits that fail and failing calls there are: REBUILD drops   *)
(* only the jobs of documents for which it inserts a new PARSE             *)
(* (mem_builder_job.py).  A resume breaks this: it sets the status without *)
(* inserting a job.                                                        *)
THEOREM RegisteredDocumentsAreQueued ==
    ASSUME Exclusive, UploadsAndRebuilds
    PROVE  PipelineSpec => []RegisteredIsQueued
<1>1. PipelineInit => ParseQueued /\ ParseMoves
  BY DEF PipelineInit, Init, NoDoc, ParseQueued, ParseMoves
<1>2. /\ Known /\ Lifecycle /\ Known' /\ Lifecycle' /\ ParseQueued /\ ParseMoves
      /\ [PipelineNext]_pipelineVars
      => ParseQueued' /\ ParseMoves'
  BY ParseQueuedStep, ParseMovesStep
<1>3. Known /\ ParseQueued => RegisteredIsQueued
  <2> SUFFICES ASSUME Known, ParseQueued, NEW d \in Docs,
                      doc[d].status = "registered", Idle(d)
               PROVE  \E j \in Ids : jobs[j].kind = Job("parse", d) /\ Has(j, "failed")
    BY DEF RegisteredIsQueued
  <2>1. PICK p \in RowsOf(d) : /\ jobs[p].kind.type = "parse"
                               /\ Live(p) \/ jobs[p].status = "failed"
    BY DEF ParseQueued
  <2>2. p \in Ids /\ jobs[p].kind.target = d
    BY DEF RowsOf
  <2>3. jobs[p].kind \in PipelineKind
    BY <2>2 DEF Known, JobsFit
  <2>4. jobs[p].kind = Job("parse", d)
    BY <2>1, <2>2, <2>3 DEF PipelineKind, Kind, Job
  <2>5. ~Live(p)
    BY <2>1, <2>2 DEF Idle, Active, Live, PipelineTypes
  <2>6. QED
    BY <2>1, <2>2, <2>4, <2>5 DEF Has
<1>4. QED
  BY <1>1, <1>2, <1>3, LifecycleHolds, PTL DEF PipelineSpec
=============================================================================
