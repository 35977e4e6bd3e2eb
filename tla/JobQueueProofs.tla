--------------------------- MODULE JobQueueProofs ---------------------------
(***************************************************************************)
(* Theorems about JobQueue, for any number of workers, targets, job types, *)
(* follow-up batches, retries and faults; the last one shows it to be an   *)
(* implementation of WorkLease.                                            *)
(***************************************************************************)
EXTENDS JobQueue, SequenceTheorems, TLAPS

(***************************************************************************)
(* The inductive invariant.  What the checked invariants leave unsaid:     *)
(* who is about to report success has committed its work; while a fenced   *)
(* job has an executor its row is RUNNING or gone and no other worker has  *)
(* it; with the worker lock at most one process is up, and the rows that   *)
(* process has read as stale are still RUNNING or gone.                    *)
(***************************************************************************)
ReportsWork ==
    \A w \in Workers : pc[w] = "succeed" => cur[w] \in committed

OwnedRowRuns ==
    \A j \in Ids : \A w \in Workers :
        Fenced(j) /\ Executing(w, j) => jobs[j].status \in {"running", "deleted"}

SoleOwner ==
    \A j \in Ids : \A v, w \in Workers :
        Fenced(j) /\ Executing(v, j) /\ Executing(w, j) => v = w

LockHeld ==
    Exclusive => \A v, w \in Workers : pc[v] # "down" /\ pc[w] # "down" => v = w

StaleRowsRun ==
    Exclusive => \A w \in Workers : pc[w] = "requeue" =>
        \A j \in stale[w] : jobs[j].status \in {"running", "deleted"}

IInv ==
    /\ TypeOK
    /\ SuccessNeedsWork
    /\ RetryBudget
    /\ ReportsWork
    /\ OwnedRowRuns
    /\ SoleOwner
    /\ LockHeld
    /\ StaleRowsRun

-----------------------------------------------------------------------------
(* Writing one row keeps the table a table and every other row as it was.  *)
LEMMA WriteRow ==
    ASSUME NEW s \in Seq(Row), NEW c \in DOMAIN s, NEW r \in Row
    PROVE  /\ [s EXCEPT ![c] = r] \in Seq(Row)
           /\ DOMAIN [s EXCEPT ![c] = r] = DOMAIN s
           /\ \A j \in DOMAIN s :
                 [s EXCEPT ![c] = r][j] = IF j = c THEN r ELSE s[j]
<1>1. c \in 1..Len(s) /\ DOMAIN s = 1..Len(s)
  BY LenProperties
<1>2. QED
  BY <1>1, ExceptSeq

(* A row-by-row rewrite of the table is a table of the same length.        *)
LEMMA RewriteRows ==
    ASSUME NEW s \in Seq(Row), NEW t, DOMAIN t = DOMAIN s,
           t = [j \in DOMAIN t |-> t[j]],
           \A j \in DOMAIN s : t[j] \in Row
    PROVE  t \in Seq(Row) /\ Len(t) = Len(s)
<1>1. DOMAIN s = 1..Len(s) /\ Len(s) \in Nat
  BY LenProperties
<1>2. t \in [1..Len(s) -> Row]
  BY <1>1
<1>3. t \in Seq(Row)
  BY <1>1, <1>2, SeqDef
<1>4. DOMAIN t = 1..Len(t) /\ Len(t) \in Nat
  BY <1>3, LenProperties
<1>5. QED
  BY <1>1, <1>3, <1>4

(* Rows are well-formed whatever a transaction does to them.               *)
LEMMA RowWrites ==
    ASSUME JobQueueAssumption, NEW r \in Row
    PROVE  /\ \A st \in Statuses : /\ [r EXCEPT !.status = st] \in Row
                                   /\ [r EXCEPT !.status = st].status = st
                                   /\ [r EXCEPT !.status = st].retries = r.retries
                                   /\ [r EXCEPT !.status = st].kind = r.kind
           /\ Failed(r) \in Row
           /\ Failed(r).retries = r.retries + 1
           /\ Failed(r).status = IF r.retries + 1 >= MaxRetries
                                 THEN "failed" ELSE "pending"
<1>1. ASSUME NEW st \in Statuses
      PROVE  /\ [r EXCEPT !.status = st] \in Row
             /\ [r EXCEPT !.status = st].status = st
             /\ [r EXCEPT !.status = st].retries = r.retries
             /\ [r EXCEPT !.status = st].kind = r.kind
  BY DEF Row
<1>2. MaxRetries \in Nat /\ r.retries \in Nat
  BY DEF JobQueueAssumption, Row
<1>3. /\ Failed(r).retries = r.retries + 1
      /\ Failed(r).status = IF r.retries + 1 >= MaxRetries
                            THEN "failed" ELSE "pending"
  BY DEF Failed, Row
<1>4. Failed(r) \in Row
  <2> DEFINE st == IF r.retries + 1 >= MaxRetries THEN "failed" ELSE "pending"
  <2>1. st \in Statuses /\ r.retries + 1 \in Nat
    BY <1>2 DEF Statuses
  <2>2. Failed(r) = [r EXCEPT !.retries = r.retries + 1, !.status = st]
    BY DEF Failed
  <2> HIDE DEF st
  <2>3. QED
    BY <2>1, <2>2 DEF Row
<1>5. QED
  BY <1>1, <1>3, <1>4

(* Two tables one after the other.                                         *)
LEMMA JoinedRows ==
    ASSUME NEW s \in Seq(Row), NEW t \in Seq(Row)
    PROVE  /\ s \o t \in Seq(Row)
           /\ Len(s \o t) = Len(s) + Len(t)
           /\ \A i \in 1..Len(s) + Len(t) :
                 (s \o t)[i] = IF i <= Len(s) THEN s[i] ELSE t[i - Len(s)]
BY ConcatProperties, Zenon

(* The table after one transaction of a handler or of a request, row by    *)
(* row: the old rows, the dropped ones deleted, and then the new ones.     *)
TransactEffect(dropped, spared, batch) ==
    /\ jobs' \in Seq(Row)
    /\ DOMAIN jobs' = 1..(Len(jobs) + Len(batch))
    /\ \A j \in DOMAIN jobs :
          jobs'[j] = IF /\ jobs[j].status = "pending"
                        /\ jobs[j].kind.target \in dropped
                        /\ j \notin spared
                     THEN [jobs[j] EXCEPT !.status = "deleted"]
                     ELSE jobs[j]
    /\ \A i \in DOMAIN batch : jobs'[Len(jobs) + i] = NewRow(batch[i])
    /\ \A j \in DOMAIN jobs' \ DOMAIN jobs :
          \E i \in DOMAIN batch : j = Len(jobs) + i

(* Transact does just that.                                                *)
LEMMA TransactTable ==
    ASSUME JobQueueAssumption, jobs \in Seq(Row),
           NEW dropped, NEW spared, NEW batch \in Batches,
           jobs' = Transact(dropped, spared, batch)
    PROVE  TransactEffect(dropped, spared, batch)
<1> DEFINE old == [j \in Ids |->
                     IF /\ Has(j, "pending")
                        /\ jobs[j].kind.target \in dropped
                        /\ j \notin spared
                     THEN [jobs[j] EXCEPT !.status = "deleted"]
                     ELSE jobs[j]]
           new == [i \in DOMAIN batch |-> NewRow(batch[i])]
<1>1. /\ DOMAIN jobs = 1..Len(jobs) /\ Len(jobs) \in Nat
      /\ \A j \in DOMAIN jobs : jobs[j] \in Row
  BY LenProperties, ElementOfSeq
<1>2. \A j \in DOMAIN jobs : old[j] \in Row
  BY <1>1, RowWrites DEF Ids, Statuses
<1>3. old \in Seq(Row) /\ Len(old) = Len(jobs)
  BY <1>2, RewriteRows DEF Ids
<1>4. batch \in Seq(Kind)
  BY DEF JobQueueAssumption, Kind
<1>5. /\ DOMAIN batch = 1..Len(batch) /\ Len(batch) \in Nat
      /\ \A i \in DOMAIN batch : batch[i] \in Kind
  BY <1>4, LenProperties, ElementOfSeq
<1>6. \A i \in DOMAIN batch : new[i] \in Row /\ new[i] = NewRow(batch[i])
  BY <1>5 DEF NewRow, Row, Statuses
<1>7. new \in [1..Len(batch) -> Row]
  BY <1>5, <1>6
<1>8. new \in Seq(Row)
  BY <1>5, <1>7, SeqDef
<1>9. DOMAIN new = 1..Len(new) /\ Len(new) = Len(batch)
  BY <1>5, <1>8, LenProperties
<1>10. jobs' = old \o new
  BY DEF Transact
<1> HIDE DEF old, new
<1>11. /\ old \o new \in Seq(Row)
       /\ Len(old \o new) = Len(old) + Len(new)
       /\ \A i \in 1..Len(old) + Len(new) :
             (old \o new)[i] = IF i <= Len(old) THEN old[i] ELSE new[i - Len(old)]
  BY <1>3, <1>8, JoinedRows
<1>12. /\ jobs' \in Seq(Row) /\ Len(jobs') = Len(jobs) + Len(batch)
       /\ \A i \in 1..(Len(jobs) + Len(batch)) :
             jobs'[i] = IF i <= Len(jobs) THEN old[i] ELSE new[i - Len(jobs)]
  BY <1>3, <1>9, <1>10, <1>11
<1>13. DOMAIN jobs' = 1..(Len(jobs) + Len(batch))
  BY <1>12, LenProperties
<1>14. ASSUME NEW j \in DOMAIN jobs
       PROVE  jobs'[j] = IF /\ jobs[j].status = "pending"
                            /\ jobs[j].kind.target \in dropped
                            /\ j \notin spared
                         THEN [jobs[j] EXCEPT !.status = "deleted"]
                         ELSE jobs[j]
  <2>1. jobs'[j] = old[j]
    BY <1>1, <1>5, <1>12
  <2>2. QED
    BY <2>1 DEF old, Ids, Has
<1>15. ASSUME NEW i \in DOMAIN batch
       PROVE  jobs'[Len(jobs) + i] = NewRow(batch[i])
  <2>1. jobs'[Len(jobs) + i] = new[i]
    BY <1>1, <1>5, <1>12
  <2>2. QED
    BY <2>1, <1>6
<1>16. ASSUME NEW j \in DOMAIN jobs' \ DOMAIN jobs
       PROVE  \E i \in DOMAIN batch : j = Len(jobs) + i
  <2>1. j - Len(jobs) \in DOMAIN batch /\ j = Len(jobs) + (j - Len(jobs))
    BY <1>1, <1>5, <1>13
  <2>2. QED
    BY <2>1
<1>17. QED
  BY <1>12, <1>13, <1>14, <1>15, <1>16 DEF TransactEffect

(* The same, as far as the queue's own invariants need it.                 *)
LEMMA TransactRows ==
    ASSUME JobQueueAssumption, jobs \in Seq(Row),
           NEW dropped, NEW spared, NEW batch \in Batches,
           jobs' = Transact(dropped, spared, batch)
    PROVE  /\ jobs' \in Seq(Row)
           /\ DOMAIN jobs \subseteq DOMAIN jobs'
           /\ \A j \in DOMAIN jobs :
                 \/ jobs'[j] = jobs[j]
                 \/ jobs[j].status = "pending"
                    /\ jobs'[j] = [jobs[j] EXCEPT !.status = "deleted"]
           /\ \A j \in DOMAIN jobs' \ DOMAIN jobs :
                 jobs'[j].status = "pending" /\ jobs'[j].retries = 0
<1>1. TransactEffect(dropped, spared, batch)
  BY TransactTable
<1>2. /\ DOMAIN jobs = 1..Len(jobs) /\ Len(jobs) \in Nat
      /\ Len(batch) \in Nat
  BY LenProperties DEF JobQueueAssumption
<1>3. \A k : NewRow(k).status = "pending" /\ NewRow(k).retries = 0
  BY DEF NewRow
<1>4. DOMAIN jobs \subseteq DOMAIN jobs'
  BY <1>1, <1>2 DEF TransactEffect
<1>5. ASSUME NEW j \in DOMAIN jobs
      PROVE  \/ jobs'[j] = jobs[j]
             \/ jobs[j].status = "pending"
                /\ jobs'[j] = [jobs[j] EXCEPT !.status = "deleted"]
  BY <1>1 DEF TransactEffect
<1>6. ASSUME NEW j \in DOMAIN jobs' \ DOMAIN jobs
      PROVE  jobs'[j].status = "pending" /\ jobs'[j].retries = 0
  <2>1. PICK i \in DOMAIN batch : j = Len(jobs) + i
    BY <1>1 DEF TransactEffect
  <2>2. jobs'[j] = NewRow(batch[i])
    BY <1>1, <2>1 DEF TransactEffect
  <2>3. QED
    BY <1>3, <2>2
<1>7. jobs' \in Seq(Row)
  BY <1>1 DEF TransactEffect
<1>8. QED
  BY <1>4, <1>5, <1>6, <1>7

(* The job a worker holds is a row of the table, and never number 0.       *)
LEMMA HeldRow ==
    ASSUME TypeOK, NEW w \in Workers,
           pc[w] \in {"claim", "execute", "succeed", "fail"}
    PROVE  cur[w] \in DOMAIN jobs /\ jobs[cur[w]] \in Row /\ cur[w] # 0
<1>1. cur[w] \in DOMAIN jobs /\ jobs \in Seq(Row)
  BY DEF TypeOK, Ids
<1>2. DOMAIN jobs = 1..Len(jobs)
  BY <1>1, LenProperties
<1>3. QED
  BY <1>1, <1>2, ElementOfSeq

(* A claim writes one row: the one held becomes RUNNING.                   *)
LEMMA ClaimRows ==
    ASSUME JobQueueAssumption, TypeOK, NEW w \in Workers, Claim(w)
    PROVE  /\ jobs' \in Seq(Row)
           /\ DOMAIN jobs' = DOMAIN jobs
           /\ \A j \in DOMAIN jobs :
                 jobs'[j] = IF j = cur[w] THEN [jobs[j] EXCEPT !.status = "running"]
                                          ELSE jobs[j]
<1>1. cur[w] \in DOMAIN jobs /\ jobs[cur[w]] \in Row /\ jobs \in Seq(Row)
  BY HeldRow DEF Claim, TypeOK
<1>2. [jobs[cur[w]] EXCEPT !.status = "running"] \in Row
  BY <1>1, RowWrites DEF Statuses
<1>3. QED
  BY <1>1, <1>2, WriteRow DEF Claim

(* Without a handler that row takes a failed attempt instead.              *)
LEMMA ClaimUnhandledRows ==
    ASSUME JobQueueAssumption, TypeOK, NEW w \in Workers, ClaimUnhandled(w)
    PROVE  /\ jobs' \in Seq(Row)
           /\ DOMAIN jobs' = DOMAIN jobs
           /\ \A j \in DOMAIN jobs :
                 jobs'[j] = IF j = cur[w] THEN Failed(jobs[j]) ELSE jobs[j]
<1>1. cur[w] \in DOMAIN jobs /\ jobs[cur[w]] \in Row /\ jobs \in Seq(Row)
  BY HeldRow DEF ClaimUnhandled, TypeOK
<1>2. Failed(jobs[cur[w]]) \in Row
  BY <1>1, RowWrites
<1>3. jobs' = [jobs EXCEPT ![cur[w]] = Failed(jobs[cur[w]])]
  BY DEF ClaimUnhandled
<1>4. QED
  BY <1>1, <1>2, <1>3, WriteRow

(* A success report writes the held row, unless it is gone.                *)
LEMMA SucceedRows ==
    ASSUME JobQueueAssumption, TypeOK, NEW w \in Workers, Succeed(w)
    PROVE  /\ jobs' \in Seq(Row)
           /\ DOMAIN jobs' = DOMAIN jobs
           /\ \A j \in DOMAIN jobs :
                 jobs'[j] = IF j = cur[w] /\ jobs[j].status # "deleted"
                            THEN [jobs[j] EXCEPT !.status = "succeeded"]
                            ELSE jobs[j]
<1>1. cur[w] \in DOMAIN jobs /\ jobs[cur[w]] \in Row /\ jobs \in Seq(Row)
  BY HeldRow DEF Succeed, TypeOK
<1>2. [jobs[cur[w]] EXCEPT !.status = "succeeded"] \in Row
  BY <1>1, RowWrites DEF Statuses
<1>3. CASE Has(cur[w], "deleted")
  BY <1>1, <1>3 DEF Succeed, Has
<1>4. CASE ~Has(cur[w], "deleted")
  <2>1. jobs' = [jobs EXCEPT ![cur[w]].status = "succeeded"]
    BY <1>4 DEF Succeed
  <2>2. QED
    BY <1>1, <1>2, <1>4, <2>1, WriteRow DEF Has
<1>5. QED
  BY <1>3, <1>4

(* So does a failure report.                                               *)
LEMMA FailRows ==
    ASSUME JobQueueAssumption, TypeOK, NEW w \in Workers, Fail(w)
    PROVE  /\ jobs' \in Seq(Row)
           /\ DOMAIN jobs' = DOMAIN jobs
           /\ \A j \in DOMAIN jobs :
                 jobs'[j] = IF j = cur[w] /\ jobs[j].status # "deleted"
                            THEN Failed(jobs[j]) ELSE jobs[j]
<1>1. cur[w] \in DOMAIN jobs /\ jobs[cur[w]] \in Row /\ jobs \in Seq(Row)
  BY HeldRow DEF Fail, TypeOK
<1>2. Failed(jobs[cur[w]]) \in Row
  BY <1>1, RowWrites
<1>3. CASE Has(cur[w], "deleted")
  BY <1>1, <1>3 DEF Fail, Has
<1>4. CASE ~Has(cur[w], "deleted")
  <2>1. jobs' = [jobs EXCEPT ![cur[w]] = Failed(jobs[cur[w]])]
    BY <1>4 DEF Fail
  <2>2. QED
    BY <1>1, <1>2, <1>4, <2>1, WriteRow DEF Has
<1>5. QED
  BY <1>3, <1>4

(* The stale-job recovery writes exactly the rows it has read as stale.    *)
LEMMA RequeueRows ==
    ASSUME JobQueueAssumption, TypeOK, NEW w \in Workers, RequeueStale(w)
    PROVE  /\ jobs' \in Seq(Row)
           /\ DOMAIN jobs' = DOMAIN jobs
           /\ \A j \in DOMAIN jobs :
                 jobs'[j] = IF j \in stale[w]
                            THEN [jobs[j] EXCEPT !.status = "pending"] ELSE jobs[j]
<1>1. jobs \in Seq(Row) /\ \A j \in DOMAIN jobs : jobs[j] \in Row
  BY LenProperties, ElementOfSeq DEF TypeOK
<1>2. \A j \in DOMAIN jobs :
         jobs'[j] = IF j \in stale[w]
                    THEN [jobs[j] EXCEPT !.status = "pending"] ELSE jobs[j]
  BY DEF RequeueStale, Ids
<1>3. ASSUME NEW j \in DOMAIN jobs PROVE jobs'[j] \in Row
  <2>1. jobs[j] \in Row
    BY <1>1
  <2>2. \A st \in Statuses : [jobs[j] EXCEPT !.status = st] \in Row
    BY <2>1, RowWrites
  <2>3. QED
    BY <1>2, <2>1, <2>2 DEF Statuses
<1>4. DOMAIN jobs' = DOMAIN jobs /\ jobs' = [j \in DOMAIN jobs' |-> jobs'[j]]
  BY DEF RequeueStale, Ids
<1>5. QED
  BY <1>1, <1>2, <1>3, <1>4, RewriteRows

(* Deleting a collection writes exactly the rows of its targets.           *)
LEMMA DeleteRows ==
    ASSUME JobQueueAssumption, TypeOK, NEW gone, DeleteTargets(gone)
    PROVE  /\ jobs' \in Seq(Row)
           /\ DOMAIN jobs' = DOMAIN jobs
           /\ \A j \in DOMAIN jobs :
                 jobs'[j] = IF jobs[j].kind.target \in gone
                            THEN [jobs[j] EXCEPT !.status = "deleted"] ELSE jobs[j]
<1>1. jobs \in Seq(Row) /\ \A j \in DOMAIN jobs : jobs[j] \in Row
  BY LenProperties, ElementOfSeq DEF TypeOK
<1>2. \A j \in DOMAIN jobs :
         jobs'[j] = IF jobs[j].kind.target \in gone
                    THEN [jobs[j] EXCEPT !.status = "deleted"] ELSE jobs[j]
  BY DEF DeleteTargets, Ids
<1>3. ASSUME NEW j \in DOMAIN jobs PROVE jobs'[j] \in Row
  <2>1. jobs[j] \in Row
    BY <1>1
  <2>2. \A st \in Statuses : [jobs[j] EXCEPT !.status = st] \in Row
    BY <2>1, RowWrites
  <2>3. QED
    BY <1>2, <2>1, <2>2 DEF Statuses
<1>4. DOMAIN jobs' = DOMAIN jobs /\ jobs' = [j \in DOMAIN jobs' |-> jobs'[j]]
  BY DEF DeleteTargets, Ids
<1>5. QED
  BY <1>1, <1>2, <1>3, <1>4, RewriteRows
-----------------------------------------------------------------------------

(* A failed attempt is counted, and the last one is final.                 *)
LEMMA FailureCounts ==
    ASSUME JobQueueAssumption, NEW r \in Row
    PROVE  /\ Failed(r).retries = r.retries + 1
           /\ Failed(r).status = IF r.retries + 1 >= MaxRetries
                                 THEN "failed" ELSE "pending"
BY RowWrites

(* The types hold at the start,                                            *)
LEMMA TypeInit == JobQueueAssumption /\ Init => TypeOK
BY EmptySeq DEF Init, TypeOK, Ids, Steps

(* and every step keeps them.                                              *)
LEMMA TypeStep == JobQueueAssumption /\ TypeOK /\ [Next]_queueVars => TypeOK'
<1> SUFFICES ASSUME JobQueueAssumption, TypeOK, [Next]_queueVars PROVE TypeOK'
  OBVIOUS
<1> USE DEF Ids
<1>1. ASSUME NEW w \in Workers, Start(w) PROVE TypeOK'
  BY <1>1 DEF TypeOK, Start, Goto, Steps
<1>2. ASSUME NEW w \in Workers, ScanStale(w) PROVE TypeOK'
  BY <1>2 DEF TypeOK, ScanStale, Goto, Steps
<1>3. ASSUME NEW w \in Workers, RequeueStale(w) PROVE TypeOK'
  BY <1>3, RequeueRows DEF TypeOK, RequeueStale, Goto, Steps
<1>4. ASSUME NEW w \in Workers, RequeueRolledBack(w) PROVE TypeOK'
  BY <1>4 DEF TypeOK, RequeueRolledBack, Goto, Steps
<1>5. ASSUME NEW w \in Workers, Pick(w) PROVE TypeOK'
  <2>1. DOMAIN jobs \subseteq Nat
    BY LenProperties DEF TypeOK
  <2>2. QED
    <3>1. CASE \E j \in Ids : cur' = [cur EXCEPT ![w] = j] /\ Goto(w, "claim")
      BY <1>5, <2>1, <3>1 DEF TypeOK, Pick, Goto, Steps
    <3>2. CASE Release(w)
      BY <1>5, <3>2 DEF TypeOK, Pick, Goto, Release, Steps
    <3>3. QED
      BY <1>5, <3>1, <3>2 DEF Pick
<1>6. ASSUME NEW w \in Workers, ClaimLost(w) PROVE TypeOK'
  BY <1>6 DEF TypeOK, ClaimLost, Goto, Release, Steps
<1>7. ASSUME NEW w \in Workers, Claim(w) PROVE TypeOK'
  <2>1. /\ jobs' \in Seq(Row) /\ DOMAIN jobs' = DOMAIN jobs
    BY <1>7, ClaimRows
  <2>2. /\ pc' = [pc EXCEPT ![w] = "execute"] /\ pc[w] = "claim"
        /\ overdue' \subseteq overdue
        /\ UNCHANGED <<cur, stale, faults, committed, requeued>>
    BY <1>7 DEF Claim, Goto
  <2>3. QED
    BY <2>1, <2>2 DEF TypeOK, Steps
<1>8. ASSUME NEW w \in Workers, ClaimUnhandled(w) PROVE TypeOK'
  <2>1. /\ jobs' \in Seq(Row) /\ DOMAIN jobs' = DOMAIN jobs
    BY <1>8, ClaimUnhandledRows
  <2>2. /\ pc' = [pc EXCEPT ![w] = "scan"] /\ cur' = [cur EXCEPT ![w] = 0]
        /\ overdue' \subseteq overdue
        /\ UNCHANGED <<stale, faults, committed, requeued>>
    BY <1>8 DEF ClaimUnhandled, Goto, Release
  <2>3. QED
    BY <2>1, <2>2 DEF TypeOK, Steps
<1>9. ASSUME NEW w \in Workers, Succeed(w) PROVE TypeOK'
  <2>1. /\ jobs' \in Seq(Row) /\ DOMAIN jobs' = DOMAIN jobs
    BY <1>9, SucceedRows
  <2>2. /\ pc' = [pc EXCEPT ![w] = "scan"] /\ cur' = [cur EXCEPT ![w] = 0]
        /\ overdue' \subseteq overdue
        /\ UNCHANGED <<stale, faults, committed, requeued>>
    BY <1>9 DEF Succeed, Goto, Release
  <2>3. QED
    BY <2>1, <2>2 DEF TypeOK, Steps
<1>10. ASSUME NEW w \in Workers, Fail(w) PROVE TypeOK'
  <2>1. /\ jobs' \in Seq(Row) /\ DOMAIN jobs' = DOMAIN jobs
    BY <1>10, FailRows
  <2>2. /\ pc' = [pc EXCEPT ![w] = "scan"] /\ cur' = [cur EXCEPT ![w] = 0]
        /\ overdue' \subseteq overdue
        /\ UNCHANGED <<stale, faults, committed, requeued>>
    BY <1>10 DEF Fail, Goto, Release
  <2>3. QED
    BY <2>1, <2>2 DEF TypeOK, Steps
<1>11. ASSUME NEW w \in Workers, NEW dropped, NEW batch \in Batches,
              CommitWork(w, dropped, batch)
       PROVE  TypeOK'
  BY <1>11, TransactRows DEF TypeOK, CommitWork, Goto, Steps
<1>12. ASSUME NEW w \in Workers, RaiseError(w) PROVE TypeOK'
  BY <1>12 DEF TypeOK, RaiseError, Goto, Steps
<1>13. ASSUME NEW w \in Workers, Crash(w) PROVE TypeOK'
  BY <1>13 DEF TypeOK, Crash, Goto, Steps
<1>14. ASSUME NEW w \in Workers, SucceedNotCommitted(w) PROVE TypeOK'
  BY <1>14 DEF TypeOK, SucceedNotCommitted, Goto, Steps
<1>15. ASSUME NEW w \in Workers, FailNotCommitted(w) PROVE TypeOK'
  BY <1>15 DEF TypeOK, FailNotCommitted, Goto, Release, Steps
<1>16. ASSUME NEW j \in Ids, Expire(j) PROVE TypeOK'
  BY <1>16 DEF TypeOK, Expire
<1>17. ASSUME NEW j \in Ids, Outlive(j) PROVE TypeOK'
  BY <1>17 DEF TypeOK, Outlive
<1>18. ASSUME NEW dropped, NEW batch \in Batches, Request(dropped, batch)
       PROVE  TypeOK'
  BY <1>18, TransactRows DEF TypeOK, Request
<1>19. ASSUME NEW gone, DeleteTargets(gone) PROVE TypeOK'
  BY <1>19, DeleteRows DEF TypeOK, DeleteTargets
<1>20. CASE UNCHANGED queueVars
  BY <1>20 DEF TypeOK, queueVars
<1>21. QED
  BY <1>1, <1>2, <1>3, <1>4, <1>5, <1>6, <1>7, <1>8, <1>9, <1>10, <1>11,
     <1>12, <1>13, <1>14, <1>15, <1>16, <1>17, <1>18, <1>19, <1>20
     DEF Next, Loop, Handler, Fault, Api

(* Every variable keeps its type in every reachable state.                 *)
THEOREM TypeCorrect == Spec => []TypeOK
<1>1. Init => TypeOK
  BY TypeInit, JobQueueAssumption
<1>2. TypeOK /\ [Next]_queueVars => TypeOK'
  BY TypeStep, JobQueueAssumption
<1>3. QED
  BY <1>1, <1>2, PTL DEF Spec
-----------------------------------------------------------------------------

(* The inductive invariant holds at the start (there are no rows).         *)
LEMMA InvInit == JobQueueAssumption /\ Init => IInv
<1> SUFFICES ASSUME JobQueueAssumption, Init PROVE IInv
  OBVIOUS
<1>1. TypeOK
  BY TypeInit
<1>2. DOMAIN jobs = {}
  BY DEF Init
<1>3. \A w \in Workers : pc[w] = "down"
  BY DEF Init
<1>4. QED
  BY <1>1, <1>2, <1>3
     DEF IInv, SuccessNeedsWork, RetryBudget, ReportsWork, OwnedRowRuns,
         SoleOwner, LockHeld, StaleRowsRun, Ids

(* The parts of the invariant other than the types.                        *)
Parts ==
    /\ SuccessNeedsWork /\ RetryBudget /\ ReportsWork
    /\ OwnedRowRuns /\ SoleOwner /\ LockHeld /\ StaleRowsRun

(* Steps of a worker that leave the table alone.                           *)
LEMMA QuietStep ==
    ASSUME IInv, TypeOK', UNCHANGED <<jobs, requeued, committed>>, NEW w \in Workers,
           \A v \in Workers \ {w} : pc'[v] = pc[v] /\ cur'[v] = cur[v] /\ stale'[v] = stale[v],
           pc[w] # "down" \/ (Exclusive => \A v \in Workers : pc[v] = "down"),
           \/ pc'[w] \in {"down", "scan", "pick", "claim"}
           \/ pc'[w] = "requeue" /\ \A j \in stale'[w] : jobs[j].status = "running"
           \/ pc'[w] = "fail" /\ pc[w] \in {"execute", "succeed"} /\ cur'[w] = cur[w]
    PROVE  Parts'
<1> USE DEF Ids
<1>1. SuccessNeedsWork' /\ RetryBudget'
  BY DEF IInv, SuccessNeedsWork, RetryBudget, Fenced, Has
<1>2. ReportsWork'
  BY DEF IInv, ReportsWork
<1>3. \A j \in DOMAIN jobs : \A v \in Workers : Executing(v, j)' => Executing(v, j)
  BY DEF Executing
<1>4. OwnedRowRuns' /\ SoleOwner'
  BY <1>3 DEF IInv, OwnedRowRuns, SoleOwner, Fenced
<1>5. LockHeld'
  BY DEF IInv, LockHeld
<1>6. StaleRowsRun'
  BY DEF IInv, StaleRowsRun
<1>7. QED
  BY <1>1, <1>2, <1>4, <1>5, <1>6 DEF Parts

(* A claim makes a PENDING row the worker's own: nobody else executes it.  *)
LEMMA ClaimKeeps ==
    ASSUME JobQueueAssumption, IInv, TypeOK', NEW w \in Workers, Claim(w)
    PROVE  Parts'
<1> USE DEF Ids
<1>1. /\ pc[w] = "claim" /\ jobs[cur[w]].status = "pending" /\ cur[w] \in DOMAIN jobs
      /\ pc' = [pc EXCEPT ![w] = "execute"]
      /\ UNCHANGED <<cur, stale, committed, requeued>>
      /\ pc \in [Workers -> Steps]
  BY DEF Claim, Goto, Has, IInv, TypeOK
<1>2. /\ DOMAIN jobs' = DOMAIN jobs
      /\ \A j \in DOMAIN jobs : jobs[j] \in Row
      /\ \A j \in DOMAIN jobs : j # cur[w] => jobs'[j] = jobs[j]
      /\ jobs'[cur[w]].status = "running"
      /\ jobs'[cur[w]].retries = jobs[cur[w]].retries
  <2>1. \A j \in DOMAIN jobs : jobs[j] \in Row
    BY LenProperties, ElementOfSeq DEF IInv, TypeOK
  <2>2. jobs'[cur[w]] = [jobs[cur[w]] EXCEPT !.status = "running"]
    BY <1>1, ClaimRows DEF IInv
  <2>3. QED
    <3>1. jobs[cur[w]] \in Row
      BY <1>1, <2>1
    <3>2. jobs'[cur[w]].status = "running" /\ jobs'[cur[w]].retries = jobs[cur[w]].retries
      BY <2>2, <3>1 DEF Row
    <3>3. QED
      BY <1>1, <2>1, <3>2, ClaimRows DEF IInv
<1>3. SuccessNeedsWork'
  BY <1>1, <1>2 DEF IInv, SuccessNeedsWork, Has
<1>4. RetryBudget'
  BY <1>1, <1>2 DEF IInv, RetryBudget, Fenced, Has
<1>5. ReportsWork'
  BY <1>1 DEF IInv, ReportsWork, Steps
<1>6. \A v \in Workers : Fenced(cur[w]) => ~Executing(v, cur[w])
  BY <1>1 DEF IInv, OwnedRowRuns
<1>7. \A j \in DOMAIN jobs : \A v \in Workers :
         Executing(v, j)' => Executing(v, j) \/ (v = w /\ j = cur[w])
  BY <1>1 DEF Executing
<1>8. OwnedRowRuns'
  BY <1>1, <1>2, <1>7 DEF IInv, OwnedRowRuns, Fenced
<1>9. SoleOwner'
  BY <1>1, <1>2, <1>6, <1>7 DEF IInv, SoleOwner, Fenced
<1>10. LockHeld'
  BY <1>1 DEF IInv, LockHeld, Steps
<1>11. StaleRowsRun'
  BY <1>1, <1>2 DEF IInv, StaleRowsRun, TypeOK, LockHeld, Steps
<1>12. QED
  BY <1>3, <1>4, <1>5, <1>8, <1>9, <1>10, <1>11 DEF Parts

(* A step in which the held row is settled and the worker lets go of it.   *)
LEMMA SettleKeeps ==
    ASSUME JobQueueAssumption, IInv, TypeOK', NEW w \in Workers,
           Succeed(w) \/ Fail(w) \/ ClaimUnhandled(w)
    PROVE  Parts'
<1> USE DEF Ids
<1>1. /\ cur[w] \in DOMAIN jobs
      /\ pc[w] \in {"succeed", "fail", "claim"}
      /\ pc' = [pc EXCEPT ![w] = "scan"]
      /\ cur' = [cur EXCEPT ![w] = 0]
      /\ UNCHANGED <<stale, committed, requeued>>
      /\ pc \in [Workers -> Steps]
      /\ cur \in [Workers -> Nat]
  BY DEF Succeed, Fail, ClaimUnhandled, Goto, Release, IInv, TypeOK
<1>2. MaxRetries \in Nat \ {0} /\ \A j \in DOMAIN jobs : jobs[j] \in Row /\ jobs[j].retries \in Nat
  <2>1. \A j \in DOMAIN jobs : jobs[j] \in Row
    BY LenProperties, ElementOfSeq DEF IInv, TypeOK
  <2>2. QED
    BY <2>1 DEF JobQueueAssumption, Row
<1>3. /\ DOMAIN jobs' = DOMAIN jobs
      /\ \A j \in DOMAIN jobs : j # cur[w] => jobs'[j] = jobs[j]
  BY <1>1, SucceedRows, FailRows, ClaimUnhandledRows DEF IInv
<1>4. \/ jobs'[cur[w]] = jobs[cur[w]] /\ jobs[cur[w]].status = "deleted"
      \/ /\ Succeed(w)
         /\ jobs[cur[w]].status # "deleted"
         /\ jobs'[cur[w]].status = "succeeded"
         /\ jobs'[cur[w]].retries = jobs[cur[w]].retries
      \/ /\ Fail(w) \/ jobs[cur[w]].status = "pending"
         /\ jobs[cur[w]].status # "deleted"
         /\ jobs'[cur[w]].retries = jobs[cur[w]].retries + 1
         /\ jobs'[cur[w]].status = IF jobs[cur[w]].retries + 1 >= MaxRetries
                                   THEN "failed" ELSE "pending"
  <2>1. CASE Succeed(w)
    <3>1. jobs[cur[w]].status # "deleted" =>
             jobs'[cur[w]] = [jobs[cur[w]] EXCEPT !.status = "succeeded"]
      BY <1>1, <2>1, SucceedRows DEF IInv
    <3>2. jobs[cur[w]].status = "deleted" => jobs'[cur[w]] = jobs[cur[w]]
      BY <1>1, <2>1, SucceedRows DEF IInv
    <3>3. jobs[cur[w]] \in Row
      BY <1>1, <1>2
    <3>4. QED
      BY <2>1, <3>1, <3>2, <3>3 DEF Row
  <2>2. CASE Fail(w)
    <3>1. jobs[cur[w]].status # "deleted" => jobs'[cur[w]] = Failed(jobs[cur[w]])
      BY <1>1, <2>2, FailRows DEF IInv
    <3>2. jobs[cur[w]].status = "deleted" => jobs'[cur[w]] = jobs[cur[w]]
      BY <1>1, <2>2, FailRows DEF IInv
    <3>3. jobs[cur[w]] \in Row
      BY <1>1, <1>2
    <3>4. QED
      BY <2>2, <3>1, <3>2, <3>3, FailureCounts
  <2>3. CASE ClaimUnhandled(w)
    <3>1. jobs[cur[w]].status = "pending"
      BY <2>3 DEF ClaimUnhandled, Has
    <3>2. QED
      <4>1. jobs'[cur[w]] = Failed(jobs[cur[w]])
        BY <1>1, <2>3, ClaimUnhandledRows DEF IInv
      <4>2. jobs[cur[w]] \in Row
        BY <1>1, <1>2
      <4>3. QED
        BY <3>1, <4>1, <4>2, FailureCounts
  <2>4. QED
    BY <2>1, <2>2, <2>3
<1>5. Succeed(w) => cur[w] \in committed
  BY DEF Succeed, IInv, ReportsWork
<1>6. Fenced(cur[w]) => jobs[cur[w]].status \in {"running", "deleted", "pending"}
  <2>1. ASSUME Succeed(w) \/ Fail(w) PROVE Executing(w, cur[w])
    BY <2>1 DEF Succeed, Fail, Executing
  <2>2. ClaimUnhandled(w) => jobs[cur[w]].status = "pending"
    BY DEF ClaimUnhandled, Has
  <2>3. ASSUME Fenced(cur[w]), Executing(w, cur[w])
        PROVE  jobs[cur[w]].status \in {"running", "deleted"}
    BY <1>1, <2>3 DEF IInv, OwnedRowRuns
  <2>4. QED
    BY <2>1, <2>2, <2>3
<1>7. \A j \in DOMAIN jobs : \A v \in Workers : Executing(v, j)' => Executing(v, j) /\ v # w
  <2>1. \A j \in DOMAIN jobs : j # 0
    BY LenProperties DEF IInv, TypeOK
  <2>2. cur'[w] = 0 /\ \A v \in Workers \ {w} : pc'[v] = pc[v] /\ cur'[v] = cur[v]
    BY <1>1
  <2>3. QED
    BY <2>1, <2>2 DEF Executing
<1>8. Fenced(cur[w]) => \A v \in Workers : v # w => ~Executing(v, cur[w])
  <2>1. CASE ClaimUnhandled(w)
    BY <1>1, <2>1 DEF ClaimUnhandled, Has, IInv, OwnedRowRuns
  <2>2. CASE Succeed(w) \/ Fail(w)
    <3>1. Executing(w, cur[w])
      BY <2>2 DEF Succeed, Fail, Executing
    <3>2. QED
      BY <1>1, <3>1 DEF IInv, SoleOwner
  <2>3. QED
    BY <2>1, <2>2
<1>9. SuccessNeedsWork'
  BY <1>1, <1>3, <1>4, <1>5 DEF IInv, SuccessNeedsWork, Has
<1>10. RetryBudget'
  <2>1. \A j \in DOMAIN jobs : j # cur[w] /\ Fenced(j)' =>
          /\ Has(j, "failed")' => (jobs[j].retries)' = MaxRetries
          /\ (jobs[j].status \in {"pending", "running", "succeeded"})'
                 => (jobs[j].retries)' < MaxRetries
    BY <1>1, <1>3 DEF IInv, RetryBudget, Fenced, Has
  <2>2. Fenced(cur[w]) =>
          /\ jobs'[cur[w]].status = "failed" => jobs'[cur[w]].retries = MaxRetries
          /\ jobs'[cur[w]].status \in {"pending", "running", "succeeded"}
                 => jobs'[cur[w]].retries < MaxRetries
    <3> SUFFICES ASSUME Fenced(cur[w])
                 PROVE  /\ jobs'[cur[w]].status = "failed" => jobs'[cur[w]].retries = MaxRetries
                        /\ jobs'[cur[w]].status \in {"pending", "running", "succeeded"}
                               => jobs'[cur[w]].retries < MaxRetries
      OBVIOUS
    <3>1. CASE jobs[cur[w]].status = "deleted"
      BY <1>4, <3>1
    <3>2. CASE jobs[cur[w]].status # "deleted"
      <4>1. jobs[cur[w]].retries < MaxRetries /\ jobs[cur[w]].retries \in Nat
        BY <1>1, <1>2, <1>6, <3>2 DEF IInv, RetryBudget
      <4>2. QED
        BY <1>2, <1>4, <3>2, <4>1
    <3>3. QED
      BY <3>1, <3>2
  <2>3. QED
    BY <1>1, <1>3, <2>1, <2>2 DEF RetryBudget, Fenced, Has
<1>11. ReportsWork'
  BY <1>1 DEF IInv, ReportsWork, Steps
<1>12. OwnedRowRuns'
  BY <1>1, <1>3, <1>7, <1>8 DEF IInv, OwnedRowRuns, Fenced
<1>13. SoleOwner'
  BY <1>1, <1>3, <1>7 DEF IInv, SoleOwner, Fenced
<1>14. LockHeld'
  BY <1>1 DEF IInv, LockHeld, Steps
<1>15. StaleRowsRun'
  <2>1. Exclusive => \A v \in Workers : v # w => pc[v] = "down"
    BY <1>1 DEF IInv, LockHeld, Steps
  <2>2. QED
    BY <1>1, <2>1 DEF StaleRowsRun, Steps
<1>16. QED
  BY <1>9, <1>10, <1>11, <1>12, <1>13, <1>14, <1>15 DEF Parts

(* The recovery makes PENDING again only rows it may: on SQLite they have no *)
(* executor, elsewhere they count as requeued from then on.                *)
LEMMA RequeueKeeps ==
    ASSUME JobQueueAssumption, IInv, TypeOK', NEW w \in Workers, RequeueStale(w)
    PROVE  Parts'
<1> USE DEF Ids
<1>1. /\ pc[w] = "requeue"
      /\ pc' = [pc EXCEPT ![w] = "pick"]
      /\ requeued' = requeued \cup stale[w]
      /\ stale' = [stale EXCEPT ![w] = {}]
      /\ \A j \in stale[w] : j \in DOMAIN jobs /\ jobs[j].status # "deleted"
      /\ UNCHANGED <<cur, committed>>
      /\ pc \in [Workers -> Steps]
  BY DEF RequeueStale, Goto, Has, IInv, TypeOK
<1>2. \A j \in DOMAIN jobs : jobs[j] \in Row
  BY LenProperties, ElementOfSeq DEF IInv, TypeOK
<1>3. /\ DOMAIN jobs' = DOMAIN jobs
      /\ \A j \in DOMAIN jobs : j \notin stale[w] => jobs'[j] = jobs[j]
  BY RequeueRows DEF IInv
<1>4. ASSUME NEW j \in DOMAIN jobs, j \in stale[w]
      PROVE  jobs'[j].status = "pending" /\ jobs'[j].retries = jobs[j].retries
  <2>1. jobs'[j] = [jobs[j] EXCEPT !.status = "pending"]
    BY <1>4, RequeueRows DEF IInv
  <2>2. jobs[j] \in Row
    BY <1>2
  <2>3. QED
    BY <2>1, <2>2 DEF Row
<1>5. Exclusive => /\ \A v \in Workers : v # w => pc[v] = "down"
                   /\ \A j \in stale[w] : jobs[j].status = "running"
  BY <1>1 DEF IInv, LockHeld, StaleRowsRun
<1>6. \A j \in DOMAIN jobs : \A v \in Workers :
         Executing(v, j)' => Executing(v, j) /\ v # w
  BY <1>1 DEF Executing
<1>7. \A j \in stale[w] : Fenced(j)' => Exclusive
  BY <1>1 DEF Fenced
<1>8. \A j \in DOMAIN jobs : Fenced(j)' => Fenced(j)
  BY <1>1 DEF Fenced
<1>9. SuccessNeedsWork'
  BY <1>1, <1>3, <1>4 DEF IInv, SuccessNeedsWork, Has
<1>10. RetryBudget'
  BY <1>1, <1>3, <1>4, <1>5, <1>7, <1>8 DEF IInv, RetryBudget, Has
<1>11. ReportsWork'
  BY <1>1 DEF IInv, ReportsWork, Steps
<1>12. OwnedRowRuns'
  <2>1. Exclusive => \A v \in Workers, j \in DOMAIN jobs : ~Executing(v, j)'
    BY <1>5, <1>6 DEF Executing
  <2>2. QED
    BY <1>3, <1>6, <1>7, <1>8, <2>1 DEF IInv, OwnedRowRuns
<1>13. SoleOwner'
  BY <1>3, <1>6, <1>8 DEF IInv, SoleOwner
<1>14. LockHeld'
  BY <1>1 DEF IInv, LockHeld, Steps
<1>15. StaleRowsRun'
  BY <1>1, <1>5 DEF StaleRowsRun, Steps
<1>16. QED
  BY <1>9, <1>10, <1>11, <1>12, <1>13, <1>14, <1>15 DEF Parts

(* Steps that only delete rows or append new ones, whatever else a worker  *)
(* that commits its work does.                                             *)
LEMMA TableStepKeeps ==
    ASSUME JobQueueAssumption, IInv, TypeOK',
           DOMAIN jobs \subseteq DOMAIN jobs',
           \A j \in DOMAIN jobs :
              \/ jobs'[j] = jobs[j]
              \/ jobs'[j].status = "deleted",
           \A j \in DOMAIN jobs' \ DOMAIN jobs :
              jobs'[j].status = "pending" /\ jobs'[j].retries = 0,
           UNCHANGED <<cur, stale, requeued>>,
           committed \subseteq committed',
           \A w \in Workers :
              \/ pc'[w] = pc[w]
              \/ pc[w] = "execute" /\ pc'[w] = "succeed" /\ cur[w] \in committed'
    PROVE  Parts'
<1> USE DEF Ids
<1>1. \A w \in Workers : \A j \in DOMAIN jobs' : Executing(w, j)' <=> Executing(w, j)
  BY DEF Executing
<1>2. \A w \in Workers : \A j \in DOMAIN jobs' : Executing(w, j) => j \in DOMAIN jobs
  BY DEF IInv, TypeOK, Executing
<1>3. \A j \in DOMAIN jobs' : Fenced(j)' <=> Fenced(j)
  BY DEF Fenced
<1>4. SuccessNeedsWork'
  BY DEF IInv, SuccessNeedsWork, Has
<1>5. RetryBudget'
  <2>1. 0 < MaxRetries
    BY DEF JobQueueAssumption
  <2>2. QED
    BY <1>3, <2>1 DEF IInv, RetryBudget, Has
<1>6. ReportsWork'
  BY DEF IInv, ReportsWork
<1>7. OwnedRowRuns'
  BY <1>1, <1>2, <1>3 DEF IInv, OwnedRowRuns
<1>8. SoleOwner'
  BY <1>1, <1>2, <1>3 DEF IInv, SoleOwner
<1>9. LockHeld'
  BY DEF IInv, LockHeld
<1>10. StaleRowsRun'
  BY DEF IInv, StaleRowsRun, TypeOK
<1>11. QED
  BY <1>4, <1>5, <1>6, <1>7, <1>8, <1>9, <1>10 DEF Parts

(* Every step keeps the inductive invariant: one case per action.          *)
LEMMA InvStep == JobQueueAssumption /\ IInv /\ [Next]_queueVars => IInv'
<1> SUFFICES ASSUME JobQueueAssumption, IInv, [Next]_queueVars PROVE IInv'
  OBVIOUS
<1> SUFFICES Parts'
  BY TypeStep DEF IInv, Parts
<1>0. TypeOK /\ TypeOK'
  BY TypeStep DEF IInv
<1>1. ASSUME NEW w \in Workers,
             \/ Start(w) \/ ScanStale(w) \/ RequeueRolledBack(w) \/ Pick(w)
             \/ ClaimLost(w) \/ RaiseError(w) \/ Fault(w)
      PROVE  Parts'
  <2>1. /\ UNCHANGED <<jobs, requeued, committed>>
        /\ \A v \in Workers \ {w} : pc'[v] = pc[v] /\ cur'[v] = cur[v] /\ stale'[v] = stale[v]
        /\ pc[w] # "down" \/ (Exclusive => \A v \in Workers : pc[v] = "down")
    BY <1>0, <1>1 DEF TypeOK, Start, ScanStale, RequeueRolledBack, Pick, ClaimLost, RaiseError,
       Fault, Crash, SucceedNotCommitted, FailNotCommitted, Goto, Release
  <2>2. \/ pc'[w] \in {"down", "scan", "pick", "claim"}
        \/ pc'[w] = "requeue" /\ \A j \in stale'[w] : jobs[j].status = "running"
        \/ pc'[w] = "fail" /\ pc[w] \in {"execute", "succeed"} /\ cur'[w] = cur[w]
    BY <1>0, <1>1 DEF TypeOK, Start, ScanStale, RequeueRolledBack, Pick, ClaimLost, RaiseError,
       Fault, Crash, SucceedNotCommitted, FailNotCommitted, Goto, Release, Has
  <2>3. QED
    BY <1>0, <2>1, <2>2, QuietStep
<1>2. ASSUME NEW w \in Workers, RequeueStale(w) PROVE Parts'
  BY <1>0, <1>2, RequeueKeeps
<1>3. ASSUME NEW w \in Workers, Claim(w) PROVE Parts'
  BY <1>0, <1>3, ClaimKeeps
<1>4. ASSUME NEW w \in Workers, Succeed(w) \/ Fail(w) \/ ClaimUnhandled(w) PROVE Parts'
  BY <1>0, <1>4, SettleKeeps
<1>5. ASSUME NEW w \in Workers, NEW dropped, NEW batch \in Batches,
             CommitWork(w, dropped, batch)
      PROVE  Parts'
  <2>1. /\ jobs' = Transact(dropped, {cur[w]}, batch)
        /\ UNCHANGED <<cur, stale, requeued>>
        /\ committed' = committed \cup {cur[w]}
        /\ \A v \in Workers :
              \/ pc'[v] = pc[v]
              \/ pc[v] = "execute" /\ pc'[v] = "succeed" /\ cur[v] \in committed'
    BY <1>0, <1>5 DEF CommitWork, Goto, TypeOK
  <2>2. jobs \in Seq(Row) /\ \A j \in DOMAIN jobs : jobs[j] \in Row
    BY <1>0, LenProperties, ElementOfSeq DEF TypeOK
  <2>3. /\ DOMAIN jobs \subseteq DOMAIN jobs'
        /\ \A j \in DOMAIN jobs : jobs'[j] = jobs[j] \/ jobs'[j].status = "deleted"
        /\ \A j \in DOMAIN jobs' \ DOMAIN jobs :
              jobs'[j].status = "pending" /\ jobs'[j].retries = 0
    BY <2>1, <2>2, TransactRows DEF Row
  <2>4. QED
    BY <1>0, <2>1, <2>3, TableStepKeeps
<1>6. ASSUME NEW dropped, NEW batch \in Batches, Request(dropped, batch)
      PROVE  Parts'
  <2>1. /\ jobs' = Transact(dropped, {}, batch)
        /\ UNCHANGED <<cur, stale, requeued, committed, pc>>
    BY <1>6 DEF Request
  <2>2. jobs \in Seq(Row) /\ \A j \in DOMAIN jobs : jobs[j] \in Row
    BY <1>0, LenProperties, ElementOfSeq DEF TypeOK
  <2>3. /\ DOMAIN jobs \subseteq DOMAIN jobs'
        /\ \A j \in DOMAIN jobs : jobs'[j] = jobs[j] \/ jobs'[j].status = "deleted"
        /\ \A j \in DOMAIN jobs' \ DOMAIN jobs :
              jobs'[j].status = "pending" /\ jobs'[j].retries = 0
    BY <2>1, <2>2, TransactRows DEF Row
  <2>4. QED
    BY <1>0, <2>1, <2>3, TableStepKeeps
<1>7. ASSUME NEW gone, DeleteTargets(gone) PROVE Parts'
  <2>1. UNCHANGED <<cur, stale, requeued, committed, pc>>
    BY <1>7 DEF DeleteTargets
  <2>2. \A j \in DOMAIN jobs : jobs[j] \in Row
    BY <1>0, LenProperties, ElementOfSeq DEF TypeOK
  <2>3. /\ DOMAIN jobs' = DOMAIN jobs
        /\ \A j \in DOMAIN jobs : jobs'[j] = jobs[j] \/ jobs'[j].status = "deleted"
    BY <1>0, <1>7, <2>2, DeleteRows DEF Row
  <2>4. QED
    BY <1>0, <2>1, <2>3, TableStepKeeps
<1>8. ASSUME UNCHANGED <<jobs, pc, cur, stale, committed, requeued>> PROVE Parts'
  BY <1>0, <1>8, TableStepKeeps DEF Ids
<1>9. QED
  BY <1>1, <1>2, <1>3, <1>4, <1>5, <1>6, <1>7, <1>8
     DEF Next, Loop, Handler, Fault, Api, Expire, Outlive, queueVars

(* So the inductive invariant holds in every reachable state.              *)
LEMMA Invariance == Spec => []IInv
<1>1. Init => IInv
  BY InvInit, JobQueueAssumption
<1>2. IInv /\ [Next]_queueVars => IInv'
  BY InvStep, JobQueueAssumption
<1>3. QED
  BY <1>1, <1>2, PTL DEF Spec

-----------------------------------------------------------------------------
(* No success without the work: whatever crashes, requeues or failed       *)
(* commits happen, a SUCCEEDED row has had an execution that committed.    *)
THEOREM SuccessIsEarned == Spec => []SuccessNeedsWork
<1>1. IInv => SuccessNeedsWork
  BY DEF IInv
<1>2. QED
  BY <1>1, Invariance, PTL

(* The conditional claim excludes: only a job put back by the stale-job    *)
(* recovery can be in the hands of two workers.                            *)
THEOREM ClaimExcludes == Spec => []SharedOnlyIfRequeued
<1>1. IInv => SharedOnlyIfRequeued
  BY DEF IInv, SoleOwner, SharedOnlyIfRequeued, Fenced
<1>2. QED
  BY <1>1, Invariance, PTL

(* With the worker lock a job has at most one executor, always.            *)
THEOREM LockExcludes == Spec => []OneExecutor
<1>1. IInv => OneExecutor
  BY DEF IInv, SoleOwner, OneExecutor, Fenced
<1>2. QED
  BY <1>1, Invariance, PTL

(* Attempts stay within max_retries, and FAILED means they are used up.    *)
THEOREM BudgetIsKept == Spec => []RetryBudget
<1>1. IInv => RetryBudget
  BY DEF IInv
<1>2. QED
  BY <1>1, Invariance, PTL

(* What OutcomeIsFinal allows a step to do.                                *)
FinalStep ==
    \A j \in Ids :
        jobs[j].status \in {"succeeded", "failed"} /\ (Exclusive \/ j \notin requeued')
        => jobs'[j].status \in {jobs[j].status, "deleted"}

(* Every step does what OutcomeIsFinal allows.                             *)
LEMMA SettledStays ==
    JobQueueAssumption /\ IInv /\ [Next]_queueVars => [FinalStep]_queueVars
<1> SUFFICES ASSUME JobQueueAssumption, IInv, Next,
                    NEW j \in Ids, jobs[j].status \in {"succeeded", "failed"},
                    Exclusive \/ j \notin requeued'
             PROVE  jobs'[j].status \in {jobs[j].status, "deleted"}
  BY DEF FinalStep
<1> USE DEF Ids
<1>1. TypeOK /\ jobs[j] \in Row
  BY LenProperties, ElementOfSeq DEF IInv, TypeOK
<1>2. ASSUME NEW w \in Workers, Succeed(w) \/ Fail(w)
      PROVE  jobs'[j].status \in {jobs[j].status, "deleted"}
  <2>1. Executing(w, cur[w]) /\ UNCHANGED requeued
    BY <1>2 DEF Succeed, Fail, Executing
  <2>2. cur[w] # j
    BY <2>1 DEF IInv, OwnedRowRuns, Fenced
  <2>3. jobs'[j] = jobs[j]
    BY <1>1, <1>2, <2>2, SucceedRows, FailRows
  <2>4. QED
    BY <2>3
<1>3. ASSUME NEW w \in Workers, Claim(w) \/ ClaimUnhandled(w)
      PROVE  jobs'[j].status \in {jobs[j].status, "deleted"}
  <2>1. jobs[cur[w]].status = "pending"
    BY <1>3 DEF Claim, ClaimUnhandled, Has
  <2>2. cur[w] # j
    BY <2>1
  <2>3. CASE Claim(w)
    BY <1>1, <2>2, <2>3, ClaimRows
  <2>4. CASE ClaimUnhandled(w)
    BY <1>1, <2>2, <2>4, ClaimUnhandledRows
  <2>5. QED
    BY <1>3, <2>3, <2>4
<1>4. ASSUME NEW w \in Workers, RequeueStale(w)
      PROVE  jobs'[j].status \in {jobs[j].status, "deleted"}
  <2>1. j \notin stale[w]
    BY <1>4 DEF RequeueStale, IInv, StaleRowsRun, Has
  <2>2. jobs'[j] = jobs[j]
    BY <1>1, <1>4, <2>1, RequeueRows
  <2>3. QED
    BY <2>2
<1>5. ASSUME NEW dropped, NEW spared, NEW batch \in Batches,
             jobs' = Transact(dropped, spared, batch)
      PROVE  jobs'[j].status \in {jobs[j].status, "deleted"}
  <2>1. jobs \in Seq(Row)
    BY <1>1 DEF TypeOK
  <2>2. jobs'[j] = jobs[j] \/ jobs[j].status = "pending"
    BY <1>5, <2>1, TransactRows
  <2>3. QED
    BY <2>2
<1>6. ASSUME NEW gone, DeleteTargets(gone)
      PROVE  jobs'[j].status \in {jobs[j].status, "deleted"}
  <2>1. jobs'[j] = IF jobs[j].kind.target \in gone
                   THEN [jobs[j] EXCEPT !.status = "deleted"] ELSE jobs[j]
    BY <1>1, <1>6, DeleteRows
  <2>2. QED
    BY <1>1, <2>1 DEF Row
<1>7. CASE UNCHANGED jobs
  BY <1>7
<1>8. ASSUME NEW w \in Workers, Loop(w)
      PROVE  jobs'[j].status \in {jobs[j].status, "deleted"}
  BY <1>2, <1>3, <1>4, <1>7, <1>8
     DEF Loop, ScanStale, RequeueRolledBack, Pick, ClaimLost
<1>9. ASSUME NEW w \in Workers, Handler(w)
      PROVE  jobs'[j].status \in {jobs[j].status, "deleted"}
  BY <1>5, <1>7, <1>9 DEF Handler, CommitWork, RaiseError
<1>10. ASSUME NEW w \in Workers, Fault(w) \/ Start(w)
       PROVE  jobs'[j].status \in {jobs[j].status, "deleted"}
  BY <1>7, <1>10 DEF Fault, Crash, SucceedNotCommitted, FailNotCommitted, Start
<1>11. CASE Api
  BY <1>5, <1>6, <1>11 DEF Api, Request
<1>12. CASE \E i \in Ids : Expire(i) \/ Outlive(i)
  BY <1>7, <1>12 DEF Expire, Outlive
<1>13. QED
  BY <1>8, <1>9, <1>10, <1>11, <1>12 DEF Next

(* An outcome is final on a single-worker backend, and on any backend for  *)
(* a job that was never put back as stale: no late report of an execution, *)
(* no requeue and no claim ever takes SUCCEEDED or FAILED away.            *)
THEOREM OutcomesAreFinal == Spec => OutcomeIsFinal
<1>1. IInv /\ [Next]_queueVars => [FinalStep]_queueVars
  BY SettledStays, JobQueueAssumption
<1>2. OutcomeIsFinal <=> [][FinalStep]_queueVars
  BY PTL DEF OutcomeIsFinal, FinalStep
<1>3. QED
  BY <1>1, <1>2, Invariance, PTL DEF Spec

-----------------------------------------------------------------------------
(* What the refinement mapping makes of the table and of the workers.      *)
LeasedItems ==
    [j \in Ids |-> [state |-> LeaseState(j), attempts |-> jobs[j].retries]]

LeaseOf ==
    [w \in Workers |-> IF pc[w] \in {"execute", "succeed", "fail"}
                       THEN cur[w] ELSE 0]

(* The mapping, row by row: the state of an item is read off the status of *)
(* its row and off whether some worker executes it.                        *)
ItemState(j) ==
    /\ jobs[j].status = "pending" => LeaseState(j) = "waiting"
    /\ jobs[j].status = "running" =>
         /\ (\E w \in Workers : Executing(w, j)) => LeaseState(j) = "leased"
         /\ (\A w \in Workers : ~Executing(w, j)) => LeaseState(j) = "lost"
    /\ jobs[j].status = "succeeded" => LeaseState(j) = "done"
    /\ jobs[j].status = "failed" => LeaseState(j) = "buried"
    /\ jobs[j].status = "deleted" => LeaseState(j) = "gone"

(* The mapping is defined by these cases, in a state and in the next.      *)
LEMMA LeaseStates == \A j : ItemState(j)
<1> TAKE j
<1>1. (\E w \in Workers : Executing(w, j)) => Executors(j) # {}
  BY DEF Executors
<1>2. (\A w \in Workers : ~Executing(w, j)) => Executors(j) = {}
  BY DEF Executors
<1>3. jobs[j].status = "pending" => LeaseState(j) = "waiting"
  BY DEF LeaseState, Has
<1>4. jobs[j].status = "running" =>
        LeaseState(j) = IF Executors(j) = {} THEN "lost" ELSE "leased"
  BY DEF LeaseState, Has
<1>5. jobs[j].status = "succeeded" => LeaseState(j) = "done"
  BY DEF LeaseState, Has
<1>6. jobs[j].status = "failed" => LeaseState(j) = "buried"
  BY DEF LeaseState, Has
<1>7. jobs[j].status = "deleted" => LeaseState(j) = "gone"
  BY DEF LeaseState, Has
<1>8. QED
  BY <1>1, <1>2, <1>3, <1>4, <1>5, <1>6, <1>7 DEF ItemState

(* So it is after a step.                                                  *)
LEMMA LeaseStatesAfter == (\A j : ItemState(j))'
BY LeaseStates, PTL

(* The items of the promise, as records.                                   *)
Item == [state : {"waiting", "leased", "lost", "done", "buried", "gone"},
         attempts : Nat]

(* Every row is an item.                                                   *)
LEMMA ItemsTyped == TypeOK => LeasedItems \in [Ids -> Item]
<1> SUFFICES ASSUME TypeOK, NEW j \in Ids
             PROVE  [state |-> LeaseState(j), attempts |-> jobs[j].retries] \in Item
  BY DEF LeasedItems
<1>1. jobs[j] \in Row
  BY LenProperties, ElementOfSeq DEF TypeOK, Ids
<1>2. jobs[j].status \in Statuses /\ jobs[j].retries \in Nat
  BY <1>1 DEF Row
<1>3. (\E w \in Workers : Executing(w, j)) \/ (\A w \in Workers : ~Executing(w, j))
  OBVIOUS
<1>4. LeaseState(j) \in {"waiting", "leased", "lost", "done", "buried", "gone"}
  BY <1>2, <1>3, LeaseStates DEF ItemState, Statuses
<1>5. QED
  BY <1>2, <1>4 DEF Item

(* The same, one step later.                                               *)
LEMMA ItemsTypedAfter == (TypeOK => LeasedItems \in [Ids -> Item])'
BY ItemsTyped, PTL

(* An item is the state and the attempts of its row.                       *)
LEMMA ItemAt ==
    \A j \in Ids : /\ LeasedItems[j].state = LeaseState(j)
                   /\ LeasedItems[j].attempts = jobs[j].retries
BY DEF LeasedItems

(* The same, one step later.                                               *)
LEMMA ItemAtAfter ==
    (\A j \in Ids : /\ LeasedItems[j].state = LeaseState(j)
                    /\ LeasedItems[j].attempts = jobs[j].retries)'
BY ItemAt, PTL

(* A step that changes the state of one item and no count of attempts.     *)
LEMMA StateWritten ==
    ASSUME TypeOK, TypeOK', Ids' = Ids, NEW c \in Ids, NEW st,
           LeaseState(c)' = st,
           \A j \in Ids : jobs'[j].retries = jobs[j].retries,
           \A j \in Ids : j # c => LeaseState(j)' = LeaseState(j)
    PROVE  LeasedItems' = [LeasedItems EXCEPT ![c].state = st]
<1>1. PICK S, I, J : S = Ids /\ I = LeasedItems /\ J = LeasedItems'
  OBVIOUS
<1>2. I \in [S -> Item] /\ J \in [S -> Item] /\ c \in S
  BY <1>1, ItemsTyped, ItemsTypedAfter
<1>3. \A j \in S : /\ J[j].state = IF j = c THEN st ELSE I[j].state
                   /\ J[j].attempts = I[j].attempts
  BY <1>1, ItemAt, ItemAtAfter
<1>4. \A j \in S : j # c => J[j] = I[j]
  BY <1>2, <1>3 DEF Item
<1>5. PICK r : r = [I[c] EXCEPT !.state = st]
  OBVIOUS
<1>6. r = [state |-> st, attempts |-> I[c].attempts]
  BY <1>2, <1>5 DEF Item
<1>7. J[c] = [state |-> st, attempts |-> I[c].attempts]
  BY <1>2, <1>3 DEF Item
<1>8. J = [I EXCEPT ![c] = r]
  BY <1>2, <1>4, <1>6, <1>7
<1>9. QED
  BY <1>1, <1>5, <1>8

(* A step that counts one failed attempt of one item.                      *)
LEMMA AttemptCounted ==
    ASSUME TypeOK, TypeOK', Ids' = Ids, NEW c \in Ids,
           jobs'[c].retries = jobs[c].retries + 1,
           LeaseState(c)' = IF jobs[c].retries + 1 >= MaxRetries
                            THEN "buried" ELSE "waiting",
           \A j \in Ids : j # c => /\ LeaseState(j)' = LeaseState(j)
                                   /\ jobs'[j].retries = jobs[j].retries
    PROVE  LeasedItems' = [LeasedItems EXCEPT ![c] = Promise!Missed(@)]
<1>1. PICK S, I, J : S = Ids /\ I = LeasedItems /\ J = LeasedItems'
  OBVIOUS
<1>2. I \in [S -> Item] /\ J \in [S -> Item] /\ c \in S
  BY <1>1, ItemsTyped, ItemsTypedAfter
<1>3. /\ J[c].attempts = I[c].attempts + 1
      /\ J[c].state = IF I[c].attempts + 1 >= MaxRetries THEN "buried" ELSE "waiting"
      /\ \A j \in S : j # c => /\ J[j].state = I[j].state
                               /\ J[j].attempts = I[j].attempts
  BY <1>1, ItemAt, ItemAtAfter
<1>4. \A j \in S : j # c => J[j] = I[j]
  BY <1>2, <1>3 DEF Item
<1>5. PICK r : r = Promise!Missed(I[c])
  OBVIOUS
<1>6. r = [state |-> IF I[c].attempts + 1 >= MaxRetries THEN "buried" ELSE "waiting",
           attempts |-> I[c].attempts + 1]
  BY <1>5 DEF Promise!Missed
<1>7. J[c] = r
  BY <1>2, <1>3, <1>6 DEF Item
<1>8. J = [I EXCEPT ![c] = r]
  BY <1>2, <1>4, <1>7
<1>9. QED
  BY <1>1, <1>5, <1>8

(* A step that changes the state of a set of items.                        *)
LEMMA StatesWritten ==
    ASSUME TypeOK, TypeOK', Ids' = Ids, NEW R \in SUBSET Ids, NEW st,
           \A j \in Ids : jobs'[j].retries = jobs[j].retries,
           \A j \in Ids : LeaseState(j)' = IF j \in R THEN st ELSE LeaseState(j)
    PROVE  LeasedItems' = [j \in Ids |-> IF j \in R
                                         THEN [LeasedItems[j] EXCEPT !.state = st]
                                         ELSE LeasedItems[j]]
<1>1. PICK S, I, J : S = Ids /\ I = LeasedItems /\ J = LeasedItems'
  OBVIOUS
<1>2. I \in [S -> Item] /\ J \in [S -> Item]
  BY <1>1, ItemsTyped, ItemsTypedAfter
<1>3. \A j \in S : /\ J[j].state = IF j \in R THEN st ELSE I[j].state
                   /\ J[j].attempts = I[j].attempts
  BY <1>1, ItemAt, ItemAtAfter
<1>4. ASSUME NEW j \in S
      PROVE  J[j] = IF j \in R THEN [I[j] EXCEPT !.state = st] ELSE I[j]
  <2>1. I[j] \in Item /\ J[j] \in Item
    BY <1>2
  <2>2. CASE j \in R
    <3>1. [I[j] EXCEPT !.state = st] = [state |-> st, attempts |-> I[j].attempts]
      BY <2>1 DEF Item
    <3>2. J[j] = [state |-> st, attempts |-> I[j].attempts]
      BY <1>3, <2>1, <2>2 DEF Item
    <3>3. QED
      BY <2>2, <3>1, <3>2
  <2>3. CASE j \notin R
    BY <1>3, <2>1, <2>3 DEF Item
  <2>4. QED
    BY <2>2, <2>3
<1>5. J = [j \in S |-> IF j \in R THEN [I[j] EXCEPT !.state = st] ELSE I[j]]
  <2>1. J = [j \in S |-> J[j]]
    BY <1>2
  <2>2. QED
    BY <1>4, <2>1, Zenon
<1>6. QED
  BY <1>1, <1>5

(* A row that stays as it is, with the executors it had, is the item it was. *)
LEMMA SameItem ==
    ASSUME NEW j, jobs'[j] = jobs[j],
           \A w \in Workers : Executing(w, j)' <=> Executing(w, j)
    PROVE  LeaseState(j)' = LeaseState(j)
<1>1. Executors(j)' = Executors(j)
  BY DEF Executors
<1>2. QED
  BY <1>1 DEF LeaseState, Has

(* A claim leases the item of the row it claims.                           *)
LEMMA ClaimLeases ==
    ASSUME JobQueueAssumption, IInv, TypeOK', NEW w \in Workers, Claim(w)
    PROVE  Promise!Next
<1> PICK c : c = cur[w]
  OBVIOUS
<1>1. /\ pc[w] = "claim" /\ pc' = [pc EXCEPT ![w] = "execute"] /\ cur' = cur
      /\ jobs[c].status = "pending" /\ jobs[c] \in Row
      /\ c \in DOMAIN jobs /\ DOMAIN jobs' = DOMAIN jobs
      /\ pc \in [Workers -> Steps] /\ cur \in [Workers -> Nat]
  BY HeldRow DEF Claim, Has, Goto, IInv, TypeOK
<1>2. \A j \in DOMAIN jobs :
         jobs'[j] = IF j = c THEN [jobs[j] EXCEPT !.status = "running"] ELSE jobs[j]
  BY ClaimRows DEF IInv
<1>3. jobs'[c].status = "running" /\ jobs'[c].retries = jobs[c].retries
  BY <1>1, <1>2 DEF Row
<1>4. \A v \in Workers, j \in DOMAIN jobs : j # c => (Executing(v, j)' <=> Executing(v, j))
  BY <1>1 DEF Executing
<1>5. Executing(w, c)'
  BY <1>1 DEF Executing
<1>6. LeaseState(c) = "waiting" /\ LeaseState(c)' = "leased"
  BY <1>1, <1>3, <1>5, LeaseStates, LeaseStatesAfter DEF ItemState
<1>7. \A j \in DOMAIN jobs : j # c =>
         LeaseState(j)' = LeaseState(j) /\ jobs'[j].retries = jobs[j].retries
  BY <1>2, <1>4, SameItem
<1>8. LeasedItems' = [LeasedItems EXCEPT ![c].state = "leased"]
  BY <1>1, <1>3, <1>6, <1>7, StateWritten DEF Ids, IInv
<1>9. LeasedItems[c].state = "waiting"
  BY <1>1, <1>6 DEF LeasedItems, Ids
<1>10. LeaseOf[w] = 0 /\ LeaseOf' = [LeaseOf EXCEPT ![w] = c]
  BY <1>1 DEF LeaseOf
<1>11. Promise!Lease(w, c)
  BY <1>8, <1>9, <1>10 DEF Promise!Lease, Promise!Is, LeasedItems, LeaseOf
<1>12. c \in Promise!Items
  BY <1>1 DEF Promise!Items, Ids
<1>13. QED
  BY <1>11, <1>12, Zenon DEF Promise!Next

(* With the worker lock nobody executes anything once the one who did has  *)
(* let go, and what that one executed was RUNNING or has been deleted.     *)
LEMMA SoleExecutor ==
    ASSUME IInv, Exclusive, NEW w \in Workers,
           pc[w] \in {"execute", "succeed", "fail"}
    PROVE  /\ cur[w] \in DOMAIN jobs /\ jobs[cur[w]] \in Row /\ cur[w] # 0
           /\ \A v \in Workers : \A j : Executing(v, j) <=> v = w /\ j = cur[w]
           /\ jobs[cur[w]].status \in {"running", "deleted"}
<1>1. cur[w] \in DOMAIN jobs /\ jobs[cur[w]] \in Row /\ cur[w] # 0
  BY HeldRow DEF IInv
<1>2. \A v \in Workers : \A j : Executing(v, j) <=> v = w /\ j = cur[w]
  BY DEF IInv, LockHeld, Executing
<1>3. jobs[cur[w]].status \in {"running", "deleted"}
  BY <1>1, <1>2 DEF IInv, OwnedRowRuns, Ids, Fenced
<1>4. QED
  BY <1>1, <1>2, <1>3

(* Letting go of a job ends the lease of its item.                         *)
Lets(w) ==
    /\ pc[w] \in {"execute", "succeed", "fail"}
    /\ pc'[w] \notin {"execute", "succeed", "fail"}
    /\ \A v \in Workers \ {w} : pc'[v] = pc[v] /\ cur'[v] = cur[v]

(* A worker that lets its job go changes no other lease.                   *)
LEMMA LeaseEnds ==
    ASSUME IInv, Exclusive, NEW w \in Workers, Lets(w)
    PROVE  /\ LeaseOf[w] = cur[w] /\ LeaseOf[w] # 0
           /\ LeaseOf' = [LeaseOf EXCEPT ![w] = 0]
           /\ \A v \in Workers : \A j : ~Executing(v, j)'
<1>1. cur[w] # 0 /\ \A v \in Workers : \A j : Executing(v, j) <=> v = w /\ j = cur[w]
  BY SoleExecutor DEF Lets
<1>2. LeaseOf[w] = cur[w] /\ LeaseOf' = [LeaseOf EXCEPT ![w] = 0]
  BY DEF LeaseOf, Lets
<1>3. \A v \in Workers : \A j : ~Executing(v, j)'
  BY <1>1 DEF Executing, Lets
<1>4. QED
  BY <1>1, <1>2, <1>3

(* Letting go of a job whose row, unless deleted, becomes an item in the   *)
(* state `st` without a further attempt moves the leased item there.       *)
LEMMA HeldItemMoves ==
    ASSUME IInv, TypeOK', Exclusive, NEW w \in Workers, Lets(w), NEW st,
           NEW c, c = cur[w], DOMAIN jobs' = DOMAIN jobs,
           \A j \in DOMAIN jobs : jobs'[j].retries = jobs[j].retries,
           \A j \in DOMAIN jobs :
              j # c \/ jobs[j].status = "deleted" => jobs'[j] = jobs[j],
           jobs[c].status = "running" => LeaseState(c)' = st
    PROVE  /\ LeaseOf[w] # 0
           /\ LeaseOf' = [LeaseOf EXCEPT ![w] = 0]
           /\ LeasedItems' = Promise!Move(LeaseOf[w], st)
<1>1. /\ LeaseOf[w] = c /\ LeaseOf[w] # 0
      /\ LeaseOf' = [LeaseOf EXCEPT ![w] = 0]
      /\ \A v \in Workers : \A j : ~Executing(v, j)'
  BY LeaseEnds
<1>2. /\ c \in DOMAIN jobs /\ jobs[c] \in Row
      /\ \A v \in Workers : \A j : Executing(v, j) <=> v = w /\ j = c
      /\ jobs[c].status \in {"running", "deleted"}
  BY SoleExecutor DEF Lets
<1>3. \A j \in DOMAIN jobs : j # c => LeaseState(j)' = LeaseState(j)
  BY <1>1, <1>2, SameItem
<1>4. CASE jobs[c].status = "running"
  <2>1. LeaseState(c) = "leased" /\ LeaseState(c)' = st
    BY <1>2, <1>4, LeaseStates DEF ItemState
  <2>2. LeasedItems' = [LeasedItems EXCEPT ![c].state = st]
    BY <1>2, <1>3, <2>1, StateWritten DEF Ids, IInv
  <2>3. LeasedItems[c].state # "gone"
    BY <1>2, <2>1, ItemAt DEF Ids
  <2>4. LeasedItems' = Promise!Move(c, st)
    BY <2>2, <2>3, Zenon DEF Promise!Move, Promise!Is, LeasedItems
  <2>5. QED
    BY <1>1, <2>4
<1>5. CASE jobs[c].status = "deleted"
  <2>1. LeaseState(c) = "gone" /\ LeaseState(c)' = "gone"
    BY <1>2, <1>5, LeaseStates, LeaseStatesAfter DEF ItemState
  <2>2. LeasedItems' = LeasedItems
    BY <1>2, <1>3, <2>1 DEF LeasedItems, Ids
  <2>3. LeasedItems[c].state = "gone"
    BY <1>2, <2>1, ItemAt DEF Ids
  <2>4. LeasedItems' = Promise!Move(c, st)
    BY <2>2, <2>3, Zenon DEF Promise!Move, Promise!Is, LeasedItems
  <2>5. QED
    BY <1>1, <2>4
<1>6. QED
  BY <1>2, <1>4, <1>5

(* A success report finishes the lease.                                    *)
LEMMA SucceedFinishes ==
    ASSUME JobQueueAssumption, IInv, TypeOK', Exclusive, NEW w \in Workers, Succeed(w)
    PROVE  Promise!Next
<1> PICK c : c = cur[w]
  OBVIOUS
<1>1. Lets(w)
  BY DEF Succeed, Release, Goto, Lets, IInv, TypeOK
<1>2. c \in DOMAIN jobs /\ \A j \in DOMAIN jobs : jobs[j] \in Row
  BY HeldRow, LenProperties, ElementOfSeq DEF IInv, TypeOK, Succeed
<1>3. /\ DOMAIN jobs' = DOMAIN jobs
      /\ \A j \in DOMAIN jobs :
            jobs'[j] = IF j = c /\ jobs[j].status # "deleted"
                       THEN [jobs[j] EXCEPT !.status = "succeeded"] ELSE jobs[j]
  BY SucceedRows DEF IInv
<1>4. \A j \in DOMAIN jobs : jobs'[j].retries = jobs[j].retries
  BY <1>2, <1>3 DEF Row
<1>5. jobs[c].status = "running" => LeaseState(c)' = "done"
  <2>1. jobs[c].status = "running" => jobs'[c].status = "succeeded"
    BY <1>2, <1>3 DEF Row
  <2>2. jobs'[c].status = "succeeded" => LeaseState(c)' = "done"
    BY LeaseStatesAfter DEF ItemState
  <2>3. QED
    BY <2>1, <2>2
<1>6. /\ DOMAIN jobs' = DOMAIN jobs
      /\ \A j \in DOMAIN jobs : j # c \/ jobs[j].status = "deleted" => jobs'[j] = jobs[j]
  BY <1>3
<1>7. /\ LeaseOf[w] # 0 /\ LeaseOf' = [LeaseOf EXCEPT ![w] = 0]
      /\ LeasedItems' = Promise!Move(LeaseOf[w], "done")
  BY <1>1, <1>4, <1>5, <1>6, HeldItemMoves
<1>8. Promise!Finish(w)
  BY <1>7, Zenon DEF Promise!Finish, LeasedItems, LeaseOf
<1>9. QED
  BY <1>8, Zenon DEF Promise!Next

(* A failure report gives the item back, or buries it.                     *)
LEMMA FailGivesBack ==
    ASSUME JobQueueAssumption, IInv, TypeOK', Exclusive, NEW w \in Workers, Fail(w)
    PROVE  Promise!Next
<1> PICK c : c = cur[w]
  OBVIOUS
<1>1. Lets(w)
  BY DEF Fail, Release, Goto, Lets, IInv, TypeOK
<1>2. /\ LeaseOf[w] = c /\ LeaseOf[w] # 0
      /\ LeaseOf' = [LeaseOf EXCEPT ![w] = 0]
      /\ \A v \in Workers : \A j : ~Executing(v, j)'
  BY <1>1, LeaseEnds
<1>3. /\ c \in DOMAIN jobs /\ jobs[c] \in Row
      /\ \A v \in Workers : \A j : Executing(v, j) <=> v = w /\ j = c
      /\ jobs[c].status \in {"running", "deleted"}
  BY SoleExecutor DEF Fail
<1>4. /\ DOMAIN jobs' = DOMAIN jobs
      /\ \A j \in DOMAIN jobs :
            jobs'[j] = IF j = c /\ jobs[j].status # "deleted"
                       THEN Failed(jobs[j]) ELSE jobs[j]
  BY FailRows DEF IInv
<1>5. \A j \in DOMAIN jobs : j # c =>
         LeaseState(j)' = LeaseState(j) /\ jobs'[j].retries = jobs[j].retries
  BY <1>2, <1>3, <1>4, SameItem
<1>6. CASE jobs[c].status = "running"
  <2>1. LeaseState(c) = "leased"
    BY <1>3, <1>6, LeaseStates DEF ItemState
  <2>2. /\ jobs'[c].retries = jobs[c].retries + 1
        /\ jobs'[c].status = IF jobs[c].retries + 1 >= MaxRetries
                             THEN "failed" ELSE "pending"
    BY <1>3, <1>4, <1>6, FailureCounts
  <2>3. LeaseState(c)' = IF jobs[c].retries + 1 >= MaxRetries
                         THEN "buried" ELSE "waiting"
    BY <2>2, LeaseStatesAfter DEF ItemState
  <2>4. LeasedItems' = [LeasedItems EXCEPT ![c] = Promise!Missed(@)]
    BY <1>3, <1>4, <1>5, <2>2, <2>3, AttemptCounted DEF Ids, IInv
  <2>5. LeasedItems[c].state # "gone"
    BY <1>3, <2>1, ItemAt DEF Ids
  <2>6. Promise!GiveBack(w)
    BY <1>2, <2>4, <2>5, Zenon DEF Promise!GiveBack, Promise!Is, LeasedItems, LeaseOf
  <2>7. QED
    BY <2>6, Zenon DEF Promise!Next
<1>7. CASE jobs[c].status = "deleted"
  <2>1. jobs'[c] = jobs[c]
    BY <1>3, <1>4, <1>7
  <2>2. LeaseState(c) = "gone" /\ LeaseState(c)' = "gone"
    BY <1>7, <2>1, LeaseStates, LeaseStatesAfter DEF ItemState
  <2>3. LeasedItems' = LeasedItems
    BY <1>3, <1>4, <1>5, <2>1, <2>2 DEF LeasedItems, Ids
  <2>4. LeasedItems[c].state = "gone"
    BY <1>3, <2>2, ItemAt DEF Ids
  <2>5. Promise!GiveBack(w)
    BY <1>2, <2>3, <2>4, Zenon DEF Promise!GiveBack, Promise!Is, LeasedItems, LeaseOf
  <2>6. QED
    BY <2>5, Zenon DEF Promise!Next
<1>8. QED
  BY <1>3, <1>6, <1>7

(* A process that dies with a job in its hands, or cannot report on it,    *)
(* loses the lease.                                                        *)
LEMMA LeaseIsLost ==
    ASSUME IInv, TypeOK', Exclusive, NEW w \in Workers, Lets(w), UNCHANGED jobs
    PROVE  Promise!Next
<1> PICK c : c = cur[w]
  OBVIOUS
<1>1. \A v \in Workers : \A j : ~Executing(v, j)'
  BY LeaseEnds
<1>2. jobs[c].status = "running" => LeaseState(c)' = "lost"
  BY <1>1, LeaseStatesAfter DEF ItemState
<1>3. /\ LeaseOf[w] # 0 /\ LeaseOf' = [LeaseOf EXCEPT ![w] = 0]
      /\ LeasedItems' = Promise!Move(LeaseOf[w], "lost")
  BY <1>2, HeldItemMoves
<1>4. Promise!Lose(w)
  BY <1>3, Zenon DEF Promise!Lose, LeasedItems, LeaseOf
<1>5. QED
  BY <1>4, Zenon DEF Promise!Next

(* A job without a handler misses an attempt without being leased.         *)
LEMMA UnhandledIsRefused ==
    ASSUME JobQueueAssumption, IInv, TypeOK', NEW w \in Workers, ClaimUnhandled(w)
    PROVE  Promise!Next
<1> PICK c : c = cur[w]
  OBVIOUS
<1>1. /\ pc[w] = "claim" /\ pc' = [pc EXCEPT ![w] = "scan"]
      /\ cur' = [cur EXCEPT ![w] = 0]
      /\ jobs[c].status = "pending" /\ jobs[c] \in Row /\ c \in DOMAIN jobs
      /\ pc \in [Workers -> Steps] /\ cur \in [Workers -> Nat]
  BY HeldRow DEF ClaimUnhandled, Has, Release, Goto, IInv, TypeOK
<1>2. /\ DOMAIN jobs' = DOMAIN jobs
      /\ \A j \in DOMAIN jobs : jobs'[j] = IF j = c THEN Failed(jobs[j]) ELSE jobs[j]
  BY ClaimUnhandledRows DEF IInv
<1>3. /\ jobs'[c].retries = jobs[c].retries + 1
      /\ jobs'[c].status = IF jobs[c].retries + 1 >= MaxRetries
                           THEN "failed" ELSE "pending"
  BY <1>1, <1>2, FailureCounts
<1>4. LeaseState(c) = "waiting"
  BY <1>1, LeaseStates DEF ItemState
<1>5. LeaseState(c)' = IF jobs[c].retries + 1 >= MaxRetries THEN "buried" ELSE "waiting"
  BY <1>3, LeaseStatesAfter DEF ItemState
<1>6. \A v \in Workers : \A j : Executing(v, j)' <=> Executing(v, j)
  BY <1>1 DEF Executing
<1>7. \A j \in DOMAIN jobs : j # c =>
         LeaseState(j)' = LeaseState(j) /\ jobs'[j].retries = jobs[j].retries
  BY <1>2, <1>6, SameItem
<1>8. LeasedItems' = [LeasedItems EXCEPT ![c] = Promise!Missed(@)]
  BY <1>1, <1>2, <1>3, <1>5, <1>7, AttemptCounted DEF Ids, IInv
<1>9. LeasedItems[c].state = "waiting" /\ c \in Ids
  BY <1>1, <1>4, ItemAt DEF Ids
<1>10. LeaseOf' = LeaseOf
  BY <1>1 DEF LeaseOf
<1>11. Promise!Refuse(c)
  BY <1>8, <1>9, <1>10, Zenon DEF Promise!Refuse, Promise!Is, LeasedItems, LeaseOf
<1>12. c \in Promise!Items
  BY <1>1 DEF Promise!Items, Ids
<1>13. QED
  BY <1>11, <1>12, Zenon DEF Promise!Next

(* The stale-job recovery recovers lost leases, and nothing else.          *)
LEMMA RequeueRecovers ==
    ASSUME JobQueueAssumption, IInv, TypeOK', Exclusive, NEW w \in Workers, RequeueStale(w)
    PROVE  Promise!Next
<1> PICK R : R = stale[w]
  OBVIOUS
<1>1. /\ pc[w] = "requeue" /\ pc' = [pc EXCEPT ![w] = "pick"] /\ cur' = cur
      /\ R \in SUBSET DOMAIN jobs
      /\ \A j \in R : jobs[j].status # "deleted"
      /\ pc \in [Workers -> Steps]
  BY DEF RequeueStale, Goto, Has, IInv, TypeOK, Ids
<1>2. /\ DOMAIN jobs' = DOMAIN jobs
      /\ \A j \in DOMAIN jobs :
            jobs'[j] = IF j \in R THEN [jobs[j] EXCEPT !.status = "pending"] ELSE jobs[j]
  BY RequeueRows DEF IInv
<1>3. \A j \in DOMAIN jobs : jobs[j] \in Row
  BY LenProperties, ElementOfSeq DEF IInv, TypeOK
<1>4. \A j \in DOMAIN jobs : /\ jobs'[j].retries = jobs[j].retries
                             /\ j \in R => jobs'[j].status = "pending"
  BY <1>2, <1>3 DEF Row
<1>5. \A v \in Workers : \A j : ~Executing(v, j) /\ ~Executing(v, j)'
  BY <1>1 DEF IInv, LockHeld, Executing
<1>6. \A j \in R : jobs[j].status = "running"
  BY <1>1 DEF IInv, StaleRowsRun
<1>7. \A j \in R : LeaseState(j) = "lost" /\ LeaseState(j)' = "waiting"
  BY <1>1, <1>4, <1>5, <1>6, LeaseStates, LeaseStatesAfter DEF ItemState
<1>8. \A j \in DOMAIN jobs : j \notin R => LeaseState(j)' = LeaseState(j)
  BY <1>2, <1>5, SameItem
<1>9. LeasedItems' = [j \in Ids |-> IF j \in R
                                    THEN [LeasedItems[j] EXCEPT !.state = "waiting"]
                                    ELSE LeasedItems[j]]
  <2>1. /\ TypeOK /\ Ids' = Ids /\ R \in SUBSET Ids
        /\ \A j \in Ids : jobs'[j].retries = jobs[j].retries
        /\ \A j \in Ids : LeaseState(j)' = IF j \in R THEN "waiting" ELSE LeaseState(j)
    BY <1>1, <1>2, <1>4, <1>7, <1>8 DEF Ids, IInv
  <2>2. QED
    BY <2>1, StatesWritten, Zenon
<1>10. \A j \in R : LeasedItems[j].state = "lost"
  BY <1>1, <1>7, ItemAt DEF Ids
<1>11. LeaseOf' = LeaseOf
  BY <1>1 DEF LeaseOf
<1>12. Promise!Items = Ids
  BY DEF Promise!Items, Ids
<1>13. Promise!Recover(R)
  BY <1>9, <1>10, <1>11, <1>12, Zenon DEF Promise!Recover, Promise!Is, LeasedItems, LeaseOf
<1>14. R \in SUBSET Promise!Items
  BY <1>1, <1>12 DEF Ids
<1>15. QED
  BY <1>13, <1>14, Zenon DEF Promise!Next

(* New jobs are new items; the rows a transaction deletes were waiting.    *)
LEMMA TransactSubmits ==
    ASSUME JobQueueAssumption, TypeOK, TypeOK',
           NEW dropped, NEW spared, NEW batch \in Batches,
           jobs' = Transact(dropped, spared, batch),
           LeaseOf' = LeaseOf,
           \A v \in Workers, j \in DOMAIN jobs' : Executing(v, j)' <=> Executing(v, j)
    PROVE  Promise!Next
<1> PICK R : R = {j \in DOMAIN jobs : /\ jobs[j].status = "pending"
                                      /\ jobs[j].kind.target \in dropped
                                      /\ j \notin spared}
  OBVIOUS
<1> PICK m, n : m = Len(jobs) /\ n = Len(batch)
  OBVIOUS
<1>1. /\ DOMAIN jobs = 1..m /\ m \in Nat /\ n \in Nat /\ DOMAIN batch = 1..n
      /\ \A j \in DOMAIN jobs : jobs[j] \in Row
  BY LenProperties, ElementOfSeq DEF TypeOK, JobQueueAssumption
<1>2. TransactEffect(dropped, spared, batch)
  BY TransactTable DEF TypeOK
<1>3. /\ DOMAIN jobs' = 1..(m + n)
      /\ \A j \in 1..m : jobs'[j] = IF j \in R THEN [jobs[j] EXCEPT !.status = "deleted"]
                                               ELSE jobs[j]
  BY <1>1, <1>2 DEF TransactEffect
<1>4. \A i \in 1..n : jobs'[m + i].status = "pending" /\ jobs'[m + i].retries = 0
  <2>1. \A k : NewRow(k).status = "pending" /\ NewRow(k).retries = 0
    BY DEF NewRow
  <2>2. \A i \in 1..n : jobs'[m + i] = NewRow(batch[i])
    BY <1>1, <1>2 DEF TransactEffect
  <2>3. QED
    BY <2>1, <2>2
<1>5. \A j \in 1..m : /\ jobs'[j].retries = jobs[j].retries
                      /\ j \in R => jobs'[j].status = "deleted"
  BY <1>1, <1>3 DEF Row
<1>6. \A j \in 1..m : j \notin R => LeaseState(j)' = LeaseState(j)
  <2>1. \A j \in 1..m : j \in DOMAIN jobs'
    BY <1>1, <1>3
  <2>2. \A j \in 1..m : j \notin R => jobs'[j] = jobs[j]
    BY <1>3
  <2>3. QED
    BY <2>1, <2>2, SameItem
<1>7. \A j \in R : LeaseState(j) = "waiting" /\ LeaseState(j)' = "gone"
  BY <1>1, <1>5, LeaseStates, LeaseStatesAfter DEF ItemState
<1>8. \A i \in 1..n : LeaseState(m + i)' = "waiting"
  BY <1>4, LeaseStatesAfter DEF ItemState
<1> PICK I, J : I = LeasedItems /\ J = LeasedItems'
  OBVIOUS
<1>9. I \in [1..m -> Item] /\ J \in [1..(m + n) -> Item]
  BY <1>1, <1>3, ItemsTyped, ItemsTypedAfter DEF Ids
<1>10. /\ \A j \in 1..m : /\ J[j].state = IF j \in R THEN "gone" ELSE I[j].state
                          /\ J[j].attempts = I[j].attempts
       /\ \A i \in 1..n : J[m + i].state = "waiting" /\ J[m + i].attempts = 0
  <2>1. \A j \in 1..m : j \in 1..(m + n)
    BY <1>1
  <2>2. \A i \in 1..n : m + i \in 1..(m + n)
    BY <1>1
  <2>3. \A j \in 1..m : /\ J[j].state = IF j \in R THEN "gone" ELSE I[j].state
                        /\ J[j].attempts = I[j].attempts
    BY <1>1, <1>3, <1>5, <1>6, <1>7, <2>1, ItemAt, ItemAtAfter DEF Ids
  <2>4. \A i \in 1..n : J[m + i].state = "waiting" /\ J[m + i].attempts = 0
    BY <1>3, <1>4, <1>8, <2>2, ItemAtAfter DEF Ids
  <2>5. QED
    BY <2>3, <2>4
<1> DEFINE old == [j \in 1..m |-> IF j \in R THEN [I[j] EXCEPT !.state = "gone"] ELSE I[j]]
           new == [k \in 1..n |-> [state |-> "waiting", attempts |-> 0]]
<1>11. \A j \in 1..m : old[j] = J[j] /\ old[j] \in Item
  <2> TAKE j \in 1..m
  <2>1. I[j] \in Item /\ J[j] \in Item
    BY <1>1, <1>9
  <2>2. CASE j \in R
    <3>1. [I[j] EXCEPT !.state = "gone"] = [state |-> "gone", attempts |-> I[j].attempts]
      BY <2>1 DEF Item
    <3>2. J[j] = [state |-> "gone", attempts |-> I[j].attempts]
      BY <1>10, <2>1, <2>2 DEF Item
    <3>3. QED
      BY <2>1, <2>2, <3>1, <3>2
  <2>3. CASE j \notin R
    BY <1>10, <2>1, <2>3 DEF Item
  <2>4. QED
    BY <2>2, <2>3
<1>12. \A k \in 1..n : new[k] = J[m + k] /\ new[k] \in Item
  <2> TAKE k \in 1..n
  <2>1. J[m + k] \in Item
    BY <1>1, <1>9
  <2>2. J[m + k] = [state |-> "waiting", attempts |-> 0]
    BY <1>10, <2>1 DEF Item
  <2>3. QED
    BY <2>1, <2>2
<1>13. old \in [1..m -> Item] /\ new \in [1..n -> Item]
  BY <1>11, <1>12
<1> HIDE DEF old, new
<1>14. /\ old \in Seq(Item) /\ Len(old) = m
       /\ new \in Seq(Item) /\ Len(new) = n
       /\ J \in Seq(Item) /\ Len(J) = m + n
       /\ I \in Seq(Item) /\ Len(I) = m
  <2>1. \A k \in Nat : \A s \in [1..k -> Item] : s \in Seq(Item) /\ Len(s) = k
    BY SeqDef, LenProperties
  <2>2. m + n \in Nat
    BY <1>1
  <2>3. QED
    BY <1>1, <1>9, <1>13, <2>1, <2>2
<1>15. J = old \o new
  <2>1. /\ old \o new \in Seq(Item) /\ Len(old \o new) = m + n
        /\ \A i \in 1..(m + n) :
              (old \o new)[i] = IF i <= m THEN old[i] ELSE new[i - m]
    <3>1. /\ old \o new \in Seq(Item) /\ Len(old \o new) = Len(old) + Len(new)
          /\ \A i \in 1..Len(old) + Len(new) :
                (old \o new)[i] = IF i <= Len(old) THEN old[i] ELSE new[i - Len(old)]
      <4>1. old \in Seq(Item) /\ new \in Seq(Item)
        BY <1>14
      <4>2. QED
        BY <4>1, ConcatProperties, Zenon
    <3>2. QED
      BY <1>14, <3>1
  <2>2. \A i \in 1..(m + n) : (old \o new)[i] = J[i]
    <3> TAKE i \in 1..(m + n)
    <3>1. CASE i <= m
      BY <1>1, <1>11, <2>1, <3>1
    <3>2. CASE ~(i <= m)
      <4>1. i - m \in 1..n /\ m + (i - m) = i
        BY <1>1, <3>2
      <4>2. QED
        BY <1>12, <2>1, <3>2, <4>1
    <3>3. QED
      BY <3>1, <3>2
  <2>3. QED
    BY <1>14, <2>1, <2>2, SeqEqual
<1>16. \A i \in R : I[i].state = "waiting"
  BY <1>7, ItemAt DEF Ids
<1>17. R \in SUBSET Promise!Items /\ Promise!Items = 1..m
  BY <1>1 DEF Promise!Items, Ids
<1>18. n \in 0..(Len(LeasedItems') - Len(LeasedItems))
  BY <1>1, <1>14
<1>19. Promise!Submit(R, n)
  <2>1. old = [j \in Promise!Items |-> IF j \in R THEN [LeasedItems[j] EXCEPT !.state = "gone"]
                                       ELSE LeasedItems[j]]
    BY <1>17 DEF old
  <2>2. LeasedItems' = [j \in Promise!Items |->
                          IF j \in R THEN [LeasedItems[j] EXCEPT !.state = "gone"]
                                     ELSE LeasedItems[j]]
                       \o [k \in 1..n |-> [state |-> "waiting", attempts |-> 0]]
    BY <1>15, <2>1 DEF new
  <2>3. \A i \in R : LeasedItems[i].state = "waiting"
    BY <1>16
  <2>4. QED
    BY <2>2, <2>3, Zenon DEF Promise!Submit, Promise!Is, LeasedItems, LeaseOf
<1>20. QED
  BY <1>17, <1>18, <1>19, Zenon DEF Promise!Next, LeasedItems

(* Deleting a collection removes the items of its targets.                 *)
LEMMA DeleteRemoves ==
    ASSUME JobQueueAssumption, TypeOK, TypeOK', NEW gone, DeleteTargets(gone)
    PROVE  Promise!Next
<1> PICK R : R = {j \in DOMAIN jobs : jobs[j].kind.target \in gone}
  OBVIOUS
<1>1. \A j \in DOMAIN jobs : jobs[j] \in Row
  BY LenProperties, ElementOfSeq DEF TypeOK
<1>2. /\ DOMAIN jobs' = DOMAIN jobs
      /\ \A j \in DOMAIN jobs :
            jobs'[j] = IF j \in R THEN [jobs[j] EXCEPT !.status = "deleted"] ELSE jobs[j]
  BY DeleteRows
<1>3. \A j \in DOMAIN jobs : /\ jobs'[j].retries = jobs[j].retries
                             /\ j \in R => jobs'[j].status = "deleted"
  BY <1>1, <1>2 DEF Row
<1>4. \A v \in Workers : \A j : Executing(v, j)' <=> Executing(v, j)
  BY DEF DeleteTargets, Executing
<1>5. \A j \in DOMAIN jobs : j \notin R => LeaseState(j)' = LeaseState(j)
  BY <1>2, <1>4, SameItem
<1>6. \A j \in R : LeaseState(j)' = "gone"
  BY <1>3, LeaseStatesAfter DEF ItemState
<1>7. LeasedItems' = [j \in Ids |-> IF j \in R
                                    THEN [LeasedItems[j] EXCEPT !.state = "gone"]
                                    ELSE LeasedItems[j]]
  <2>1. /\ Ids' = Ids /\ R \in SUBSET Ids
        /\ \A j \in Ids : jobs'[j].retries = jobs[j].retries
        /\ \A j \in Ids : LeaseState(j)' = IF j \in R THEN "gone" ELSE LeaseState(j)
    BY <1>2, <1>3, <1>5, <1>6 DEF Ids
  <2>2. QED
    BY <2>1, StatesWritten, Zenon
<1>8. LeaseOf' = LeaseOf
  BY DEF DeleteTargets, LeaseOf
<1>9. Promise!Items = Ids
  BY DEF Promise!Items, Ids
<1>10. Promise!Remove(R)
  BY <1>7, <1>8, <1>9, Zenon DEF Promise!Remove, LeasedItems, LeaseOf
<1>11. R \in SUBSET Promise!Items
  BY <1>9 DEF Ids
<1>12. QED
  BY <1>10, <1>11, Zenon DEF Promise!Next

(* Reading, waiting and looking at the clock change nothing that is        *)
(* promised.                                                               *)
LEMMA QuietStutters ==
    ASSUME UNCHANGED jobs,
           \A v \in Workers :
              \/ pc'[v] = pc[v] /\ cur'[v] = cur[v]
              \/ {pc[v], pc'[v]} \cap {"execute", "succeed", "fail"} = {}
              \/ {pc[v], pc'[v]} \subseteq {"execute", "succeed", "fail"} /\ cur'[v] = cur[v]
    PROVE  UNCHANGED <<LeasedItems, LeaseOf>>
<1>1. \A v \in Workers : \A j : Executing(v, j)' <=> Executing(v, j)
  BY DEF Executing
<1>2. \A j : LeaseState(j)' = LeaseState(j)
  BY <1>1, SameItem
<1>3. LeasedItems' = LeasedItems
  BY <1>2 DEF LeasedItems, Ids
<1>4. LeaseOf' = LeaseOf
  BY DEF LeaseOf
<1>5. QED
  BY <1>3, <1>4

(* Every step of the queue is a step of the promise, or changes nothing    *)
(* it speaks of.                                                           *)
LEMMA LeaseStep ==
    ASSUME JobQueueAssumption, Exclusive, IInv, [Next]_queueVars
    PROVE  Promise!Next \/ UNCHANGED <<LeasedItems, LeaseOf>>
<1> DEFINE Done == Promise!Next \/ UNCHANGED <<LeasedItems, LeaseOf>>
<1>0. TypeOK /\ TypeOK' /\ pc \in [Workers -> Steps] /\ cur \in [Workers -> Nat]
  BY TypeStep DEF IInv, TypeOK
<1>1. ASSUME NEW w \in Workers,
             \/ Start(w) \/ ScanStale(w) \/ RequeueRolledBack(w) \/ Pick(w)
             \/ ClaimLost(w) \/ RaiseError(w) \/ SucceedNotCommitted(w)
      PROVE  Done
  <2>1. /\ UNCHANGED jobs
        /\ \A v \in Workers :
              \/ pc'[v] = pc[v] /\ cur'[v] = cur[v]
              \/ {pc[v], pc'[v]} \cap {"execute", "succeed", "fail"} = {}
              \/ {pc[v], pc'[v]} \subseteq {"execute", "succeed", "fail"} /\ cur'[v] = cur[v]
    BY <1>0, <1>1 DEF Start, ScanStale, RequeueRolledBack, Pick, ClaimLost, RaiseError,
       SucceedNotCommitted, Goto, Release
  <2>2. QED
    BY <2>1, QuietStutters
<1>2. ASSUME NEW w \in Workers, Crash(w) \/ FailNotCommitted(w) PROVE Done
  <2>1. /\ UNCHANGED jobs
        /\ \A v \in Workers \ {w} : pc'[v] = pc[v] /\ cur'[v] = cur[v]
        /\ pc'[w] \notin {"execute", "succeed", "fail"}
    BY <1>0, <1>2 DEF Crash, FailNotCommitted, Goto, Release
  <2>2. CASE pc[w] \in {"execute", "succeed", "fail"}
    BY <1>0, <2>1, <2>2, LeaseIsLost DEF Lets
  <2>3. CASE pc[w] \notin {"execute", "succeed", "fail"}
    <3>1. \A v \in Workers :
            \/ pc'[v] = pc[v] /\ cur'[v] = cur[v]
            \/ {pc[v], pc'[v]} \cap {"execute", "succeed", "fail"} = {}
      BY <2>1, <2>3
    <3>2. QED
      BY <2>1, <3>1, QuietStutters
  <2>4. QED
    BY <2>2, <2>3
<1>3. ASSUME NEW w \in Workers, RequeueStale(w) PROVE Done
  BY <1>0, <1>3, RequeueRecovers
<1>4. ASSUME NEW w \in Workers, Claim(w) PROVE Done
  BY <1>0, <1>4, ClaimLeases
<1>5. ASSUME NEW w \in Workers, ClaimUnhandled(w) PROVE Done
  BY <1>0, <1>5, UnhandledIsRefused
<1>6. ASSUME NEW w \in Workers, Succeed(w) PROVE Done
  BY <1>0, <1>6, SucceedFinishes
<1>7. ASSUME NEW w \in Workers, Fail(w) PROVE Done
  BY <1>0, <1>7, FailGivesBack
<1>8. ASSUME NEW w \in Workers, NEW dropped, NEW batch \in Batches,
             CommitWork(w, dropped, batch)
      PROVE  Done
  <2>1. /\ jobs' = Transact(dropped, {cur[w]}, batch)
        /\ LeaseOf' = LeaseOf
        /\ \A v \in Workers : \A j : Executing(v, j)' <=> Executing(v, j)
    BY <1>0, <1>8 DEF CommitWork, Goto, LeaseOf, Executing
  <2>2. QED
    BY <1>0, <2>1, TransactSubmits
<1>9. ASSUME NEW dropped, NEW batch \in Batches, Request(dropped, batch)
      PROVE  Done
  <2>1. /\ jobs' = Transact(dropped, {}, batch)
        /\ LeaseOf' = LeaseOf
        /\ \A v \in Workers : \A j : Executing(v, j)' <=> Executing(v, j)
    BY <1>9 DEF Request, LeaseOf, Executing
  <2>2. QED
    BY <1>0, <2>1, TransactSubmits
<1>10. ASSUME NEW gone, DeleteTargets(gone) PROVE Done
  BY <1>0, <1>10, DeleteRemoves
<1>11. CASE UNCHANGED <<jobs, pc, cur>>
  BY <1>11, QuietStutters
<1>12. ASSUME NEW w \in Workers, Start(w) \/ Loop(w) \/ Handler(w) \/ Fault(w)
       PROVE  Done
  BY <1>1, <1>2, <1>3, <1>4, <1>5, <1>6, <1>7, <1>8, <1>12 DEF Loop, Handler, Fault
<1>13. CASE Api
  BY <1>9, <1>10, <1>13 DEF Api
<1>14. CASE \E j \in Ids : Expire(j) \/ Outlive(j)
  BY <1>11, <1>14 DEF Expire, Outlive
<1>15. CASE UNCHANGED queueVars
  BY <1>11, <1>15 DEF queueVars
<1>16. QED
  BY <1>12, <1>13, <1>14, <1>15 DEF Next

(* On a single-worker backend the queue is a WorkLease: whatever crashes,  *)
(* requeues, failed commits and late reports happen, an item is leased to  *)
(* one worker at a time, ends once, and is buried after MaxRetries failed  *)
(* attempts.                                                               *)
THEOREM QueueIsWorkLease ==
    ASSUME Exclusive
    PROVE  Spec => ImplementsWorkLease
<1>1. Init => Promise!Init
  BY DEF Init, Promise!Init, Ids
<1>2. IInv /\ [Next]_queueVars => [Promise!Next]_(Promise!leaseVars)
  BY LeaseStep, JobQueueAssumption DEF Promise!leaseVars, LeasedItems, LeaseOf
<1>3. QED
  BY <1>1, <1>2, Invariance, PTL DEF Spec, ImplementsWorkLease, Promise!Spec

=============================================================================
