------------------------------ MODULE JobQueue ------------------------------
(***************************************************************************)
(* The background job queue of the document RAG backend: the `jobs` table  *)
(* (infrastructure/db/repositories/sql_job_repo.py), the Job entity        *)
(* (domain/entities/job.py) and the polling loop of the worker processes   *)
(* (workers/runner.py, workers/main.py, workers/sqlite_lock.py).           *)
(*                                                                         *)
(* A job is addressed by its position in the sequence `jobs`, which is     *)
(* also its creation order (created_at).  Rows are never removed from the  *)
(* sequence: a row deleted by the API has the status "deleted".            *)
(*                                                                         *)
(* A worker commits several transactions per iteration of its loop and may *)
(* die between any two of them; each transaction is an action of its own,  *)
(* and so is each read whose result a later transaction relies on.         *)
(***************************************************************************)
EXTENDS Naturals, Sequences

CONSTANTS
    Workers,        \* worker processes that may be started
    Targets,        \* documents and collections
    Types,          \* job types (JobType)
    HandledTypes,   \* job types with a registered handler
    MaxRetries,     \* Job.max_retries
    Exclusive,      \* TRUE for SQLite: the worker lock admits one process
    Batches,        \* the sequences of jobs one transaction may insert
    MaxJobs,        \* bound on the rows ever inserted
    MaxFaults       \* bound on crashes, failed bookkeeping commits and
                    \* handlers that outlive the stale-job cutoff

ASSUME JobQueueAssumption ==
    /\ HandledTypes \subseteq Types
    /\ MaxRetries \in Nat \ {0}
    /\ Exclusive \in BOOLEAN
    /\ Batches \subseteq Seq([type : Types, target : Targets])
    /\ MaxJobs \in Nat
    /\ MaxFaults \in Nat

VARIABLES
    jobs,       \* the rows of the jobs table, in creation order
    overdue,    \* RUNNING rows whose started_at is behind the stale cutoff
    pc,         \* where each worker stands in JobRunner.run
    cur,        \* the job id each worker holds (0: none)
    stale,      \* ids a worker has read as stale and is about to requeue
    faults,     \* crashes, failed commits and overlong handlers so far
    committed,  \* history: jobs whose handler has committed its work
    requeued    \* history: jobs that were put back as stale

queueVars == <<jobs, overdue, pc, cur, stale, faults, committed, requeued>>

Kind     == [type : Types, target : Targets]
Statuses == {"pending", "running", "succeeded", "failed", "deleted"}
Row      == [kind : Kind, status : Statuses, retries : Nat]
Steps    == {"down", "scan", "requeue", "pick", "claim",
             "execute", "succeed", "fail"}

Ids == DOMAIN jobs
Has(j, status) == jobs[j].status = status

(* The worker has been handed job j and has not yet written its outcome.   *)
Executing(w, j) == cur[w] = j /\ pc[w] \in {"execute", "succeed", "fail"}
Executors(j)    == {w \in Workers : Executing(w, j)}

NewRow(kind) == [kind |-> kind, status |-> "pending", retries |-> 0]

(* Mutant of Transact: the rows are inserted before the others are deleted. *)
TransactInsertFirst(dropped, spared, batch) ==
    LET rows == jobs \o [i \in DOMAIN batch |-> NewRow(batch[i])] IN
    [j \in DOMAIN rows |->
        IF rows[j].status = "pending" /\ rows[j].kind.target \in dropped
           /\ j \notin spared
        THEN [rows[j] EXCEPT !.status = "deleted"]
        ELSE rows[j]]

(* One transaction on the table: delete the PENDING rows of the targets in *)
(* `dropped`, those in `spared` excepted, then insert the jobs of `batch`. *)
Transact(dropped, spared, batch) ==
    [j \in Ids |->
        IF Has(j, "pending") /\ jobs[j].kind.target \in dropped /\ j \notin spared
        THEN [jobs[j] EXCEPT !.status = "deleted"]
        ELSE jobs[j]]
    \o [i \in DOMAIN batch |-> NewRow(batch[i])]

(* Mutants of Failed: an off-by-one in the budget, and an attempt that is  *)
(* not counted.                                                            *)
FailedOffByOne(row) ==
    [row EXCEPT !.retries = row.retries + 1,
                !.status  = IF row.retries + 1 > MaxRetries
                            THEN "failed" ELSE "pending"]

FailedUncounted(row) == [row EXCEPT !.status = "pending"]

(* Job.fail: back to PENDING while attempts remain.                        *)
Failed(row) ==
    [row EXCEPT !.retries = row.retries + 1,
                !.status  = IF row.retries + 1 >= MaxRetries
                            THEN "failed" ELSE "pending"]

Goto(w, step) == pc' = [pc EXCEPT ![w] = step]

Release(w) == Goto(w, "scan") /\ cur' = [cur EXCEPT ![w] = 0]

-----------------------------------------------------------------------------
Init ==
    /\ jobs = <<>>
    /\ overdue = {}
    /\ pc = [w \in Workers |-> "down"]
    /\ cur = [w \in Workers |-> 0]
    /\ stale = [w \in Workers |-> {}]
    /\ faults = 0
    /\ committed = {}
    /\ requeued = {}

(* Mutant of Start: the lock file is not consulted.                        *)
StartWithoutLock(w) ==
    /\ pc[w] = "down"
    /\ Goto(w, "scan")
    /\ UNCHANGED <<jobs, overdue, cur, stale, faults, committed, requeued>>

(***************************************************************************)
(* Worker processes.  On SQLite a process that finds the lock held exits;  *)
(* the kernel drops the lock of a dead process.                            *)
(***************************************************************************)
Start(w) ==
    /\ pc[w] = "down"
    /\ Exclusive => \A v \in Workers : pc[v] = "down"
    /\ Goto(w, "scan")
    /\ UNCHANGED <<jobs, overdue, cur, stale, faults, committed, requeued>>

Crash(w) ==
    /\ pc[w] # "down"
    /\ faults < MaxFaults
    /\ faults' = faults + 1
    /\ Goto(w, "down")
    /\ cur' = [cur EXCEPT ![w] = 0]
    /\ stale' = [stale EXCEPT ![w] = {}]
    /\ UNCHANGED <<jobs, overdue, committed, requeued>>

(* Ten minutes pass since a RUNNING row was claimed: because the process   *)
(* that claimed it is gone, or because the handler takes that long.        *)
Expire(j) ==
    /\ Has(j, "running")
    /\ Executors(j) = {}
    /\ j \notin overdue
    /\ overdue' = overdue \cup {j}
    /\ UNCHANGED <<jobs, pc, cur, stale, faults, committed, requeued>>

Outlive(j) ==
    /\ Has(j, "running")
    /\ Executors(j) # {}
    /\ j \notin overdue
    /\ faults < MaxFaults
    /\ faults' = faults + 1
    /\ overdue' = overdue \cup {j}
    /\ UNCHANGED <<jobs, pc, cur, stale, committed, requeued>>

(* Mutant of ScanStale: the recovery is never run.                         *)
ScanNothing(w) ==
    /\ pc[w] = "scan"
    /\ Goto(w, "pick")
    /\ UNCHANGED <<jobs, overdue, cur, stale, faults, committed, requeued>>

(***************************************************************************)
(* requeue_stale_running: SELECT the stale rows, then UPDATE them by id.   *)
(* The UPDATE does not look at the status again; a row deleted in between  *)
(* makes the flush fail and rolls the iteration back.                      *)
(***************************************************************************)
ScanStale(w) ==
    /\ pc[w] = "scan"
    /\ LET found == {j \in overdue : Has(j, "running")} IN
         /\ stale' = [stale EXCEPT ![w] = found]
         /\ Goto(w, IF found = {} THEN "pick" ELSE "requeue")
    /\ UNCHANGED <<jobs, overdue, cur, faults, committed, requeued>>

RequeueStale(w) ==
    /\ pc[w] = "requeue"
    /\ \A j \in stale[w] : ~Has(j, "deleted")
    /\ jobs' = [j \in Ids |->
                  IF j \in stale[w] THEN [jobs[j] EXCEPT !.status = "pending"]
                                    ELSE jobs[j]]
    /\ overdue' = overdue \ stale[w]
    /\ requeued' = requeued \cup stale[w]
    /\ stale' = [stale EXCEPT ![w] = {}]
    /\ Goto(w, "pick")
    /\ UNCHANGED <<cur, faults, committed>>

RequeueRolledBack(w) ==
    /\ pc[w] = "requeue"
    /\ \E j \in stale[w] : Has(j, "deleted")
    /\ stale' = [stale EXCEPT ![w] = {}]
    /\ Goto(w, "scan")
    /\ UNCHANGED <<jobs, overdue, cur, faults, committed, requeued>>

(* Mutant of Claim: the UPDATE without its condition on the status.        *)
ClaimUnconditional(w) ==
    /\ pc[w] = "claim"
    /\ ~Has(cur[w], "deleted")
    /\ jobs[cur[w]].kind.type \in HandledTypes
    /\ jobs' = [jobs EXCEPT ![cur[w]].status = "running"]
    /\ overdue' = overdue \ {cur[w]}
    /\ Goto(w, "execute")
    /\ UNCHANGED <<cur, stale, faults, committed, requeued>>

(***************************************************************************)
(* claim_next_pending: read the oldest PENDING id, then UPDATE it only if  *)
(* it is still PENDING.  A lost race ends the iteration.                   *)
(***************************************************************************)
Pick(w) ==
    /\ pc[w] = "pick"
    /\ \/ \E j \in Ids :
            /\ Has(j, "pending")
            /\ \A i \in Ids : i < j => ~Has(i, "pending")
            /\ cur' = [cur EXCEPT ![w] = j]
            /\ Goto(w, "claim")
       \/ /\ \A j \in Ids : ~Has(j, "pending")
          /\ Release(w)
    /\ UNCHANGED <<jobs, overdue, stale, faults, committed, requeued>>

ClaimLost(w) ==
    /\ pc[w] = "claim"
    /\ ~Has(cur[w], "pending")
    /\ Release(w)
    /\ UNCHANGED <<jobs, overdue, stale, faults, committed, requeued>>

Claim(w) ==
    /\ pc[w] = "claim"
    /\ Has(cur[w], "pending")
    /\ jobs[cur[w]].kind.type \in HandledTypes
    /\ jobs' = [jobs EXCEPT ![cur[w]].status = "running"]
    /\ overdue' = overdue \ {cur[w]}
    /\ Goto(w, "execute")
    /\ UNCHANGED <<cur, stale, faults, committed, requeued>>

(* A type without a handler: claimed and failed in the same transaction.   *)
ClaimUnhandled(w) ==
    /\ pc[w] = "claim"
    /\ Has(cur[w], "pending")
    /\ jobs[cur[w]].kind.type \notin HandledTypes
    /\ jobs' = [jobs EXCEPT ![cur[w]] = Failed(@)]
    /\ Release(w)
    /\ UNCHANGED <<overdue, stale, faults, committed, requeued>>

(***************************************************************************)
(* The handler commits its work, the follow-up jobs included, in its own   *)
(* transaction; the job row is settled by a later one.                     *)
(***************************************************************************)
CommitWork(w, dropped, batch) ==
    /\ pc[w] = "execute"
    /\ jobs' = Transact(dropped, {cur[w]}, batch)
    /\ committed' = committed \cup {cur[w]}
    /\ Goto(w, "succeed")
    /\ UNCHANGED <<overdue, cur, stale, faults, requeued>>

(* Mutant of RaiseError: the handler's exception is swallowed.             *)
RaiseErrorSwallowed(w) ==
    /\ pc[w] = "execute"
    /\ Goto(w, "succeed")
    /\ UNCHANGED <<jobs, overdue, cur, stale, faults, committed, requeued>>

RaiseError(w) ==
    /\ pc[w] = "execute"
    /\ Goto(w, "fail")
    /\ UNCHANGED <<jobs, overdue, cur, stale, faults, committed, requeued>>

(* Both outcomes re-read the row by id and write it only if it exists.     *)
Succeed(w) ==
    /\ pc[w] = "succeed"
    /\ jobs' = IF Has(cur[w], "deleted") THEN jobs
               ELSE [jobs EXCEPT ![cur[w]].status = "succeeded"]
    /\ overdue' = overdue \ {cur[w]}
    /\ Release(w)
    /\ UNCHANGED <<stale, faults, committed, requeued>>

Fail(w) ==
    /\ pc[w] = "fail"
    /\ jobs' = IF Has(cur[w], "deleted") THEN jobs
               ELSE [jobs EXCEPT ![cur[w]] = Failed(@)]
    /\ overdue' = overdue \ {cur[w]}
    /\ Release(w)
    /\ UNCHANGED <<stale, faults, committed, requeued>>

(* The success commit is inside the try block of the handler, so its own   *)
(* failure is handled as a failure of the job.                             *)
SucceedNotCommitted(w) ==
    /\ pc[w] = "succeed"
    /\ faults < MaxFaults
    /\ faults' = faults + 1
    /\ Goto(w, "fail")
    /\ UNCHANGED <<jobs, overdue, cur, stale, committed, requeued>>

(* If that commit fails too, the row stays RUNNING and the loop goes on.   *)
FailNotCommitted(w) ==
    /\ pc[w] = "fail"
    /\ faults < MaxFaults
    /\ faults' = faults + 1
    /\ Release(w)
    /\ UNCHANGED <<jobs, overdue, stale, committed, requeued>>

(***************************************************************************)
(* Requests: register, resume and rebuild drop and insert rows; deleting a *)
(* collection removes the rows of its targets whatever their status.       *)
(***************************************************************************)
Request(dropped, batch) ==
    /\ jobs' = Transact(dropped, {}, batch)
    /\ UNCHANGED <<overdue, pc, cur, stale, faults, committed, requeued>>

DeleteTargets(gone) ==
    /\ jobs' = [j \in Ids |-> IF jobs[j].kind.target \in gone
                              THEN [jobs[j] EXCEPT !.status = "deleted"]
                              ELSE jobs[j]]
    /\ overdue' = {j \in overdue : jobs[j].kind.target \notin gone}
    /\ UNCHANGED <<pc, cur, stale, faults, committed, requeued>>

-----------------------------------------------------------------------------
Loop(w) ==
    \/ ScanStale(w) \/ RequeueStale(w) \/ RequeueRolledBack(w)
    \/ Pick(w) \/ ClaimLost(w) \/ Claim(w) \/ ClaimUnhandled(w)
    \/ Succeed(w) \/ Fail(w)

Fits(batch) == Len(jobs) + Len(batch) <= MaxJobs

Handler(w) ==
    \/ \E dropped \in SUBSET Targets, batch \in Batches :
         Fits(batch) /\ CommitWork(w, dropped, batch)
    \/ RaiseError(w)

Fault(w) == Crash(w) \/ SucceedNotCommitted(w) \/ FailNotCommitted(w)

Api ==
    \/ \E dropped \in SUBSET Targets, batch \in Batches :
         Fits(batch) /\ Request(dropped, batch)
    \/ \E gone \in SUBSET Targets : DeleteTargets(gone)

Next ==
    \/ \E w \in Workers : Start(w) \/ Loop(w) \/ Handler(w) \/ Fault(w)
    \/ \E j \in Ids : Expire(j) \/ Outlive(j)
    \/ Api

Spec == Init /\ [][Next]_queueVars

(* Processes are restarted, the loop and the handlers make progress, and   *)
(* the clock moves: a RUNNING row nobody works on does pass the cutoff.    *)
Fairness ==
    /\ \A w \in Workers : WF_queueVars(Start(w)) /\ WF_queueVars(Loop(w))
                          /\ WF_queueVars(Handler(w))
    /\ \A j \in 1..MaxJobs : WF_queueVars(j \in Ids /\ Expire(j))

FairSpec == Spec /\ Fairness

-----------------------------------------------------------------------------
(* Every variable keeps its type; ids held by a worker are ids of rows.    *)
TypeOK ==
    /\ jobs \in Seq(Row)
    /\ overdue \subseteq Ids
    /\ pc \in [Workers -> Steps]
    /\ cur \in [Workers -> Nat]
    /\ \A w \in Workers : pc[w] \in {"claim", "execute", "succeed", "fail"}
                         => cur[w] \in Ids
    /\ stale \in [Workers -> SUBSET Ids]
    /\ faults \in Nat
    /\ committed \subseteq Ids
    /\ requeued \subseteq Ids

(* A job is reported SUCCEEDED only if some execution of its handler has   *)
(* committed: neither a crash, nor a requeue, nor the failure of the       *)
(* success commit itself ever yields a success without the work.           *)
SuccessNeedsWork ==
    \A j \in Ids : Has(j, "succeeded") => j \in committed

(* Two workers work on one job only if the stale-job recovery has put that *)
(* job back: the conditional UPDATE of claim_next_pending by itself admits *)
(* one executor, whatever the interleaving of reads and updates.           *)
SharedOnlyIfRequeued ==
    \A j \in Ids : \A v, w \in Workers :
        Executing(v, j) /\ Executing(w, j) /\ v # w => j \in requeued

(* With the SQLite worker lock a job never has two executors at all, not   *)
(* even after crashes and requeues.                                        *)
OneExecutor ==
    Exclusive => \A j \in Ids : \A v, w \in Workers :
                    Executing(v, j) /\ Executing(w, j) => v = w

(* The retry budget: the attempts of a live job stay below max_retries and *)
(* FAILED means exactly max_retries failed attempts.  On a multi-worker    *)
(* backend this is promised only for jobs never requeued as stale.         *)
Fenced(j) == Exclusive \/ j \notin requeued

RetryBudget ==
    \A j \in Ids : Fenced(j) =>
        /\ Has(j, "failed") => jobs[j].retries = MaxRetries
        /\ jobs[j].status \in {"pending", "running", "succeeded"}
               => jobs[j].retries < MaxRetries

(* An outcome is final: a SUCCEEDED or FAILED job never runs again and is  *)
(* never overwritten by a late report, except (on a multi-worker backend)  *)
(* a job that was requeued as stale.                                       *)
OutcomeIsFinal ==
    [][\A j \in Ids :
          jobs[j].status \in {"succeeded", "failed"}
          /\ (Exclusive \/ j \notin requeued')
          => jobs'[j].status \in {jobs[j].status, "deleted"}]_queueVars

(* Every job that is inserted is eventually settled: succeeded, out of     *)
(* attempts, or deleted; a crash or a failed commit never strands it.      *)
Settled(j) == j \in Ids /\ jobs[j].status \in {"succeeded", "failed", "deleted"}

EveryJobSettles ==
    \A j \in 1..MaxJobs : j \in Ids ~> Settled(j)

(* Refinement: forgetting the polling loop, the stale scan and the         *)
(* bookkeeping transactions, the queue of a single-worker backend is a     *)
(* WorkLease.  A RUNNING row without an executor is a lost lease.          *)
LeaseState(j) ==
    CASE Has(j, "pending")   -> "waiting"
      [] Has(j, "running")   -> IF Executors(j) = {} THEN "lost" ELSE "leased"
      [] Has(j, "succeeded") -> "done"
      [] Has(j, "failed")    -> "buried"
      [] Has(j, "deleted")   -> "gone"

Promise == INSTANCE WorkLease WITH
    Holders     <- Workers,
    MaxAttempts <- MaxRetries,
    item  <- [j \in Ids |-> [state |-> LeaseState(j), attempts |-> jobs[j].retries]],
    lease <- [w \in Workers |-> IF pc[w] \in {"execute", "succeed", "fail"}
                                THEN cur[w] ELSE 0]

ImplementsWorkLease == Promise!Spec

=============================================================================
