--------------------------- MODULE ProcessingJobs ---------------------------
(***************************************************************************)
(* The life of an upload: POST /api/runs writes a row of processing_jobs   *)
(* and hands it to a thread pool, whose workers claim it, drive the        *)
(* pipeline and report.  The rows survive the process; the requests, the   *)
(* pool's queue and the workers do not.  A job is named by the upload that *)
(* made it.  What a pipeline does to the ledger is InvoiceLedger; here it  *)
(* records a run or fails before it has.                                   *)
(*                                                                         *)
(* A graceful stop, which waits for the pool to drain, is a Restart with   *)
(* nothing left to lose.                                                   *)
(***************************************************************************)
EXTENDS Integers, Sequences, FiniteSets

CONSTANTS
    Uploads,       \* requests to POST /api/runs
    Keys,          \* idempotency keys: content, submitter and door
    JobWorkers,    \* config.job_workers()
    MaxFaults      \* bound: database calls that may fail unhandled

ASSUME JobsAssumption ==
    /\ IsFiniteSet(Uploads)
    /\ JobWorkers \in Nat \ {0}
    /\ MaxFaults \in Nat

JobStatuses == {"queued", "processing", "completed", "failed"}
JOB_ACTIVE  == {"queued", "processing"}

VARIABLES
    key,           \* the idempotency key of each upload
    request,       \* where each request thread is
    job,           \* the status in the row of each upload's job, if it has one
    interrupted,   \* the jobs closed out with the message of a restart
    pool,          \* the queue of the thread pool
    worker,        \* what a thread is doing with each job
    recorded,      \* the jobs whose pipeline has recorded a run that is on file
    faults         \* how many calls have failed

vars == <<key, request, job, interrupted, pool, worker, recorded, faults>>

(* A request that was refused got the RuntimeError of                      *)
(* create_processing_job; one that is lost died with the process.          *)
Requested == {"idle", "created", "conflict", "answered", "refused", "lost"}

Working == {"claiming", "reading", "recorded", "failing"}

Init ==
    /\ key \in [Uploads -> Keys]
    /\ request = [u \in Uploads |-> "idle"]
    /\ job = [u \in Uploads |-> "none"]
    /\ interrupted = {}
    /\ pool = <<>>
    /\ worker = [u \in Uploads |-> "none"]
    /\ recorded = {}
    /\ faults = 0

-----------------------------------------------------------------------------
(* Mutant of Active: the unique index covers the jobs nobody has taken.    *)
ActiveWhenQueued(u) == job[u] = "queued"

Active(u) == job[u] \in JOB_ACTIVE

SameKey(u) == {v \in Uploads : key[v] = key[u] /\ Active(v)}

(* INSERT ... ON CONFLICT DO NOTHING against the partial unique index.     *)
CreateJob(u) ==
    /\ request[u] = "idle"
    /\ \/ /\ SameKey(u) = {}
          /\ job' = [job EXCEPT ![u] = "queued"]
          /\ request' = [request EXCEPT ![u] = "created"]
       \/ /\ SameKey(u) # {}
          /\ request' = [request EXCEPT ![u] = "conflict"]
          /\ UNCHANGED job
    /\ UNCHANGED <<key, interrupted, pool, worker, recorded, faults>>

(* The loser reads the winner's row, a statement later: by then it may     *)
(* have settled, and there is nothing to answer with.                      *)
ReadExisting(u) ==
    /\ request[u] = "conflict"
    /\ request' = [request EXCEPT ![u] = IF SameKey(u) = {} THEN "refused" ELSE "answered"]
    /\ UNCHANGED <<key, job, interrupted, pool, worker, recorded, faults>>

Submit(u) ==
    /\ request[u] = "created"
    /\ pool' = Append(pool, u)
    /\ request' = [request EXCEPT ![u] = "answered"]
    /\ UNCHANGED <<key, job, interrupted, worker, recorded, faults>>

-----------------------------------------------------------------------------
(* Mutant of Busy: a thread that has completed a job is not given back.    *)
BusyOrCompleted == {u \in Uploads : worker[u] # "none" \/ job[u] = "completed"}

Busy == {u \in Uploads : worker[u] # "none"}

(* A thread takes the oldest job of the pool.                              *)
Take ==
    /\ pool # <<>>
    /\ Cardinality(Busy) < JobWorkers
    /\ worker' = [worker EXCEPT ![Head(pool)] = "claiming"]
    /\ pool' = Tail(pool)
    /\ UNCHANGED <<key, request, job, interrupted, recorded, faults>>

claim_processing_job(u) ==
    /\ worker[u] = "claiming"
    /\ IF job[u] = "queued"
       THEN /\ job' = [job EXCEPT ![u] = "processing"]
            /\ worker' = [worker EXCEPT ![u] = "reading"]
       ELSE /\ worker' = [worker EXCEPT ![u] = "none"]
            /\ UNCHANGED job
    /\ UNCHANGED <<key, request, interrupted, pool, recorded, faults>>

RecordRun(u) ==
    /\ worker[u] = "reading"
    /\ worker' = [worker EXCEPT ![u] = "recorded"]
    /\ recorded' = recorded \cup {u}
    /\ UNCHANGED <<key, request, job, interrupted, pool, faults>>

(* An exception, an error frame or no result, before there is a run.       *)
PipelineFails(u) ==
    /\ worker[u] = "reading"
    /\ worker' = [worker EXCEPT ![u] = "failing"]
    /\ UNCHANGED <<key, request, job, interrupted, pool, recorded, faults>>

(* Mutant of Settle: the run's verdict goes into the column of the status. *)
SettleWithVerdict(u, new) ==
    /\ job' = [job EXCEPT ![u] = IF @ = "none" THEN @ ELSE "NEEDS_REVIEW"]
    /\ worker' = [worker EXCEPT ![u] = "none"]
    /\ UNCHANGED <<key, request, interrupted, pool, recorded, faults>>

(* The thread ends: an UPDATE of the job's row, which a reset may have     *)
(* deleted, with no look at the status it had.                             *)
Settle(u, new) ==
    /\ job' = [job EXCEPT ![u] = IF @ = "none" THEN @ ELSE new]
    /\ worker' = [worker EXCEPT ![u] = "none"]
    /\ UNCHANGED <<key, request, interrupted, pool, recorded, faults>>

complete_processing_job(u) == worker[u] = "recorded" /\ Settle(u, "completed")

fail_processing_job(u) == worker[u] = "failing" /\ Settle(u, "failed")

(* A database call raises: claiming outside the try, so that the thread    *)
(* just ends; reporting a completion inside it, so that a failure is       *)
(* reported instead; or reporting the failure, which is given up.          *)
Fault(u) ==
    /\ faults < MaxFaults
    /\ faults' = faults + 1
    /\ worker[u] \in {"claiming", "recorded", "failing"}
    /\ worker' = [worker EXCEPT ![u] = IF @ = "recorded" THEN "failing" ELSE "none"]
    /\ UNCHANGED <<key, request, job, interrupted, pool, recorded>>

-----------------------------------------------------------------------------
(* Mutant of clear_run_history: the jobs are unlinked, not deleted.        *)
clear_runs_only ==
    /\ recorded # {}
    /\ recorded' = {}
    /\ UNCHANGED <<key, request, job, interrupted, pool, worker, faults>>

(* The demo reset deletes runs and jobs; the threads know nothing of it.   *)
clear_run_history ==
    /\ \E u \in Uploads : job[u] # "none"
    /\ job' = [u \in Uploads |-> "none"]
    /\ interrupted' = {}
    /\ recorded' = {}
    /\ UNCHANGED <<key, request, pool, worker, faults>>

(* Mutant of Interrupted: only what was being read is closed out.          *)
InterruptedInFlight == {u \in Uploads : job[u] = "processing"}

Interrupted == {u \in Uploads : Active(u)}

(* Mutant of ProcessDies: a second server process starts beside this one.  *)
ProcessStarts == UNCHANGED <<request, pool, worker>>

ProcessDies ==
    /\ request' = [u \in Uploads |-> IF request[u] \in {"created", "conflict"}
                                     THEN "lost" ELSE request[u]]
    /\ pool' = <<>>
    /\ worker' = [u \in Uploads |-> "none"]

(* abandon_stale_jobs, before the first request is served.                 *)
Restart ==
    /\ ProcessDies
    /\ job' = [u \in Uploads |-> IF u \in Interrupted THEN "failed" ELSE job[u]]
    /\ interrupted' = interrupted \cup Interrupted
    /\ UNCHANGED <<key, recorded, faults>>

(* It may fail too, and the server comes up all the same.                  *)
RestartUnreconciled ==
    /\ faults < MaxFaults
    /\ faults' = faults + 1
    /\ ProcessDies
    /\ UNCHANGED <<key, job, interrupted, recorded>>

Request(u) == CreateJob(u) \/ ReadExisting(u) \/ Submit(u)

Work(u) ==
    \/ claim_processing_job(u)
    \/ RecordRun(u)
    \/ PipelineFails(u)
    \/ complete_processing_job(u)
    \/ fail_processing_job(u)

Next ==
    \/ \E u \in Uploads : Request(u) \/ Work(u) \/ Fault(u)
    \/ Take
    \/ clear_run_history
    \/ Restart
    \/ RestartUnreconciled

Spec == Init /\ [][Next]_vars

(* A request that has written a job goes on to hand it over, and the       *)
(* pool's threads go on with what they have.                               *)
Fairness ==
    /\ \A u \in Uploads : WF_vars(Submit(u)) /\ WF_vars(Work(u))
    /\ WF_vars(Take)

FairSpec == Spec /\ Fairness
-----------------------------------------------------------------------------
(* Every variable has the shape of what it stands for.                     *)
TypeOK ==
    /\ key \in [Uploads -> Keys]
    /\ request \in [Uploads -> Requested]
    /\ job \in [Uploads -> JobStatuses \cup {"none"}]
    /\ interrupted \subseteq Uploads
    /\ pool \in Seq(Uploads)
    /\ worker \in [Uploads -> Working \cup {"none"}]
    /\ recorded \subseteq Uploads
    /\ faults \in 0..MaxFaults

Reading(u) == worker[u] \in {"reading", "recorded", "failing"}

(* One upload sent twice is never read by two threads at once, whichever   *)
(* of the two was first and whatever has been restarted, unless a reset    *)
(* deleted the job that is still being read.                               *)
NeverReadTwiceAtOnce ==
    \A u, v \in Uploads :
        /\ u # v /\ key[u] = key[v]
        /\ Reading(u) /\ job[u] # "none"
        /\ Reading(v) /\ job[v] # "none"
        => FALSE

(* A job that has settled stays as it is: the updates of a late thread     *)
(* look at no status, yet none ever finds a job that somebody has closed.  *)
SettledJobsStay ==
    [][\A u \in Uploads :
          job[u] \in {"completed", "failed"} => job'[u] \in {job[u], "none"}]_vars

Copies(u) == Cardinality({i \in DOMAIN pool : pool[i] = u})

(* Who will see to it that a job settles.                                  *)
HasOwner(u) ==
    \/ request[u] = "created"
    \/ Copies(u) > 0
    \/ worker[u] # "none"

(* No job is left live with nobody to settle it, unless a call has failed: *)
(* its key would turn every later upload of that file away.                *)
NoOrphans == faults = 0 => \A u \in Uploads : Active(u) => HasOwner(u)

(* A job that says it is completed has a run on file.                      *)
CompletedIsRecorded == \A u \in Uploads : job[u] = "completed" => u \in recorded

(* Every upload that was accepted comes to an end, completed or failed, so *)
(* long as no call fails.                                                  *)
EveryJobSettles ==
    \A u \in Uploads : Active(u) ~> (~Active(u) \/ faults > 0)
=============================================================================
