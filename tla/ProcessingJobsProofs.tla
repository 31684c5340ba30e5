------------------------- MODULE ProcessingJobsProofs -------------------------
(***************************************************************************)
(* Proofs about ProcessingJobs, for any uploads, keys and pool size.       *)
(***************************************************************************)
EXTENDS ProcessingJobs, FiniteSetTheorems, TLAPS

InPool(u) == \E i \in 1 .. Len(pool) : pool[i] = u

(* An upload stands in the pool's queue once.                              *)
QueuedOnce == \A i, j \in 1 .. Len(pool) : pool[i] = pool[j] => i = j

(* A job is with its request, in the queue, or with one thread, and its    *)
(* status is what that holder takes it to be, or the row has been deleted. *)
HolderKnows(u) ==
    /\ request[u] = "idle" => job[u] = "none"
    /\ request[u] = "created" => ~InPool(u) /\ worker[u] = "none" /\ job[u] \in {"queued", "none"}
    /\ InPool(u) => request[u] = "answered" /\ worker[u] = "none" /\ job[u] \in {"queued", "none"}
    /\ worker[u] # "none" => request[u] = "answered"
    /\ worker[u] = "claiming" => job[u] \in {"queued", "none"}
    /\ Reading(u) => job[u] \in {"processing", "none"}

(* A run that is about to be reported is on file, unless the job is gone.  *)
ReportIsTrue(u) == worker[u] = "recorded" /\ job[u] # "none" => u \in recorded

(* The partial unique index.                                               *)
KeysAreUnique == \A u, v \in Uploads : Active(u) /\ Active(v) /\ key[u] = key[v] => u = v

Owned(u) == request[u] = "created" \/ InPool(u) \/ worker[u] # "none"

JobsInv ==
    /\ TypeOK
    /\ QueuedOnce
    /\ \A u \in Uploads : HolderKnows(u) /\ ReportIsTrue(u)
    /\ KeysAreUnique
    /\ faults = 0 => \A u \in Uploads : Active(u) => Owned(u)
    /\ CompletedIsRecorded

USE DEF JOB_ACTIVE
-----------------------------------------------------------------------------
(* Init establishes it.                                                    *)
LEMMA InitJobs == Init => JobsInv
  <1> SUFFICES ASSUME Init PROVE JobsInv
    OBVIOUS
  <1>1. TypeOK
    BY JobsAssumption DEF Init, TypeOK, Requested, JobStatuses, Working
  <1>2. \A u : ~InPool(u)
    BY DEF Init, InPool
  <1> QED
    BY <1>1, <1>2
    DEF Init, JobsInv, QueuedOnce, HolderKnows, ReportIsTrue, KeysAreUnique, Active, Reading,
        CompletedIsRecorded

(* What a step that leaves the queue alone has to keep, upload by upload.  *)
LEMMA CreateKeeps ==
  ASSUME JobsInv, NEW u \in Uploads, CreateJob(u) PROVE JobsInv'
  <1>1. TypeOK'
    BY DEF JobsInv, TypeOK, CreateJob, Requested, JobStatuses
  <1>2. \A v : InPool(v)' = InPool(v)
    BY DEF InPool, CreateJob
  <1>3. QueuedOnce' /\ CompletedIsRecorded'
    BY DEF JobsInv, TypeOK, CreateJob, QueuedOnce, CompletedIsRecorded
  <1>4. \A v \in Uploads : HolderKnows(v)' /\ ReportIsTrue(v)'
    BY <1>2 DEF JobsInv, TypeOK, CreateJob, HolderKnows, ReportIsTrue, Reading
  <1>5. KeysAreUnique'
    BY DEF JobsInv, TypeOK, CreateJob, KeysAreUnique, Active, SameKey
  <1>6. (faults = 0 => \A v \in Uploads : Active(v) => Owned(v))'
    BY <1>2 DEF JobsInv, TypeOK, CreateJob, Active, Owned
  <1> QED
    BY <1>1, <1>3, <1>4, <1>5, <1>6 DEF JobsInv

LEMMA ReadExistingKeeps ==
  ASSUME JobsInv, NEW u \in Uploads, ReadExisting(u) PROVE JobsInv'
  <1>1. TypeOK'
    BY DEF JobsInv, TypeOK, ReadExisting, Requested
  <1>2. \A v : InPool(v)' = InPool(v)
    BY DEF InPool, ReadExisting
  <1>3. QueuedOnce' /\ CompletedIsRecorded' /\ KeysAreUnique'
    BY DEF JobsInv, ReadExisting, QueuedOnce, CompletedIsRecorded, KeysAreUnique, Active
  <1>4. \A v \in Uploads : HolderKnows(v)' /\ ReportIsTrue(v)'
    BY <1>2 DEF JobsInv, TypeOK, ReadExisting, HolderKnows, ReportIsTrue, Reading
  <1>6. (faults = 0 => \A v \in Uploads : Active(v) => Owned(v))'
    BY <1>2 DEF JobsInv, TypeOK, ReadExisting, Active, Owned
  <1> QED
    BY <1>1, <1>3, <1>4, <1>6 DEF JobsInv

LEMMA SubmitKeeps ==
  ASSUME JobsInv, NEW u \in Uploads, Submit(u) PROVE JobsInv'
  <1>0. pool \in Seq(Uploads) /\ pool' = Append(pool, u) /\ ~InPool(u)
    BY DEF JobsInv, TypeOK, Submit, HolderKnows
  <1>1. TypeOK'
    BY <1>0 DEF JobsInv, TypeOK, Submit, Requested
  <1>2. /\ Len(pool') = Len(pool) + 1 /\ Len(pool) \in Nat
        /\ \A i \in 1 .. Len(pool) : pool'[i] = pool[i]
        /\ pool'[Len(pool) + 1] = u
    BY <1>0
  <1>3. \A v : InPool(v)' <=> InPool(v) \/ v = u
    BY <1>2 DEF InPool
  <1>4. QueuedOnce'
    BY <1>0, <1>2 DEF JobsInv, QueuedOnce, InPool
  <1>5. CompletedIsRecorded' /\ KeysAreUnique'
    BY DEF JobsInv, Submit, CompletedIsRecorded, KeysAreUnique, Active
  <1>6. \A v \in Uploads : HolderKnows(v)' /\ ReportIsTrue(v)'
    BY <1>3 DEF JobsInv, TypeOK, Submit, HolderKnows, ReportIsTrue, Reading
  <1>7. (faults = 0 => \A v \in Uploads : Active(v) => Owned(v))'
    BY <1>3 DEF JobsInv, TypeOK, Submit, Active, Owned
  <1> QED
    BY <1>1, <1>4, <1>5, <1>6, <1>7 DEF JobsInv

(* A thread takes what is at the head: the queue no longer has it.         *)
LEMMA TakeKeeps == JobsInv /\ Take => JobsInv'
  <1> SUFFICES ASSUME JobsInv, Take PROVE JobsInv'
    OBVIOUS
  <1> DEFINE u == Head(pool)
  <1>0. /\ pool \in Seq(Uploads) /\ pool # <<>> /\ pool' = Tail(pool)
        /\ worker' = [worker EXCEPT ![u] = "claiming"]
        /\ UNCHANGED <<key, request, job, interrupted, recorded, faults>>
    BY DEF JobsInv, TypeOK, Take
  <1>1. /\ Len(pool) \in Nat \ {0} /\ Len(pool') = Len(pool) - 1 /\ u = pool[1] /\ u \in Uploads
        /\ \A i \in 1 .. Len(pool) - 1 : pool'[i] = pool[i + 1]
        /\ pool' \in Seq(Uploads)
    BY <1>0
  <1>2. InPool(u)
    BY <1>1 DEF InPool
  <1>3. TypeOK'
    BY <1>0, <1>1 DEF JobsInv, TypeOK, Working
  <1>4. QueuedOnce'
    <2> SUFFICES ASSUME NEW i \in 1 .. Len(pool'), NEW j \in 1 .. Len(pool'), pool'[i] = pool'[j]
                 PROVE  i = j
      BY DEF QueuedOnce
    <2>1. i + 1 \in 1 .. Len(pool) /\ j + 1 \in 1 .. Len(pool) /\ pool[i + 1] = pool[j + 1]
      BY <1>1
    <2> QED
      BY <1>1, <2>1 DEF JobsInv, QueuedOnce
  <1>5. \A v : InPool(v)' <=> InPool(v) /\ v # u
    <2> TAKE v
    <2>1. ASSUME NEW i \in 1 .. Len(pool'), pool'[i] = v PROVE InPool(v) /\ v # u
      <3>1. i + 1 \in 1 .. Len(pool) /\ pool[i + 1] = v /\ i + 1 # 1
        BY <1>1, <2>1
      <3> QED
        BY <1>1, <3>1 DEF InPool, JobsInv, QueuedOnce
    <2>2. ASSUME NEW i \in 1 .. Len(pool), pool[i] = v, v # u PROVE InPool(v)'
      <3>1. i - 1 \in 1 .. Len(pool') /\ pool'[i - 1] = v
        BY <1>1, <2>2
      <3> QED
        BY <3>1 DEF InPool
    <2> QED
      BY <2>1, <2>2 DEF InPool
  <1> HIDE DEF u
  <1>6. CompletedIsRecorded' /\ KeysAreUnique'
    BY <1>0 DEF JobsInv, CompletedIsRecorded, KeysAreUnique, Active
  <1>7. \A v \in Uploads : HolderKnows(v)' /\ ReportIsTrue(v)'
    BY <1>0, <1>1, <1>2, <1>5 DEF JobsInv, TypeOK, HolderKnows, ReportIsTrue, Reading
  <1>8. (faults = 0 => \A v \in Uploads : Active(v) => Owned(v))'
    BY <1>0, <1>1, <1>5 DEF JobsInv, TypeOK, Active, Owned
  <1> QED
    BY <1>3, <1>4, <1>6, <1>7, <1>8 DEF JobsInv

(* The steps of a thread leave the queue and the requests alone.           *)
LEMMA WorkKeeps ==
  ASSUME JobsInv, NEW u \in Uploads, Work(u) \/ Fault(u) PROVE JobsInv'
  <1>0. /\ UNCHANGED <<key, request, pool>> /\ \A v : InPool(v)' = InPool(v)
        /\ worker[u] # "none"
    BY DEF Work, Fault, claim_processing_job, RecordRun, PipelineFails, complete_processing_job,
           fail_processing_job, Settle, InPool
  <1>1. TypeOK'
    BY JobsAssumption
    DEF JobsInv, TypeOK, JobStatuses, Working, Work, Fault, claim_processing_job, RecordRun,
        PipelineFails, complete_processing_job, fail_processing_job, Settle
  <1>2. QueuedOnce'
    BY <1>0 DEF JobsInv, QueuedOnce
  <1>3. \A v \in Uploads : v # u => job'[v] = job[v] /\ worker'[v] = worker[v]
    BY DEF JobsInv, TypeOK, Work, Fault, claim_processing_job, RecordRun,
           PipelineFails, complete_processing_job, fail_processing_job, Settle
  <1>4. recorded \subseteq recorded'
    BY DEF Work, Fault, claim_processing_job, RecordRun,
           PipelineFails, complete_processing_job, fail_processing_job, Settle
  <1>5. HolderKnows(u) /\ ReportIsTrue(u) /\ request[u] = "answered" /\ ~InPool(u)
    BY <1>0 DEF JobsInv, HolderKnows
  <1>6. /\ HolderKnows(u)' /\ ReportIsTrue(u)'
        /\ job'[u] = "completed" => u \in recorded' \/ job[u] = "completed"
        /\ Active(u)' => Active(u)
        /\ Active(u)' => worker'[u] # "none" \/ faults' # 0
    BY <1>0, <1>5
    DEF JobsInv, TypeOK, HolderKnows, ReportIsTrue, Reading, Active, Work, Fault,
        claim_processing_job, RecordRun, PipelineFails, complete_processing_job,
        fail_processing_job, Settle
  <1>7. \A v \in Uploads : HolderKnows(v)' /\ ReportIsTrue(v)'
    BY <1>0, <1>3, <1>4, <1>6 DEF JobsInv, HolderKnows, ReportIsTrue, Reading
  <1>8. CompletedIsRecorded'
    BY <1>3, <1>4, <1>6 DEF JobsInv, CompletedIsRecorded
  <1>9. KeysAreUnique'
    BY <1>0, <1>3, <1>6 DEF JobsInv, KeysAreUnique, Active
  <1>10. faults' = faults \/ faults' # 0
    BY DEF JobsInv, TypeOK, Work, Fault, claim_processing_job, RecordRun,
           PipelineFails, complete_processing_job, fail_processing_job, Settle
  <1>11. (faults = 0 => \A v \in Uploads : Active(v) => Owned(v))'
    BY <1>0, <1>3, <1>6, <1>10 DEF JobsInv, Active, Owned
  <1> QED
    BY <1>1, <1>2, <1>7, <1>8, <1>9, <1>11 DEF JobsInv

(* The reset deletes every row and run.                                    *)
LEMMA ResetKeeps == JobsInv /\ clear_run_history => JobsInv'
  <1> SUFFICES ASSUME JobsInv, clear_run_history PROVE JobsInv'
    OBVIOUS
  <1>1. TypeOK'
    BY DEF JobsInv, TypeOK, clear_run_history, JobStatuses
  <1>2. \A v : InPool(v)' = InPool(v)
    BY DEF InPool, clear_run_history
  <1>3. \A v \in Uploads : job'[v] = "none"
    BY DEF clear_run_history
  <1>4. QueuedOnce' /\ \A v \in Uploads : HolderKnows(v)' /\ ReportIsTrue(v)'
    BY <1>2, <1>3 DEF JobsInv, clear_run_history, QueuedOnce, HolderKnows, ReportIsTrue, Reading
  <1> QED
    BY <1>1, <1>3, <1>4 DEF JobsInv, KeysAreUnique, Active, CompletedIsRecorded

(* The process dies, and with it the queue and the threads; its jobs are   *)
(* closed out, or left to be if that fails.                                *)
LEMMA RestartKeeps == JobsInv /\ (Restart \/ RestartUnreconciled) => JobsInv'
  <1> SUFFICES ASSUME JobsInv, Restart \/ RestartUnreconciled PROVE JobsInv'
    OBVIOUS
  <1>0. ProcessDies
    BY DEF Restart, RestartUnreconciled
  <1>1. /\ UNCHANGED <<key, recorded>>
        /\ \A v \in Uploads : job'[v] = job[v] \/ (Active(v) /\ job'[v] = "failed")
        /\ faults' = 0 => \A v \in Uploads : ~Active(v)'
    BY DEF JobsInv, TypeOK, Restart, RestartUnreconciled, Interrupted, Active
  <1>2. TypeOK'
    <2>1. request' \in [Uploads -> Requested] /\ pool' \in Seq(Uploads)
          /\ worker' \in [Uploads -> Working \cup {"none"}]
      BY <1>0 DEF ProcessDies, JobsInv, TypeOK, Requested
    <2>2. job' \in [Uploads -> JobStatuses \cup {"none"}] /\ interrupted' \subseteq Uploads
      BY DEF JobsInv, TypeOK, JobStatuses, Restart, RestartUnreconciled, Interrupted
    <2>3. faults' \in 0 .. MaxFaults
      BY JobsAssumption DEF JobsInv, TypeOK, Restart, RestartUnreconciled
    <2> QED
      BY <2>1, <2>2, <2>3, <1>1 DEF JobsInv, TypeOK
  <1>3. \A v : ~InPool(v)'
    BY <1>0 DEF ProcessDies, InPool
  <1>4. QueuedOnce'
    BY <1>0 DEF ProcessDies, QueuedOnce
  <1>5. \A v \in Uploads : HolderKnows(v)' /\ ReportIsTrue(v)'
    BY <1>0, <1>1, <1>3 DEF JobsInv, TypeOK, ProcessDies, HolderKnows, ReportIsTrue, Reading, Active
  <1>6. KeysAreUnique' /\ CompletedIsRecorded'
    BY <1>1 DEF JobsInv, KeysAreUnique, Active, CompletedIsRecorded
  <1> QED
    BY <1>1, <1>2, <1>4, <1>5, <1>6 DEF JobsInv

(* Every step of the module keeps it.                                      *)
LEMMA NextJobs == JobsInv /\ [Next]_vars => JobsInv'
  <1> SUFFICES ASSUME JobsInv, [Next]_vars PROVE JobsInv'
    OBVIOUS
  <1>1. CASE UNCHANGED vars
    <2>1. UNCHANGED <<key, request, job, interrupted, pool, worker, recorded, faults>>
      BY <1>1 DEF vars
    <2> QED
      BY <2>1 DEF JobsInv, TypeOK, QueuedOnce, HolderKnows, ReportIsTrue, KeysAreUnique, Active,
                  Owned, InPool, Reading, CompletedIsRecorded
  <1> QED
    BY <1>1, CreateKeeps, ReadExistingKeeps, SubmitKeeps, WorkKeeps, TakeKeeps, ResetKeeps,
       RestartKeeps DEF Next, Request

(* The inductive invariant: a job is held in one place, and its status is  *)
(* what that place takes it to be.                                         *)
THEOREM JobsInvariant == Spec => []JobsInv
  BY InitJobs, NextJobs, PTL DEF Spec

-----------------------------------------------------------------------------
(* The rows, the queue and the threads keep their types.                   *)
THEOREM JobsTyped == Spec => []TypeOK
  <1>1. JobsInv => TypeOK
    BY DEF JobsInv
  <1> QED
    BY <1>1, JobsInvariant, PTL

(* One upload sent any number of times is read by one thread at a time,    *)
(* unless a reset deleted the job that is being read.                      *)
THEOREM OneReader == Spec => []NeverReadTwiceAtOnce
  <1>1. JobsInv => NeverReadTwiceAtOnce
    BY DEF JobsInv, NeverReadTwiceAtOnce, HolderKnows, KeysAreUnique, Active
  <1> QED
    BY <1>1, JobsInvariant, PTL

(* A place in the queue is counted by Copies.                              *)
LEMMA CopiesCountsPlaces ==
  ASSUME JobsInv, NEW u \in Uploads, InPool(u) PROVE Copies(u) > 0
  <1> DEFINE places == {i \in DOMAIN pool : pool[i] = u}
  <1>1. DOMAIN pool = 1 .. Len(pool) /\ Len(pool) \in Nat
    BY DEF JobsInv, TypeOK
  <1>2. IsFiniteSet(places)
    <2>1. IsFiniteSet(1 .. Len(pool)) /\ places \subseteq 1 .. Len(pool)
      BY <1>1, FS_Interval
    <2> HIDE DEF places
    <2> QED
      BY <2>1, FS_Subset
  <1>3. places # {}
    BY <1>1 DEF InPool
  <1>4. Cardinality(places) \in Nat /\ Cardinality(places) # 0
    BY <1>2, <1>3, FS_CardinalityType, FS_EmptySet
  <1>5. Copies(u) = Cardinality(places)
    BY Zenon DEF Copies
  <1> HIDE DEF places
  <1> QED
    BY <1>4, <1>5

(* No job is left live with nobody to settle it, so long as no call fails. *)
THEOREM EveryLiveJobIsOwned == Spec => []NoOrphans
  <1>1. JobsInv => NoOrphans
    BY CopiesCountsPlaces DEF JobsInv, NoOrphans, Owned, HasOwner
  <1> QED
    BY <1>1, JobsInvariant, PTL

(* A job that says it is completed has a run on file.                      *)
THEOREM CompletedHasItsRun == Spec => []CompletedIsRecorded
  <1>1. JobsInv => CompletedIsRecorded
    BY DEF JobsInv
  <1> QED
    BY <1>1, JobsInvariant, PTL

(* No late thread and no restart changes a job that has settled.           *)
THEOREM SettledIsFinal == Spec => SettledJobsStay
  <1>1. ASSUME JobsInv, [Next]_vars
        PROVE  [\A u \in Uploads :
                   job[u] \in {"completed", "failed"} => job'[u] \in {job[u], "none"}]_vars
    <2> SUFFICES ASSUME Next, NEW v \in Uploads, job[v] \in {"completed", "failed"}
                 PROVE  job'[v] \in {job[v], "none"}
      BY <1>1
    <2>1. HolderKnows(v) /\ TypeOK
      BY <1>1 DEF JobsInv
    <2>2. ASSUME NEW u \in Uploads, Request(u) \/ Work(u) \/ Fault(u)
          PROVE  job'[v] \in {job[v], "none"}
      BY <2>1, <2>2
      DEF TypeOK, HolderKnows, Reading, Request, CreateJob, ReadExisting, Submit, Work, Fault,
          claim_processing_job, RecordRun, PipelineFails, complete_processing_job,
          fail_processing_job, Settle
    <2>3. CASE Take \/ clear_run_history \/ Restart \/ RestartUnreconciled
      BY <2>3 DEF Take, clear_run_history, Restart, RestartUnreconciled, Interrupted, Active
    <2> QED
      BY <2>2, <2>3 DEF Next
  <1> QED
    BY <1>1, JobsInvariant, PTL DEF Spec, SettledJobsStay
=============================================================================
