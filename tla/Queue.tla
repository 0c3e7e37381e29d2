------------------------------- MODULE Queue -------------------------------
(***************************************************************************)
(* The durable job queue of the companion service in its default mode      *)
(* (QUEUE_BACKEND=db): the tables queue_items, jobs, queue_attempts and    *)
(* dead_letter_items, the worker processes that claim and run items        *)
(* (service/app/worker.py), and the two endpoints that write the same rows *)
(* (jobs_enqueue and jobs_cancel of service/app/main.py).                  *)
(*                                                                         *)
(* One action is one committed transaction: execute() and fetch_one() of   *)
(* db.py commit each statement by itself, so a worker thread that runs     *)
(* _process_claimed_item goes through the points of PC below and anything  *)
(* else may happen between two of them.  Clock readings are replaced by    *)
(* the outcome of the comparisons the SQL makes: a lease is live or lapsed *)
(* and an item is available or not, and time moves them.                   *)
(***************************************************************************)
EXTENDS Integers, Sequences

CONSTANTS
  Jobs,        \* jobs that may be submitted, each with its one queue item
  Threads,     \* pool threads of all the worker processes
  Workers,     \* worker processes (run_forever)
  WorkerOf,    \* the process a thread belongs to
  Priority,    \* queue_items.priority, smaller is claimed first
  MaxRetries,  \* max_retries of a job
  MaxFaults,   \* bound on crashes and failing database calls
  NoJob        \* what an idle thread works on

ASSUME QueueAssumption ==
  /\ WorkerOf \in [Threads -> Workers]
  /\ Priority \in [Jobs -> Int]
  /\ MaxRetries \in [Jobs -> Nat]
  /\ MaxFaults \in Nat
  /\ NoJob \notin Jobs

VARIABLES
  itemStatus,   \* queue_items.status, "absent" before the row exists
  retryCount,   \* queue_items.retry_count
  lease,        \* queue_items.lease_until: NULL, in the future, in the past
  available,    \* queue_items.available_at <= now()
  jobStatus,    \* jobs.status
  arrivals,     \* jobs in the order of queue_items.created_at
  failures,     \* rows of queue_attempts with status 'failed'
  deadLetters,  \* rows of dead_letter_items
  cancel,       \* the (single) call of jobs_cancel for the job
  pc,           \* where a thread is in _process_claimed_item
  job,          \* the item a thread works on
  snapshot,     \* item['retry_count'] as the claim returned it
  faults        \* faults used up

(* History variables: they record what happened and guard nothing. *)
VARIABLES
  worked,       \* jobs whose process() has returned at least once
  overrun,      \* jobs whose lease ran out under a thread at work on them
  overlap,      \* jobs claimed while another thread had not left them
  torn          \* jobs whose sequence of updates was cut by a fault

itemVars   == <<itemStatus, retryCount, lease, available>>
threadVars == <<pc, job, snapshot>>
logVars    == <<failures, deadLetters>>
history    == <<worked, overrun, overlap, torn>>
vars == <<itemVars, jobStatus, arrivals, logVars, cancel, threadVars, faults,
          history>>

ItemStatus == {"absent", "queued", "running", "completed", "dead_letter",
               "cancelled"}
JobStatus  == {"absent", "queued", "completed", "failed", "cancelled"}

Completing == {"complete_item", "complete_job", "complete_run"}
Failing    == {"mark_failed", "fail_item", "fail_job", "dead_letter"}
PC == {"idle", "claimed", "process", "mark_completed"} \cup Completing \cup Failing

(* A thread holds its item until its last write to the queue_items row.    *)
HoldingPC == PC \ {"idle", "fail_job", "dead_letter"}

WorksOn(t, j) == pc[t] # "idle" /\ job[t] = j
Holds(t, j)   == pc[t] \in HoldingPC /\ job[t] = j

-----------------------------------------------------------------------------
Init ==
  /\ itemStatus  = [j \in Jobs |-> "absent"]
  /\ retryCount  = [j \in Jobs |-> 0]
  /\ lease       = [j \in Jobs |-> "none"]
  /\ available   = [j \in Jobs |-> FALSE]
  /\ jobStatus   = [j \in Jobs |-> "absent"]
  /\ arrivals    = <<>>
  /\ failures    = [j \in Jobs |-> 0]
  /\ deadLetters = [j \in Jobs |-> 0]
  /\ cancel      = [j \in Jobs |-> "none"]
  /\ pc          = [t \in Threads |-> "idle"]
  /\ job         = [t \in Threads |-> NoJob]
  /\ snapshot    = [t \in Threads |-> 0]
  /\ faults      = 0
  /\ worked = {} /\ overrun = {} /\ overlap = {} /\ torn = {}

-----------------------------------------------------------------------------
(* The service's endpoints. *)

(* jobs_enqueue inserts the jobs row and its queue_items row in one        *)
(* statement; schedule_at puts available_at in the future or leaves now(). *)
Enqueue(j) ==
  /\ itemStatus[j] = "absent"
  /\ itemStatus' = [itemStatus EXCEPT ![j] = "queued"]
  /\ jobStatus'  = [jobStatus EXCEPT ![j] = "queued"]
  /\ \E due \in BOOLEAN : available' = [available EXCEPT ![j] = due]
  /\ arrivals' = Append(arrivals, j)
  /\ UNCHANGED <<retryCount, lease, logVars, cancel, threadVars, faults, history>>

(* jobs_cancel: the jobs row first, then the queue_items row, neither      *)
(* looking at the status it replaces.  One call per job is modelled.       *)
CancelJob(j) ==
  /\ itemStatus[j] # "absent"
  /\ cancel[j] = "none"
  /\ cancel'    = [cancel EXCEPT ![j] = "job_done"]
  /\ jobStatus' = [jobStatus EXCEPT ![j] = "cancelled"]
  /\ UNCHANGED <<itemVars, arrivals, logVars, threadVars, faults, history>>

CancelItem(j) ==
  /\ cancel[j] = "job_done"
  /\ cancel'     = [cancel EXCEPT ![j] = "done"]
  /\ itemStatus' = [itemStatus EXCEPT ![j] = "cancelled"]
  /\ lease'      = [lease EXCEPT ![j] = "none"]
  /\ UNCHANGED <<retryCount, available, jobStatus, arrivals, logVars, threadVars,
                 faults, history>>

(* The second statement of jobs_cancel raises: the caller gets an error.   *)
CancelRaises(j) ==
  /\ cancel[j] = "job_done"
  /\ faults < MaxFaults
  /\ faults' = faults + 1
  /\ cancel' = [cancel EXCEPT ![j] = "half"]
  /\ UNCHANGED <<itemVars, jobStatus, arrivals, logVars, threadVars, history>>

-----------------------------------------------------------------------------
(* Time. *)

LeaseLapses(j) ==
  /\ lease[j] = "live"
  /\ lease'   = [lease EXCEPT ![j] = "lapsed"]
  /\ overrun' = IF \E t \in Threads : Holds(t, j) THEN overrun \cup {j} ELSE overrun
  /\ UNCHANGED <<itemStatus, retryCount, available, jobStatus, arrivals, logVars,
                 cancel, threadVars, faults, worked, overlap, torn>>

BecomesAvailable(j) ==
  /\ itemStatus[j] = "queued" /\ ~available[j]
  /\ available' = [available EXCEPT ![j] = TRUE]
  /\ UNCHANGED <<itemStatus, retryCount, lease, jobStatus, arrivals, logVars, cancel,
                 threadVars, faults, history>>

-----------------------------------------------------------------------------
(* Claiming: CLAIM_SQL puts the items whose lease has lapsed back and      *)
(* claims one item, both against the same snapshot, so that an item it     *)
(* recovers is not a candidate of the same statement.                      *)

(* Mutants of Expired and Claimable. *)
ExpiredWhileLive(j) == itemStatus[j] = "running" /\ lease[j] # "none"
ClaimableAfterDeath(j) ==
  itemStatus[j] \in {"queued", "dead_letter"} /\ available[j] /\ lease[j] # "live"

Expired(j)   == itemStatus[j] = "running" /\ lease[j] = "lapsed"
Claimable(j) == itemStatus[j] = "queued" /\ available[j] /\ lease[j] # "live"

CreatedBefore(j, k) ==
  \E m, n \in DOMAIN arrivals : m < n /\ arrivals[m] = j /\ arrivals[n] = k
(* Mutant of Before: two items of the same priority wait for each other. *)
BeforeOrTied(j, k) == Priority[j] <= Priority[k]
Before(j, k) ==
  \/ Priority[j] < Priority[k]
  \/ Priority[j] = Priority[k] /\ CreatedBefore(j, k)

(* FOR UPDATE SKIP LOCKED passes over a row another transaction is about   *)
(* to commit a change of.                                                  *)
RowBusy(j) ==
  \/ cancel[j] = "job_done"
  \/ \E t \in Threads : job[t] = j /\ pc[t] \in {"complete_item", "fail_item"}

Candidate(j) ==
  /\ Claimable(j)
  /\ \A k \in Jobs : Claimable(k) /\ Before(k, j) => RowBusy(k)

Claim(t, j) ==
  /\ pc[t] = "idle"
  /\ Candidate(j)
  /\ itemStatus' = [k \in Jobs |-> IF k = j THEN "running"
                                   ELSE IF Expired(k) THEN "queued"
                                   ELSE itemStatus[k]]
  /\ lease' = [k \in Jobs |-> IF k = j THEN "live"
                              ELSE IF Expired(k) THEN "none"
                              ELSE lease[k]]
  /\ available' = [k \in Jobs |-> available[k] \/ Expired(k)]
  /\ pc'       = [pc EXCEPT ![t] = "claimed"]
  /\ job'      = [job EXCEPT ![t] = j]
  /\ snapshot' = [snapshot EXCEPT ![t] = retryCount[j]]
  /\ overlap'  = IF \E u \in Threads : WorksOn(u, j) THEN overlap \cup {j} ELSE overlap
  /\ UNCHANGED <<retryCount, jobStatus, arrivals, logVars, cancel, faults, worked,
                 overrun, torn>>

(* The same statement when it finds nothing to claim: it only recovers.    *)
Recover(t) ==
  /\ pc[t] = "idle"
  /\ \E j \in Jobs : Expired(j)
  /\ \A j \in Jobs : Claimable(j) => RowBusy(j)
  /\ itemStatus' = [k \in Jobs |-> IF Expired(k) THEN "queued" ELSE itemStatus[k]]
  /\ lease'      = [k \in Jobs |-> IF Expired(k) THEN "none" ELSE lease[k]]
  /\ available'  = [k \in Jobs |-> available[k] \/ Expired(k)]
  /\ UNCHANGED <<retryCount, jobStatus, arrivals, logVars, cancel, threadVars, faults,
                 history>>

(* run_forever hands the batch that claim_batch returned to the pool ...   *)
Submit(w) ==
  /\ \E t \in Threads : WorkerOf[t] = w /\ pc[t] = "claimed"
  /\ pc' = [t \in Threads |-> IF WorkerOf[t] = w /\ pc[t] = "claimed" THEN "process"
                              ELSE pc[t]]
  /\ UNCHANGED <<itemVars, jobStatus, arrivals, logVars, cancel, job, snapshot, faults,
                 history>>

Vacate(T) ==
  /\ pc'       = [t \in Threads |-> IF t \in T THEN "idle" ELSE pc[t]]
  /\ job'      = [t \in Threads |-> IF t \in T THEN NoJob ELSE job[t]]
  /\ snapshot' = [t \in Threads |-> IF t \in T THEN 0 ELSE snapshot[t]]

(* ... or a later claim of the batch raises and the items already claimed  *)
(* are forgotten, still 'running' in the table.                            *)
ClaimRaises(w) ==
  /\ \E t \in Threads : WorkerOf[t] = w /\ pc[t] = "claimed"
  /\ faults < MaxFaults
  /\ faults' = faults + 1
  /\ Vacate({t \in Threads : WorkerOf[t] = w /\ pc[t] = "claimed"})
  /\ UNCHANGED <<itemVars, jobStatus, arrivals, logVars, cancel, history>>

-----------------------------------------------------------------------------
(* _process_claimed_item, one transaction at a time. *)

Goto(t, from, to) ==
  /\ pc[t] = from
  /\ pc' = [pc EXCEPT ![t] = to]
  /\ UNCHANGED <<job, snapshot>>

(* Mutant of Leave: the finished item stays assigned to the thread. *)
LeaveAssigned(t, from) ==
  pc[t] = from /\ pc' = [pc EXCEPT ![t] = "idle"] /\ UNCHANGED <<job, snapshot>>

Leave(t, from) == pc[t] = from /\ Vacate({t})

ProcessReturns(t) ==
  /\ Goto(t, "process", "mark_completed")
  /\ worked' = worked \cup {job[t]}
  /\ UNCHANGED <<itemVars, jobStatus, arrivals, logVars, cancel, faults, overrun,
                 overlap, torn>>

ProcessRaises(t) ==
  /\ Goto(t, "process", "mark_failed")
  /\ UNCHANGED <<itemVars, jobStatus, arrivals, logVars, cancel, faults, history>>

MarkCompleted(t) ==
  /\ Goto(t, "mark_completed", "complete_item")
  /\ UNCHANGED <<itemVars, jobStatus, arrivals, logVars, cancel, faults, history>>

(* complete(): queue_items, jobs, job_runs.  No statement looks at the     *)
(* status or the worker_id of the row it writes.                           *)
CompleteItem(t) ==
  /\ Goto(t, "complete_item", "complete_job")
  /\ itemStatus' = [itemStatus EXCEPT ![job[t]] = "completed"]
  /\ lease'      = [lease EXCEPT ![job[t]] = "none"]
  /\ UNCHANGED <<retryCount, available, jobStatus, arrivals, logVars, cancel, faults,
                 history>>

CompleteJob(t) ==
  /\ Goto(t, "complete_job", "complete_run")
  /\ jobStatus' = [jobStatus EXCEPT ![job[t]] = "completed"]
  /\ UNCHANGED <<itemVars, arrivals, logVars, cancel, faults, history>>

CompleteRun(t) ==
  /\ Leave(t, "complete_run")
  /\ UNCHANGED <<itemVars, jobStatus, arrivals, logVars, cancel, faults, history>>

MarkFailed(t) ==
  /\ Goto(t, "mark_failed", "fail_item")
  /\ failures' = [failures EXCEPT ![job[t]] = @ + 1]
  /\ UNCHANGED <<itemVars, jobStatus, arrivals, deadLetters, cancel, faults, history>>

(* fail() decides from the retry count the claim returned, not the row's.  *)
(* Mutant of ShouldRetry: off by one. *)
RetryOnceMore(t) == snapshot[t] <= MaxRetries[job[t]]

ShouldRetry(t) == snapshot[t] + 1 <= MaxRetries[job[t]]

FailItem(t) ==
  /\ Goto(t, "fail_item", "fail_job")
  /\ retryCount' = [retryCount EXCEPT ![job[t]] = @ + 1]
  /\ itemStatus' = [itemStatus EXCEPT ![job[t]] =
                      IF ShouldRetry(t) THEN "queued" ELSE "dead_letter"]
  /\ available'  = [available EXCEPT ![job[t]] = IF ShouldRetry(t) THEN FALSE ELSE @]
  /\ lease'      = [lease EXCEPT ![job[t]] = "none"]
  /\ UNCHANGED <<jobStatus, arrivals, logVars, cancel, faults, history>>

FailJobRetry(t) ==
  /\ Leave(t, "fail_job")
  /\ ShouldRetry(t)
  /\ jobStatus' = [jobStatus EXCEPT ![job[t]] = "queued"]
  /\ UNCHANGED <<itemVars, arrivals, logVars, cancel, faults, history>>

(* Mutant of FailJobExhausted: the jobs row is forgotten. *)
FailJobForgotten(t) ==
  /\ Goto(t, "fail_job", "dead_letter")
  /\ ~ShouldRetry(t)
  /\ UNCHANGED <<itemVars, jobStatus, arrivals, logVars, cancel, faults, history>>

FailJobExhausted(t) ==
  /\ Goto(t, "fail_job", "dead_letter")
  /\ ~ShouldRetry(t)
  /\ jobStatus' = [jobStatus EXCEPT ![job[t]] = "failed"]
  /\ UNCHANGED <<itemVars, arrivals, logVars, cancel, faults, history>>

InsertDeadLetter(t) ==
  /\ Leave(t, "dead_letter")
  /\ deadLetters' = [deadLetters EXCEPT ![job[t]] = @ + 1]
  /\ UNCHANGED <<itemVars, jobStatus, arrivals, failures, cancel, faults, history>>

-----------------------------------------------------------------------------
(* Faults. *)

(* The points at which some, but not all, of the updates that settle an    *)
(* item have been committed.                                               *)
MidUpdate == {"complete_job", "complete_run", "fail_job", "dead_letter"}

(* A statement raises without committing: inside the try the except branch *)
(* takes over, inside the except branch the exception ends the thread.     *)
StatementRaises(t) ==
  /\ pc[t] \in {"mark_completed"} \cup Completing \cup Failing
  /\ faults < MaxFaults
  /\ faults' = faults + 1
  /\ IF pc[t] \in Failing THEN Vacate({t}) ELSE Goto(t, pc[t], "mark_failed")
  /\ torn' = IF pc[t] \in MidUpdate THEN torn \cup {job[t]} ELSE torn
  /\ UNCHANGED <<itemVars, jobStatus, arrivals, logVars, cancel, worked, overrun, overlap>>

(* A worker process dies and is started again. *)
Crash(w) ==
  /\ \E t \in Threads : WorkerOf[t] = w /\ pc[t] # "idle"
  /\ faults < MaxFaults
  /\ faults' = faults + 1
  /\ Vacate({t \in Threads : WorkerOf[t] = w})
  /\ torn' = torn \cup {job[t] : t \in {u \in Threads : WorkerOf[u] = w
                                                        /\ pc[u] \in MidUpdate}}
  /\ UNCHANGED <<itemVars, jobStatus, arrivals, logVars, cancel, worked, overrun, overlap>>

-----------------------------------------------------------------------------
ThreadStep(t) ==
  \/ ProcessReturns(t) \/ ProcessRaises(t)
  \/ MarkCompleted(t) \/ CompleteItem(t) \/ CompleteJob(t) \/ CompleteRun(t)
  \/ MarkFailed(t) \/ FailItem(t) \/ FailJobRetry(t) \/ FailJobExhausted(t)
  \/ InsertDeadLetter(t)

Poll(t) == (\E j \in Jobs : Claim(t, j)) \/ Recover(t)

Next ==
  \/ \E j \in Jobs : \/ Enqueue(j) \/ CancelJob(j) \/ CancelItem(j) \/ CancelRaises(j)
                     \/ LeaseLapses(j) \/ BecomesAvailable(j)
  \/ \E t \in Threads : Poll(t) \/ ThreadStep(t) \/ StatementRaises(t)
  \/ \E w \in Workers : Submit(w) \/ ClaimRaises(w) \/ Crash(w)

Spec == Init /\ [][Next]_vars

(* What the deployment guarantees: time passes, the poll loop of a worker  *)
(* with a free thread keeps polling, a submitted item runs, and a request  *)
(* that was accepted is carried to its end.  Nobody is obliged to submit   *)
(* or cancel a job, and no fault is obliged to happen.                     *)
Fairness ==
  /\ \A j \in Jobs : /\ WF_vars(LeaseLapses(j)) /\ WF_vars(BecomesAvailable(j))
                     /\ WF_vars(CancelItem(j))
  /\ \A t \in Threads : WF_vars(Poll(t)) /\ WF_vars(ThreadStep(t))
  /\ \A w \in Workers : WF_vars(Submit(w))

FairSpec == Spec /\ Fairness

-----------------------------------------------------------------------------
TypeOK ==
  /\ itemStatus \in [Jobs -> ItemStatus]
  /\ retryCount \in [Jobs -> Nat]
  /\ lease \in [Jobs -> {"none", "live", "lapsed"}]
  /\ available \in [Jobs -> BOOLEAN]
  /\ jobStatus \in [Jobs -> JobStatus]
  /\ arrivals \in Seq(Jobs)
  /\ failures \in [Jobs -> Nat]
  /\ deadLetters \in [Jobs -> Nat]
  /\ cancel \in [Jobs -> {"none", "job_done", "half", "done"}]
  /\ pc \in [Threads -> PC]
  /\ job \in [Threads -> Jobs \cup {NoJob}]
  /\ snapshot \in [Threads -> Nat]
  /\ faults \in Nat
  /\ worked \in SUBSET Jobs /\ overrun \in SUBSET Jobs
  /\ overlap \in SUBSET Jobs /\ torn \in SUBSET Jobs
  /\ \A t \in Threads : job[t] = NoJob <=> pc[t] = "idle"

(* Mutual exclusion: two threads are between the claim of an item and      *)
(* their last write of its row (CLAIM_SQL to complete() or fail()) only    *)
(* if the lease of one of them ran out while it was still at work: the     *)
(* code never renews a lease and never checks it before it writes.         *)
ExclusiveUnlessOverrun ==
  \A j \in Jobs \ overrun : \A t, u \in Threads :
    Holds(t, j) /\ Holds(u, j) => t = u

(* The retry budget: unless its lease was overrun, an item fails at most   *)
(* max_retries + 1 times and is never queued or running with its budget    *)
(* spent, although fail() decides from a count read at the claim.          *)
RetryBudget ==
  \A j \in Jobs \ overrun :
    /\ retryCount[j] <= MaxRetries[j] + 1
    /\ itemStatus[j] \in {"queued", "running"} => retryCount[j] <= MaxRetries[j]

(* Nothing is reported done that was not done: a job or an item is         *)
(* 'completed' only if process() returned for it, whatever raced.          *)
CompletedWasWorked ==
  \A j \in Jobs : "completed" \in {itemStatus[j], jobStatus[j]} => j \in worked

Agree(j) ==
  CASE itemStatus[j] \in {"queued", "running"} -> jobStatus[j] = "queued"
    [] itemStatus[j] = "completed"   -> jobStatus[j] = "completed"
    [] itemStatus[j] = "dead_letter" -> jobStatus[j] = "failed" /\ deadLetters[j] = 1
    [] OTHER -> itemStatus[j] = jobStatus[j]

(* The two rows of a job are written by separate transactions.  They agree *)
(* whenever no thread is on the job, and a dead item has its one dead      *)
(* letter, unless a fault cut a sequence of updates, the item was claimed  *)
(* again before the previous thread had left it, or the job was cancelled. *)
RowsAgreeAtRest ==
  \A j \in Jobs \ (torn \cup overlap) :
    cancel[j] = "none" /\ (\A t \in Threads : ~WorksOn(t, j)) => Agree(j)

(* A completed or dead item changes again only by a cancellation, unless   *)
(* its lease was overrun or a fault struck between complete()'s updates    *)
(* (the except branch of _process_claimed_item then fails the item that    *)
(* complete() had already completed).                                      *)
SettledIsFinal ==
  [][\A j \in Jobs \ (overrun \cup torn) :
       itemStatus[j] \in {"completed", "dead_letter"}
         => itemStatus'[j] \in {itemStatus[j], "cancelled"}]_vars

(* The queue keeps what JobPromise promises: seen through the tables, with *)
(* the leases, the threads and the separate transactions hidden, every     *)
(* step is one of the promise or leaves the job as the client knows it.    *)
StageOf(s) == IF s \in {"queued", "running"} THEN "pending"
              ELSE IF s = "completed" THEN "done"
              ELSE IF s = "dead_letter" THEN "dead" ELSE s

P == INSTANCE JobPromise WITH
       stage <- [j \in Jobs |-> StageOf(itemStatus[j])],
       tries <- retryCount,
       disturbed <- overrun \cup torn

Promise == P!Spec

Settled(j) == itemStatus[j] \in {"completed", "dead_letter", "cancelled"}

(* Every queued item is eventually completed, dead or cancelled, through   *)
(* any bounded number of faults, lapsed leases and restarts of workers.    *)
QueuedIsSettled == \A j \in Jobs : itemStatus[j] = "queued" ~> Settled(j)

=============================================================================
