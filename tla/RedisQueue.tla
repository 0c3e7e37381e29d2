----------------------------- MODULE RedisQueue -----------------------------
(***************************************************************************)
(* The queue with QUEUE_BACKEND=redis: the tables of Queue, and beside     *)
(* them a sorted set in Redis that holds the items which may be claimed,   *)
(* scored by the time they become available (RedisQueueBackend of          *)
(* service/app/worker.py).  A worker claims the items it finds in the set, *)
(* each by its id; nothing fills the set from the tables.  The hash kept   *)
(* per item is written and never read, and is left out.                    *)
(*                                                                         *)
(* Every call of Redis is a step of its own, after the transactions it     *)
(* belongs to.  Worker and database are taken to have one clock, so that a *)
(* score is due only when the row is available.  Requests, time and work   *)
(* on an item are those of Queue.                                          *)
(***************************************************************************)
EXTENDS Queue, FiniteSets

VARIABLES
  ready,      \* the sorted set: no entry, or one with a score to come or due
  intake,     \* the call of jobs_enqueue that made the job
  unlisting,  \* jobs whose jobs_cancel has yet to take the entry out
  poll,       \* where a worker is in claim_batch
  recovered,  \* items a worker has put back and not yet added to the set
  candidate,  \* the item a worker found due
  attempts    \* attempts_remaining of claim_batch

(* History. *)
VARIABLES
  late,       \* items whose new entry went to a worker that had seen an older one
  dropped     \* items whose entry was lost by a fault

pollVars  == <<poll, recovered, candidate, attempts>>
requests  == <<intake, unlisting>>
redisVars == <<vars, ready, requests, pollVars, late, dropped>>

RedisPC == {"acknowledge", "schedule_retry", "send_dead_letter"}

RedisInit ==
  /\ Init
  /\ ready     = [j \in Jobs |-> "none"]
  /\ intake    = [j \in Jobs |-> "none"]
  /\ unlisting = {}
  /\ poll      = [w \in Workers |-> "idle"]
  /\ recovered = [w \in Workers |-> {}]
  /\ candidate = [w \in Workers |-> NoJob]
  /\ attempts  = [w \in Workers |-> 0]
  /\ late = {} /\ dropped = {}

Fault == faults < MaxFaults /\ faults' = faults + 1

Add(j, score) == ready' = [ready EXCEPT ![j] = score]
Remove(j)     == ready' = [ready EXCEPT ![j] = "none"]

-----------------------------------------------------------------------------
(* The service's endpoints. *)

EnqueueRow(j) ==
  /\ Enqueue(j)
  /\ intake' = [intake EXCEPT ![j] = "mirror"]
  /\ UNCHANGED <<ready, unlisting, pollVars, late, dropped>>

(* jobs_enqueue adds the entry after its INSERT has been committed; where  *)
(* Redis raises, the caller gets an error and the row stays.               *)
EnqueueMirror(j) ==
  /\ intake[j] = "mirror"
  /\ Add(j, IF available[j] THEN "due" ELSE "future")
  /\ intake' = [intake EXCEPT ![j] = "answered"]
  /\ UNCHANGED <<vars, unlisting, pollVars, late, dropped>>

EnqueueRaises(j) ==
  /\ intake[j] = "mirror"
  /\ Fault
  /\ intake'  = [intake EXCEPT ![j] = "error"]
  /\ dropped' = dropped \cup {j}
  /\ UNCHANGED <<itemVars, jobStatus, arrivals, logVars, cancel, threadVars, history,
                 ready, unlisting, pollVars, late>>

CancelRow(j) ==
  /\ CancelItem(j)
  /\ unlisting' = unlisting \cup {j}
  /\ UNCHANGED <<ready, intake, pollVars, late, dropped>>

(* cancel_queue_item: an exception of Redis is swallowed. *)
CancelMirror(j) ==
  /\ j \in unlisting
  /\ unlisting' = unlisting \ {j}
  /\ \/ Remove(j) /\ UNCHANGED faults
     \/ Fault /\ UNCHANGED ready
  /\ UNCHANGED <<itemVars, jobStatus, arrivals, logVars, cancel, threadVars, history,
                 intake, pollVars, late, dropped>>

EntryDue(j) ==
  /\ ready[j] = "future" /\ available[j]
  /\ Add(j, "due")
  /\ UNCHANGED <<vars, requests, pollVars, late, dropped>>

-----------------------------------------------------------------------------
(* claim_batch of a worker: recover, add what was recovered, then take     *)
(* entries that are due, claiming the row of each.                         *)

Free(w) == {t \in Threads : WorkerOf[t] = w /\ pc[t] = "idle"}

PollGoto(w, from, to) == poll[w] = from /\ poll' = [poll EXCEPT ![w] = to]

(* Mutant of PutBack: recovered items are not added to the set. *)
PutBackUnlisted(w) == recovered' = recovered
PutBack(w) == recovered' = [recovered EXCEPT ![w] = {j \in Jobs : Expired(j)}]

RecoverRows(w) ==
  /\ PollGoto(w, "idle", "mirror")
  /\ Free(w) # {}
  /\ \A t \in Threads : WorkerOf[t] = w => pc[t] # "claimed"
  /\ PutBack(w)
  /\ attempts'   = [attempts EXCEPT ![w] = 3 * Cardinality(Free(w))]
  /\ itemStatus' = [j \in Jobs |-> IF Expired(j) THEN "queued" ELSE itemStatus[j]]
  /\ lease'      = [j \in Jobs |-> IF Expired(j) THEN "none" ELSE lease[j]]
  /\ available'  = [j \in Jobs |-> available[j] \/ Expired(j)]
  /\ UNCHANGED <<retryCount, jobStatus, arrivals, logVars, cancel, threadVars, faults,
                 history, ready, requests, candidate, late, dropped>>

MirrorRecovered(w) ==
  /\ poll[w] = "mirror"
  /\ \E j \in recovered[w] : /\ Add(j, "due")
                             /\ recovered' = [recovered EXCEPT ![w] = @ \ {j}]
  /\ UNCHANGED <<vars, requests, poll, candidate, attempts, late, dropped>>

Scan(w) ==
  /\ recovered[w] = {} /\ poll[w] \in {"mirror", "scan"}
  /\ attempts[w] > 0 /\ Free(w) # {}
  /\ \E j \in Jobs : ready[j] = "due" /\ candidate' = [candidate EXCEPT ![w] = j]
  /\ poll'     = [poll EXCEPT ![w] = "remove"]
  /\ attempts' = [attempts EXCEPT ![w] = @ - 1]
  /\ UNCHANGED <<vars, ready, requests, recovered, late, dropped>>

EndBatch(w) ==
  /\ recovered[w] = {} /\ poll[w] \in {"mirror", "scan"}
  /\ attempts[w] = 0 \/ Free(w) = {} \/ (\A j \in Jobs : ready[j] # "due")
  /\ poll'      = [poll EXCEPT ![w] = "idle"]
  /\ candidate' = [candidate EXCEPT ![w] = NoJob]
  /\ attempts'  = [attempts EXCEPT ![w] = 0]
  /\ UNCHANGED <<vars, ready, requests, recovered, late, dropped>>

(* zrem succeeds for one worker only; it takes out whatever entry the item *)
(* has by now, also one that was added after the scan.                     *)
RemoveCandidate(w) ==
  LET j == candidate[w]
  IN /\ PollGoto(w, "remove", IF ready[j] = "none" THEN "scan" ELSE "claim")
     /\ Remove(j)
     /\ late' = IF ready[j] = "future" THEN late \cup {j} ELSE late
     /\ UNCHANGED <<vars, requests, recovered, candidate, attempts, dropped>>

ClaimById(j) == Claimable(j)

ClaimCandidate(w, t) ==
  LET j == candidate[w]
  IN /\ PollGoto(w, "claim", "scan")
     /\ t \in Free(w)
     /\ ClaimById(j)
     /\ itemStatus' = [itemStatus EXCEPT ![j] = "running"]
     /\ lease'      = [lease EXCEPT ![j] = "live"]
     /\ pc'         = [pc EXCEPT ![t] = "claimed"]
     /\ job'        = [job EXCEPT ![t] = j]
     /\ snapshot'   = [snapshot EXCEPT ![t] = retryCount[j]]
     /\ overlap'    = IF \E u \in Threads : WorksOn(u, j) THEN overlap \cup {j} ELSE overlap
     /\ UNCHANGED <<retryCount, available, jobStatus, arrivals, logVars, cancel, faults,
                    worked, overrun, torn, ready, requests, recovered, candidate,
                    attempts, late, dropped>>

(* The row cannot be claimed: the entry is gone all the same.              *)
ClaimNothing(w) ==
  /\ PollGoto(w, "claim", "scan")
  /\ ~ClaimById(candidate[w])
  /\ UNCHANGED <<vars, ready, requests, recovered, candidate, attempts, late, dropped>>

SubmitBatch(w) ==
  /\ Submit(w)
  /\ poll[w] = "idle"
  /\ UNCHANGED <<ready, requests, pollVars, late, dropped>>

-----------------------------------------------------------------------------
(* _process_claimed_item: the updates of Queue, each followed by the call  *)
(* of the backend that complete() and fail() end with.                     *)

Then(t, from, to) == Goto(t, from, to) /\ UNCHANGED <<itemVars, arrivals, logVars, cancel,
                                                       faults, history>>

CompleteRunThen(t) == Then(t, "complete_run", "acknowledge") /\ UNCHANGED jobStatus
InsertDeadLetterThen(t) ==
  /\ Goto(t, "dead_letter", "send_dead_letter")
  /\ deadLetters' = [deadLetters EXCEPT ![job[t]] = @ + 1]
  /\ UNCHANGED <<itemVars, jobStatus, arrivals, failures, cancel, faults, history>>
FailJobRetryThen(t) ==
  /\ Then(t, "fail_job", "schedule_retry")
  /\ ShouldRetry(t)
  /\ jobStatus' = [jobStatus EXCEPT ![job[t]] = "queued"]

TableStep(t) ==
  /\ \/ ProcessReturns(t) \/ ProcessRaises(t) \/ MarkCompleted(t) \/ CompleteItem(t)
     \/ CompleteJob(t) \/ CompleteRunThen(t) \/ MarkFailed(t) \/ FailItem(t)
     \/ FailJobRetryThen(t) \/ FailJobExhausted(t) \/ InsertDeadLetterThen(t)
     \/ StatementRaises(t)
  /\ UNCHANGED <<ready, requests, pollVars, late, dropped>>

BackendStep(t) ==
  /\ \/ Leave(t, "acknowledge") /\ Remove(job[t])
     \/ Leave(t, "schedule_retry") /\ Add(job[t], "future")
     \/ Leave(t, "send_dead_letter") /\ Remove(job[t])
  /\ UNCHANGED <<itemVars, jobStatus, arrivals, logVars, cancel, faults, history,
                 requests, pollVars, late, dropped>>

(* Redis raises: after complete() this fails the item that was completed,  *)
(* after fail() the exception ends the thread.                             *)
BackendRaises(t) ==
  /\ Fault
  /\ \/ Goto(t, "acknowledge", "mark_failed") /\ torn' = torn \cup {job[t]} /\ UNCHANGED dropped
     \/ Leave(t, "schedule_retry") /\ dropped' = dropped \cup {job[t]} /\ UNCHANGED torn
     \/ Leave(t, "send_dead_letter") /\ UNCHANGED <<torn, dropped>>
  /\ UNCHANGED <<itemVars, jobStatus, arrivals, logVars, cancel, worked, overrun, overlap,
                 ready, requests, pollVars, late>>

-----------------------------------------------------------------------------
(* What a worker that stops in claim_batch takes with it. *)
InHand(w) == recovered[w] \cup (IF poll[w] = "claim" THEN {candidate[w]} ELSE {})

Stop(w, T) ==
  /\ Fault
  /\ Vacate(T)
  /\ torn'      = torn \cup {job[t] : t \in {u \in T : pc[u] \in MidUpdate}}
  /\ dropped'   = dropped \cup InHand(w) \cup {job[t] : t \in {u \in T : pc[u] = "schedule_retry"}}
  /\ poll'      = [poll EXCEPT ![w] = "idle"]
  /\ recovered' = [recovered EXCEPT ![w] = {}]
  /\ candidate' = [candidate EXCEPT ![w] = NoJob]
  /\ attempts'  = [attempts EXCEPT ![w] = 0]
  /\ UNCHANGED <<itemVars, jobStatus, arrivals, logVars, cancel, worked, overrun, overlap,
                 ready, requests, late>>

(* claim_batch raises: the batch is lost, the threads at work finish.      *)
BatchRaises(w) ==
  /\ poll[w] # "idle"
  /\ Stop(w, {t \in Threads : WorkerOf[t] = w /\ pc[t] = "claimed"})

CrashRedis(w) ==
  /\ poll[w] # "idle" \/ \E t \in Threads : WorkerOf[t] = w /\ pc[t] # "idle"
  /\ Stop(w, {t \in Threads : WorkerOf[t] = w})

-----------------------------------------------------------------------------
TablesOnly(j) ==
  /\ CancelJob(j) \/ CancelRaises(j) \/ LeaseLapses(j) \/ BecomesAvailable(j)
  /\ UNCHANGED <<ready, requests, pollVars, late, dropped>>

PollStep(w) ==
  \/ RecoverRows(w) \/ MirrorRecovered(w) \/ Scan(w) \/ EndBatch(w) \/ RemoveCandidate(w)
  \/ ClaimNothing(w) \/ \E t \in Threads : ClaimCandidate(w, t)

RedisNext ==
  \/ \E j \in Jobs : \/ EnqueueRow(j) \/ EnqueueMirror(j) \/ EnqueueRaises(j)
                     \/ CancelRow(j) \/ CancelMirror(j) \/ EntryDue(j) \/ TablesOnly(j)
  \/ \E w \in Workers : PollStep(w) \/ SubmitBatch(w) \/ BatchRaises(w) \/ CrashRedis(w)
  \/ \E t \in Threads : TableStep(t) \/ BackendStep(t) \/ BackendRaises(t)

RedisSpec == RedisInit /\ [][RedisNext]_redisVars

(* As for Queue: time passes, workers poll, and what was begun is ended.   *)
FairRedisSpec ==
  /\ RedisSpec
  /\ \A j \in Jobs : /\ WF_redisVars(EntryDue(j))
                     /\ WF_redisVars(TablesOnly(j) /\ cancel' = cancel)
                     /\ WF_redisVars(EnqueueMirror(j)) /\ WF_redisVars(CancelRow(j))
                     /\ WF_redisVars(CancelMirror(j))
  /\ \A w \in Workers : WF_redisVars(PollStep(w)) /\ WF_redisVars(SubmitBatch(w))
  /\ \A t \in Threads : WF_redisVars(TableStep(t) /\ faults' = faults)
                        /\ WF_redisVars(BackendStep(t))

-----------------------------------------------------------------------------
RedisTypeOK ==
  /\ ready \in [Jobs -> {"none", "future", "due"}]
  /\ intake \in [Jobs -> {"none", "mirror", "answered", "error"}]
  /\ unlisting \subseteq Jobs /\ late \subseteq Jobs /\ dropped \subseteq Jobs
  /\ poll \in [Workers -> {"idle", "mirror", "scan", "remove", "claim"}]
  /\ recovered \in [Workers -> SUBSET Jobs]
  /\ candidate \in [Workers -> Jobs \cup {NoJob}]
  /\ attempts \in [Workers -> 0 .. 3 * Cardinality(Threads)]
  /\ pc \in [Threads -> PC \cup RedisPC]
  /\ \A t \in Threads : job[t] = NoJob <=> pc[t] = "idle"

(* Jobs for which table and set may have parted: a fault lost an entry or  *)
(* cut a sequence of updates, a lease was overrun, the job was cancelled,  *)
(* or a worker took out an entry newer than the one it had seen.           *)
Astray == overrun \cup torn \cup late \cup dropped \cup {j \in Jobs : cancel[j] # "none"}

(* An item that is queued in the table has an entry in the set, or somebody *)
(* is about to add it or to claim the row: no interleaving of requests,    *)
(* retries, recovery and claims loses one, apart from the cases of Astray. *)
(* An item that does lose its entry is never claimed again.                *)
QueuedIsListed ==
  \A j \in Jobs \ Astray : itemStatus[j] = "queued" =>
    \/ ready[j] # "none"
    \/ intake[j] = "mirror"
    \/ \E t \in Threads : job[t] = j /\ pc[t] \in {"fail_job", "schedule_retry"}
    \/ \E w \in Workers : j \in InHand(w)

(* Every queued item is settled, through lapsed leases and restarts of     *)
(* workers, unless it goes astray.                                         *)
ListedIsSettled ==
  \A j \in Jobs : itemStatus[j] = "queued" ~> Settled(j) \/ j \in Astray
=============================================================================
