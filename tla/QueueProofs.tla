---------------------------- MODULE QueueProofs ----------------------------
(* Proofs about Queue, and about RedisQueue, which extends it, for any     *)
(* sets of jobs, threads and worker processes.                             *)
EXTENDS RedisQueue, TLAPS

(***************************************************************************)
(* Type correctness.                                                       *)
(***************************************************************************)

LEMMA InitTypeOK == Init => TypeOK
BY QueueAssumption DEF Init, TypeOK, ItemStatus, JobStatus, PC

(* A step within _process_claimed_item keeps the thread's variables typed. *)
LEMMA GotoType ==
  ASSUME TypeOK, NEW t \in Threads, NEW from \in PC \ {"idle"}, NEW to \in PC \ {"idle"},
         Goto(t, from, to)
  PROVE  /\ pc' \in [Threads -> PC]
         /\ job' \in [Threads -> Jobs \cup {NoJob}]
         /\ snapshot' \in [Threads -> Nat]
         /\ \A u \in Threads : job'[u] = NoJob <=> pc'[u] = "idle"
         /\ job[t] \in Jobs
BY DEF TypeOK, Goto

LEMMA VacateType ==
  ASSUME TypeOK, NEW T, Vacate(T)
  PROVE  /\ pc' \in [Threads -> PC]
         /\ job' \in [Threads -> Jobs \cup {NoJob}]
         /\ snapshot' \in [Threads -> Nat]
         /\ \A u \in Threads : job'[u] = NoJob <=> pc'[u] = "idle"
BY DEF TypeOK, Vacate, PC

LEMMA NextTypeOK == TypeOK /\ [Next]_vars => TypeOK'
<1> SUFFICES ASSUME TypeOK, [Next]_vars PROVE TypeOK'
  OBVIOUS
<1> USE DEF itemVars, threadVars, logVars, history
<1>1. ASSUME NEW j \in Jobs, Enqueue(j) PROVE TypeOK'
  BY <1>1 DEF TypeOK, Enqueue, ItemStatus, JobStatus
<1>2. ASSUME NEW j \in Jobs, CancelJob(j) \/ CancelItem(j) \/ CancelRaises(j) PROVE TypeOK'
  <2>1. CASE CancelJob(j)
    BY <2>1 DEF TypeOK, CancelJob, JobStatus
  <2>2. CASE CancelItem(j)
    BY <2>2 DEF TypeOK, CancelItem, ItemStatus
  <2>3. CASE CancelRaises(j)
    BY <2>3, QueueAssumption DEF TypeOK, CancelRaises
  <2> QED BY <1>2, <2>1, <2>2, <2>3
<1>3. ASSUME NEW j \in Jobs, LeaseLapses(j) \/ BecomesAvailable(j) PROVE TypeOK'
  BY <1>3 DEF TypeOK, LeaseLapses, BecomesAvailable
<1>4. ASSUME NEW t \in Threads, NEW j \in Jobs, Claim(t, j) PROVE TypeOK'
  BY <1>4, QueueAssumption DEF TypeOK, Claim, ItemStatus, PC
<1>5. ASSUME NEW t \in Threads, Recover(t) PROVE TypeOK'
  BY <1>5 DEF TypeOK, Recover, ItemStatus
<1>6. ASSUME NEW w \in Workers, Submit(w) PROVE TypeOK'
  BY <1>6 DEF TypeOK, Submit, PC
<1>7. ASSUME NEW w \in Workers, ClaimRaises(w) PROVE TypeOK'
  BY <1>7, VacateType, QueueAssumption DEF TypeOK, ClaimRaises
<1>8. ASSUME NEW t \in Threads, ProcessReturns(t) \/ ProcessRaises(t) PROVE TypeOK'
  BY <1>8, GotoType DEF TypeOK, ProcessReturns, ProcessRaises, PC, Failing
<1>9. ASSUME NEW t \in Threads,
             MarkCompleted(t) \/ CompleteItem(t) \/ CompleteJob(t)
      PROVE TypeOK'
  <2>1. CASE MarkCompleted(t)
    BY <2>1, GotoType DEF TypeOK, MarkCompleted, PC, Completing
  <2>2. CASE CompleteItem(t)
    <3>1. Goto(t, "complete_item", "complete_job") BY <2>2 DEF CompleteItem
    <3> QED BY <2>2, <3>1, GotoType DEF TypeOK, CompleteItem, PC, Completing, ItemStatus
  <2>3. CASE CompleteJob(t)
    <3>1. Goto(t, "complete_job", "complete_run") BY <2>3 DEF CompleteJob
    <3> QED BY <2>3, <3>1, GotoType DEF TypeOK, CompleteJob, PC, Completing, JobStatus
  <2> QED BY <1>9, <2>1, <2>2, <2>3
<1>10. ASSUME NEW t \in Threads, CompleteRun(t) PROVE TypeOK'
  BY <1>10, VacateType DEF TypeOK, CompleteRun, Leave
<1>11. ASSUME NEW t \in Threads, MarkFailed(t) \/ FailItem(t) \/ FailJobExhausted(t)
       PROVE TypeOK'
  <2>1. CASE MarkFailed(t)
    <3>1. Goto(t, "mark_failed", "fail_item") BY <2>1 DEF MarkFailed
    <3>2. job[t] \in Jobs BY <3>1 DEF TypeOK, Goto
    <3>3. failures' \in [Jobs -> Nat] BY <2>1, <3>2 DEF TypeOK, MarkFailed
    <3> QED BY <2>1, <3>1, <3>3, GotoType DEF TypeOK, MarkFailed, PC, Failing
  <2>2. CASE FailItem(t)
    <3>1. Goto(t, "fail_item", "fail_job") BY <2>2 DEF FailItem
    <3>2. job[t] \in Jobs BY <3>1 DEF TypeOK, Goto
    <3>3. retryCount' \in [Jobs -> Nat] BY <2>2, <3>2 DEF TypeOK, FailItem
    <3> QED BY <2>2, <3>1, <3>3, GotoType DEF TypeOK, FailItem, PC, Failing, ItemStatus
  <2>3. CASE FailJobExhausted(t)
    <3>1. Goto(t, "fail_job", "dead_letter") BY <2>3 DEF FailJobExhausted
    <3> QED BY <2>3, <3>1, GotoType DEF TypeOK, FailJobExhausted, PC, Failing, JobStatus
  <2> QED BY <1>11, <2>1, <2>2, <2>3
<1>12. ASSUME NEW t \in Threads, FailJobRetry(t) \/ InsertDeadLetter(t) PROVE TypeOK'
  <2>1. pc[t] # "idle" /\ job[t] \in Jobs
    BY <1>12 DEF TypeOK, FailJobRetry, InsertDeadLetter, Leave
  <2>2. Vacate({t})
    BY <1>12 DEF FailJobRetry, InsertDeadLetter, Leave
  <2> HIDE DEF Vacate
  <2>3. CASE FailJobRetry(t)
    <3>1. jobStatus' \in [Jobs -> JobStatus]
      BY <2>1, <2>3 DEF TypeOK, FailJobRetry, JobStatus
    <3> QED BY <2>2, <2>3, <3>1, VacateType DEF TypeOK, FailJobRetry
  <2>4. CASE InsertDeadLetter(t)
    <3>1. deadLetters' \in [Jobs -> Nat]
      BY <2>1, <2>4 DEF TypeOK, InsertDeadLetter
    <3> QED BY <2>2, <2>4, <3>1, VacateType DEF TypeOK, InsertDeadLetter
  <2> QED BY <1>12, <2>3, <2>4
<1>13. ASSUME NEW t \in Threads, StatementRaises(t) PROVE TypeOK'
  <2>1. pc[t] # "idle" /\ job[t] \in Jobs /\ faults' \in Nat /\ torn' \in SUBSET Jobs
    BY <1>13, QueueAssumption DEF TypeOK, StatementRaises, Completing, Failing
  <2>2. CASE pc[t] \in Failing
    BY <1>13, <2>1, <2>2, VacateType DEF TypeOK, StatementRaises
  <2>3. CASE pc[t] \notin Failing
    BY <1>13, <2>1, <2>3, GotoType DEF TypeOK, StatementRaises, PC, Failing
  <2> QED BY <2>2, <2>3
<1>14. ASSUME NEW w \in Workers, Crash(w) PROVE TypeOK'
  <2>1. faults' \in Nat /\ torn' \in SUBSET Jobs
    BY <1>14, QueueAssumption DEF TypeOK, Crash, MidUpdate
  <2> QED BY <1>14, <2>1, VacateType DEF TypeOK, Crash
<1>15. CASE UNCHANGED vars
  BY <1>15 DEF TypeOK, vars
<1> QED
  BY <1>1, <1>2, <1>3, <1>4, <1>5, <1>6, <1>7, <1>8, <1>9, <1>10, <1>11, <1>12,
     <1>13, <1>14, <1>15 DEF Next, Poll, ThreadStep

(* Every reachable state of the queue is well typed; in particular a       *)
(* thread has an item exactly while it is in _process_claimed_item.        *)
THEOREM QueueTypeOK == Spec => []TypeOK
<1>1. QED BY InitTypeOK, NextTypeOK, PTL DEF Spec

(***************************************************************************)
(* Mutual exclusion and the retry budget.  The argument: the lease of an   *)
(* item is NULL exactly when it is not running, so only a running item     *)
(* whose lease has lapsed is put back; if no lease of the item was overrun *)
(* such an item has no holder, and a queued item has none either.  Hence a *)
(* claim finds no other holder, and the retry count a holder read is still *)
(* the one in the row when fail() compares it with max_retries.            *)
(***************************************************************************)

LeaseIffRunning ==
  \A j \in Jobs : lease[j] # "none" <=> itemStatus[j] = "running"

AbsentIsFresh ==
  \A j \in Jobs : itemStatus[j] = "absent" => retryCount[j] = 0

HolderKnowsRow ==
  \A j \in Jobs \ overrun : \A t \in Threads : Holds(t, j) =>
    /\ itemStatus[j] \in {"running", "completed", "cancelled"}
    /\ lease[j] # "lapsed"
    /\ snapshot[t] = retryCount[j]
    /\ retryCount[j] <= MaxRetries[j]

UnsettledUntilWritten ==
  \A j \in Jobs \ (overrun \cup torn) : \A t \in Threads :
    Holds(t, j) /\ pc[t] \notin {"complete_job", "complete_run"}
      => itemStatus[j] \in {"running", "cancelled"}

QueueInv ==
  /\ LeaseIffRunning
  /\ AbsentIsFresh
  /\ HolderKnowsRow
  /\ UnsettledUntilWritten
  /\ ExclusiveUnlessOverrun
  /\ RetryBudget

LEMMA InitQueueInv == Init => QueueInv
BY QueueAssumption DEF Init, QueueInv, LeaseIffRunning, AbsentIsFresh, HolderKnowsRow,
   UnsettledUntilWritten, ExclusiveUnlessOverrun, RetryBudget, Holds, HoldingPC

(* A step that leaves the rows of queue_items alone and gives no thread a  *)
(* new item keeps the invariant.                                           *)
LEMMA FrameQueueInv ==
  ASSUME QueueInv,
         UNCHANGED <<itemStatus, retryCount, lease, overrun>>, torn \subseteq torn',
         \A t \in Threads, j \in Jobs : Holds(t, j)' =>
           /\ Holds(t, j)
           /\ snapshot'[t] = snapshot[t]
           /\ \/ pc'[t] \in {"complete_job", "complete_run"}
              \/ pc[t] \notin {"complete_job", "complete_run"}
              \/ j \in torn'
  PROVE  QueueInv'
<1>1. LeaseIffRunning' /\ AbsentIsFresh' /\ RetryBudget'
  BY DEF QueueInv, LeaseIffRunning, AbsentIsFresh, RetryBudget
<1>2. HolderKnowsRow'
  BY DEF QueueInv, HolderKnowsRow
<1>3. UnsettledUntilWritten'
  BY DEF QueueInv, UnsettledUntilWritten
<1>4. ExclusiveUnlessOverrun'
  BY DEF QueueInv, ExclusiveUnlessOverrun
<1> QED BY <1>1, <1>2, <1>3, <1>4 DEF QueueInv

(* Moving a thread along, or freeing threads, meets the frame's condition. *)
LEMMA GotoFrame ==
  ASSUME QueueInv, TypeOK, NEW t \in Threads, NEW from \in HoldingPC, NEW to \in PC,
         Goto(t, from, to), UNCHANGED <<itemStatus, retryCount, lease, overrun>>,
         torn \subseteq torn',
         \/ to \in {"complete_job", "complete_run"}
         \/ from \notin {"complete_job", "complete_run"}
         \/ job[t] \in torn'
  PROVE  QueueInv'
<1>1. ASSUME NEW u \in Threads, NEW j \in Jobs, Holds(u, j)'
      PROVE  /\ Holds(u, j)
             /\ snapshot'[u] = snapshot[u]
             /\ \/ pc'[u] \in {"complete_job", "complete_run"}
                \/ pc[u] \notin {"complete_job", "complete_run"}
                \/ j \in torn'
  BY <1>1 DEF Goto, Holds, TypeOK
<1> QED BY <1>1, FrameQueueInv

LEMMA VacateFrame ==
  ASSUME QueueInv, TypeOK, NEW T, Vacate(T),
         UNCHANGED <<itemStatus, retryCount, lease, overrun>>, torn \subseteq torn'
  PROVE  QueueInv'
<1>1. ASSUME NEW u \in Threads, NEW j \in Jobs, Holds(u, j)'
      PROVE  Holds(u, j) /\ snapshot'[u] = snapshot[u] /\ pc'[u] = pc[u]
  BY <1>1 DEF Vacate, Holds, TypeOK, HoldingPC
<1> QED BY <1>1, FrameQueueInv

LEMMA EnqueueQueueInv ==
  ASSUME QueueInv, TypeOK, NEW j \in Jobs, Enqueue(j)
  PROVE  QueueInv'
<1> USE DEF itemVars, threadVars, logVars, history
<1>1. LeaseIffRunning' /\ AbsentIsFresh'
  BY DEF QueueInv, LeaseIffRunning, AbsentIsFresh, Enqueue, TypeOK
<1>2. RetryBudget'
  <2>1. retryCount[j] = 0 /\ MaxRetries[j] \in Nat
    BY QueueAssumption DEF Enqueue, QueueInv, AbsentIsFresh
  <2>2. retryCount' = retryCount /\ overrun' = overrun
        /\ \A k \in Jobs : k # j => itemStatus'[k] = itemStatus[k]
    BY DEF Enqueue, TypeOK
  <2>3. retryCount[j] <= MaxRetries[j]
    BY <2>1
  <2> QED BY <2>2, <2>3 DEF QueueInv, RetryBudget
<1>3. \A t \in Threads, k \in Jobs : Holds(t, k)' <=> Holds(t, k)
  BY DEF Enqueue, Holds
<1>4. HolderKnowsRow' /\ UnsettledUntilWritten' /\ ExclusiveUnlessOverrun'
  BY <1>3 DEF QueueInv, HolderKnowsRow, UnsettledUntilWritten, ExclusiveUnlessOverrun,
     Enqueue, TypeOK
<1> QED BY <1>1, <1>2, <1>4 DEF QueueInv

LEMMA CancelItemQueueInv ==
  ASSUME QueueInv, TypeOK, NEW j \in Jobs, CancelItem(j)
  PROVE  QueueInv'
<1> USE DEF itemVars, threadVars, logVars, history
<1>1. LeaseIffRunning' /\ AbsentIsFresh' /\ RetryBudget'
  BY DEF QueueInv, LeaseIffRunning, AbsentIsFresh, RetryBudget, CancelItem, TypeOK
<1>2. \A t \in Threads, k \in Jobs : Holds(t, k)' <=> Holds(t, k)
  BY DEF CancelItem, Holds
<1>3. HolderKnowsRow' /\ UnsettledUntilWritten' /\ ExclusiveUnlessOverrun'
  BY <1>2 DEF QueueInv, HolderKnowsRow, UnsettledUntilWritten, ExclusiveUnlessOverrun,
     CancelItem, TypeOK
<1> QED BY <1>1, <1>3 DEF QueueInv

LEMMA LeaseLapsesQueueInv ==
  ASSUME QueueInv, TypeOK, NEW j \in Jobs, LeaseLapses(j)
  PROVE  QueueInv'
<1> USE DEF itemVars, threadVars, logVars
<1>1. LeaseIffRunning' /\ AbsentIsFresh' /\ RetryBudget'
  BY DEF QueueInv, LeaseIffRunning, AbsentIsFresh, RetryBudget, LeaseLapses, TypeOK
<1>2. \A t \in Threads, k \in Jobs : Holds(t, k)' <=> Holds(t, k)
  BY DEF LeaseLapses, Holds
<1>3. overrun \subseteq overrun' /\ (j \notin overrun' => \A t \in Threads : ~Holds(t, j))
  BY DEF LeaseLapses
<1>4. HolderKnowsRow' /\ UnsettledUntilWritten' /\ ExclusiveUnlessOverrun'
  BY <1>2, <1>3 DEF QueueInv, HolderKnowsRow, UnsettledUntilWritten,
     ExclusiveUnlessOverrun, LeaseLapses, TypeOK
<1> QED BY <1>1, <1>4 DEF QueueInv

(* The items CLAIM_SQL puts back have no holder, unless overrun.           *)
LEMMA ExpiredHasNoHolder ==
  ASSUME QueueInv, NEW k \in Jobs \ overrun, Expired(k), NEW t \in Threads
  PROVE  ~Holds(t, k)
BY DEF QueueInv, HolderKnowsRow, Expired

LEMMA ClaimQueueInv ==
  ASSUME QueueInv, TypeOK, NEW t \in Threads, NEW j \in Jobs, Claim(t, j)
  PROVE  QueueInv'
<1> USE DEF itemVars, threadVars, logVars
<1>1. itemStatus[j] = "queued" /\ pc[t] = "idle"
  BY DEF Claim, Candidate, Claimable
<1>2. LeaseIffRunning' /\ AbsentIsFresh' /\ RetryBudget'
  BY <1>1 DEF QueueInv, LeaseIffRunning, AbsentIsFresh, RetryBudget, Claim, Expired, TypeOK
<1>3. \A u \in Threads, k \in Jobs :
        Holds(u, k)' <=> \/ u = t /\ k = j
                         \/ u # t /\ Holds(u, k)
  BY DEF Claim, Holds, TypeOK, HoldingPC, PC
<1>4. \A u \in Threads : j \notin overrun => ~Holds(u, j)
  BY <1>1 DEF QueueInv, HolderKnowsRow
<1>5. \A u \in Threads, k \in Jobs \ overrun :
        k # j /\ Holds(u, k)' => itemStatus'[k] = itemStatus[k] /\ lease'[k] = lease[k]
  BY <1>3, ExpiredHasNoHolder DEF Claim
<1>6. HolderKnowsRow'
  <2> SUFFICES ASSUME NEW k \in Jobs \ overrun, NEW u \in Threads, Holds(u, k)'
               PROVE  /\ itemStatus'[k] \in {"running", "completed", "cancelled"}
                      /\ lease'[k] # "lapsed"
                      /\ snapshot'[u] = retryCount'[k]
                      /\ retryCount'[k] <= MaxRetries[k]
    BY DEF HolderKnowsRow, Claim
  <2>1. CASE u = t /\ k = j
    BY <1>1, <2>1 DEF Claim, QueueInv, RetryBudget, TypeOK
  <2>2. CASE u # t /\ Holds(u, k)
    <3>1. k # j BY <1>4, <2>2
    <3> QED BY <1>5, <2>2, <3>1 DEF Claim, QueueInv, HolderKnowsRow, TypeOK
  <2> QED BY <1>3, <2>1, <2>2
<1>7. UnsettledUntilWritten'
  <2> SUFFICES ASSUME NEW k \in Jobs \ (overrun \cup torn), NEW u \in Threads, Holds(u, k)',
                      pc'[u] \notin {"complete_job", "complete_run"}
               PROVE  itemStatus'[k] \in {"running", "cancelled"}
    BY DEF UnsettledUntilWritten, Claim
  <2>1. CASE u = t /\ k = j
    BY <2>1 DEF Claim
  <2>2. CASE u # t /\ Holds(u, k)
    <3>1. k # j BY <1>4, <2>2
    <3> QED BY <1>5, <2>2, <3>1 DEF Claim, QueueInv, UnsettledUntilWritten, TypeOK
  <2> QED BY <1>3, <2>1, <2>2
<1>8. ExclusiveUnlessOverrun'
  BY <1>3, <1>4 DEF Claim, QueueInv, ExclusiveUnlessOverrun
<1> QED BY <1>2, <1>6, <1>7, <1>8 DEF QueueInv

LEMMA RecoverQueueInv ==
  ASSUME QueueInv, TypeOK, NEW t \in Threads, Recover(t)
  PROVE  QueueInv'
<1> USE DEF itemVars, threadVars, logVars, history
<1>1. LeaseIffRunning' /\ AbsentIsFresh' /\ RetryBudget'
  BY DEF QueueInv, LeaseIffRunning, AbsentIsFresh, RetryBudget, Recover, Expired, TypeOK
<1>2. \A u \in Threads, k \in Jobs : Holds(u, k)' <=> Holds(u, k)
  BY DEF Recover, Holds
<1>3. \A u \in Threads, k \in Jobs \ overrun :
        Holds(u, k) => itemStatus'[k] = itemStatus[k] /\ lease'[k] = lease[k]
  BY ExpiredHasNoHolder DEF Recover
<1>4. HolderKnowsRow' /\ UnsettledUntilWritten' /\ ExclusiveUnlessOverrun'
  BY <1>2, <1>3 DEF QueueInv, HolderKnowsRow, UnsettledUntilWritten,
     ExclusiveUnlessOverrun, Recover
<1> QED BY <1>1, <1>4 DEF QueueInv

LEMMA CompleteItemQueueInv ==
  ASSUME QueueInv, TypeOK, NEW t \in Threads, CompleteItem(t)
  PROVE  QueueInv'
<1> USE DEF itemVars, logVars, history, Goto
<1>1. job[t] \in Jobs /\ Holds(t, job[t])
  BY DEF CompleteItem, TypeOK, Holds, HoldingPC, PC, Completing
<1>2. LeaseIffRunning' /\ AbsentIsFresh' /\ RetryBudget'
  BY <1>1 DEF QueueInv, LeaseIffRunning, AbsentIsFresh, RetryBudget, CompleteItem, TypeOK
<1>3. \A u \in Threads, k \in Jobs : Holds(u, k)' <=> Holds(u, k)
  BY DEF CompleteItem, Holds, TypeOK, HoldingPC, PC, Completing
<1>4. HolderKnowsRow' /\ ExclusiveUnlessOverrun'
  BY <1>1, <1>3 DEF QueueInv, HolderKnowsRow, ExclusiveUnlessOverrun, CompleteItem, TypeOK
<1>5. UnsettledUntilWritten'
  BY <1>1, <1>3 DEF QueueInv, UnsettledUntilWritten, ExclusiveUnlessOverrun, CompleteItem,
     TypeOK
<1> QED BY <1>2, <1>4, <1>5 DEF QueueInv

LEMMA FailItemQueueInv ==
  ASSUME QueueInv, TypeOK, NEW t \in Threads, FailItem(t)
  PROVE  QueueInv'
<1> USE DEF logVars, history, Goto
<1>1. job[t] \in Jobs /\ Holds(t, job[t])
  BY DEF FailItem, TypeOK, Holds, HoldingPC, PC, Failing
<1>2. LeaseIffRunning'
  BY <1>1 DEF QueueInv, LeaseIffRunning, FailItem, TypeOK
<1>3. AbsentIsFresh'
  BY <1>1 DEF QueueInv, AbsentIsFresh, FailItem, TypeOK
<1>4. job[t] \notin overrun => /\ snapshot[t] = retryCount[job[t]]
                               /\ retryCount[job[t]] <= MaxRetries[job[t]]
  BY <1>1 DEF QueueInv, HolderKnowsRow
<1>5. RetryBudget'
  <2> SUFFICES ASSUME NEW k \in Jobs \ overrun
               PROVE  /\ retryCount'[k] <= MaxRetries[k] + 1
                      /\ itemStatus'[k] \in {"queued", "running"}
                           => retryCount'[k] <= MaxRetries[k]
    BY DEF RetryBudget, FailItem
  <2>1. CASE k = job[t]
    <3>1. retryCount'[k] = retryCount[k] + 1
      BY <1>1, <2>1 DEF FailItem, TypeOK
    <3>2. itemStatus'[k] \in {"queued", "running"} => retryCount[k] + 1 <= MaxRetries[k]
      BY <1>1, <1>4, <2>1 DEF FailItem, ShouldRetry, TypeOK
    <3>3. retryCount[k] \in Nat /\ MaxRetries[k] \in Nat
      BY QueueAssumption DEF TypeOK
    <3> QED BY <1>4, <2>1, <3>1, <3>2, <3>3
  <2>2. CASE k # job[t]
    BY <2>2 DEF FailItem, TypeOK, QueueInv, RetryBudget
  <2> QED BY <2>1, <2>2
<1>6. \A u \in Threads, k \in Jobs : Holds(u, k)' <=> u # t /\ Holds(u, k)
  BY DEF FailItem, Holds, TypeOK, HoldingPC, PC
<1>7. \A u \in Threads, k \in Jobs \ overrun : Holds(u, k)' => k # job[t]
  BY <1>1, <1>6 DEF QueueInv, ExclusiveUnlessOverrun
<1>8. HolderKnowsRow' /\ UnsettledUntilWritten' /\ ExclusiveUnlessOverrun'
  BY <1>6, <1>7 DEF QueueInv, HolderKnowsRow, UnsettledUntilWritten,
     ExclusiveUnlessOverrun, FailItem, TypeOK
<1> QED BY <1>2, <1>3, <1>5, <1>8 DEF QueueInv

LEMMA NextQueueInv == TypeOK /\ QueueInv /\ [Next]_vars => QueueInv'
<1> SUFFICES ASSUME TypeOK, QueueInv, [Next]_vars PROVE QueueInv'
  OBVIOUS
<1> USE DEF itemVars, threadVars, logVars, history
<1>1. ASSUME NEW j \in Jobs,
             CancelJob(j) \/ CancelRaises(j) \/ BecomesAvailable(j) \/ UNCHANGED vars
      PROVE  QueueInv'
  <2>1. UNCHANGED <<itemStatus, retryCount, lease, overrun, torn, pc, job, snapshot>>
    BY <1>1 DEF CancelJob, CancelRaises, BecomesAvailable, vars
  <2>2. \A t \in Threads, k \in Jobs : Holds(t, k)' <=> Holds(t, k)
    BY <2>1 DEF Holds
  <2> QED BY <2>1, <2>2, FrameQueueInv
<1>2. CASE UNCHANGED vars
  <2>1. UNCHANGED <<itemStatus, retryCount, lease, overrun, torn, pc, job, snapshot>>
    BY <1>2 DEF vars
  <2>2. \A t \in Threads, k \in Jobs : Holds(t, k)' <=> Holds(t, k)
    BY <2>1 DEF Holds
  <2> QED BY <2>1, <2>2, FrameQueueInv
<1>3. ASSUME NEW w \in Workers, Submit(w) PROVE QueueInv'
  <2>1. \A t \in Threads, k \in Jobs : Holds(t, k)' =>
          /\ Holds(t, k) /\ snapshot'[t] = snapshot[t]
          /\ pc[t] \notin {"complete_job", "complete_run"} \/ pc'[t] = pc[t]
    BY <1>3 DEF Submit, Holds, TypeOK, HoldingPC, PC
  <2> QED BY <1>3, <2>1, FrameQueueInv DEF Submit
<1>4. ASSUME NEW w \in Workers, ClaimRaises(w) PROVE QueueInv'
  BY <1>4, VacateFrame DEF ClaimRaises
<1>5. ASSUME NEW t \in Threads, ProcessReturns(t) \/ ProcessRaises(t) PROVE QueueInv'
  BY <1>5, GotoFrame DEF ProcessReturns, ProcessRaises, HoldingPC, PC, Failing
<1>6. ASSUME NEW t \in Threads, MarkCompleted(t) PROVE QueueInv'
  BY <1>6, GotoFrame DEF MarkCompleted, HoldingPC, PC, Completing
<1>7. ASSUME NEW t \in Threads, CompleteJob(t) PROVE QueueInv'
  BY <1>7, GotoFrame DEF CompleteJob, HoldingPC, PC, Completing
<1>8. ASSUME NEW t \in Threads, MarkFailed(t) PROVE QueueInv'
  BY <1>8, GotoFrame DEF MarkFailed, HoldingPC, PC, Failing
<1>9. ASSUME NEW t \in Threads, CompleteRun(t) \/ FailJobRetry(t) \/ InsertDeadLetter(t)
      PROVE  QueueInv'
  BY <1>9, VacateFrame DEF CompleteRun, FailJobRetry, InsertDeadLetter, Leave
<1>10. ASSUME NEW t \in Threads, FailJobExhausted(t) PROVE QueueInv'
  <2>1. \A u \in Threads, k \in Jobs : Holds(u, k)' =>
          Holds(u, k) /\ snapshot'[u] = snapshot[u] /\ pc'[u] = pc[u]
    BY <1>10 DEF FailJobExhausted, Goto, Holds, TypeOK, HoldingPC
  <2> QED BY <1>10, <2>1, FrameQueueInv DEF FailJobExhausted
<1>11. ASSUME NEW t \in Threads, StatementRaises(t) PROVE QueueInv'
  <2>1. CASE pc[t] \in Failing
    BY <1>11, <2>1, VacateFrame DEF StatementRaises
  <2>2. CASE pc[t] \notin Failing
    <3>1. Goto(t, pc[t], "mark_failed") /\ pc[t] \in HoldingPC
      BY <1>11, <2>2 DEF StatementRaises, HoldingPC, PC, Completing
    <3>2. pc[t] \in {"complete_job", "complete_run"} => job[t] \in torn'
      BY <1>11 DEF StatementRaises, MidUpdate
    <3>3. torn \subseteq torn' /\ UNCHANGED <<itemStatus, retryCount, lease, overrun>>
      BY <1>11 DEF StatementRaises
    <3> QED BY <3>1, <3>2, <3>3, GotoFrame DEF PC, Failing
  <2> QED BY <2>1, <2>2
<1>12. ASSUME NEW w \in Workers, Crash(w) PROVE QueueInv'
  BY <1>12, VacateFrame DEF Crash
<1> QED
  BY <1>1, <1>2, <1>3, <1>4, <1>5, <1>6, <1>7, <1>8, <1>9, <1>10, <1>11, <1>12,
     EnqueueQueueInv, CancelItemQueueInv, LeaseLapsesQueueInv, ClaimQueueInv,
     RecoverQueueInv, CompleteItemQueueInv, FailItemQueueInv DEF Next, Poll, ThreadStep

(* The queue's inductive invariant holds in every reachable state.         *)
THEOREM QueueInvariant == Spec => []QueueInv
<1>1. QED BY QueueTypeOK, InitQueueInv, NextQueueInv, PTL DEF Spec

(* Two threads hold an item only if its lease ran out under one of them.   *)
THEOREM QueueExclusion == Spec => []ExclusiveUnlessOverrun
<1>1. QueueInv => ExclusiveUnlessOverrun BY DEF QueueInv
<1>2. QED BY <1>1, QueueInvariant, PTL

(* Without an overrun an item fails at most max_retries + 1 times.         *)
THEOREM QueueRetryBudget == Spec => []RetryBudget
<1>1. QueueInv => RetryBudget BY DEF QueueInv
<1>2. QED BY <1>1, QueueInvariant, PTL

(***************************************************************************)
(* Settled items.                                                          *)
(***************************************************************************)

(* What a step does to a completed or dead item.                           *)
LEMMA SettledStep ==
  ASSUME TypeOK, QueueInv, Next,
         NEW j \in Jobs \ (overrun \cup torn), itemStatus[j] \in {"completed", "dead_letter"}
  PROVE  itemStatus'[j] \in {itemStatus[j], "cancelled"}
<1> USE DEF itemVars, threadVars, logVars, history
<1>1. \A t \in Threads : Holds(t, j) => pc[t] \in {"complete_job", "complete_run"}
  BY DEF QueueInv, UnsettledUntilWritten
<1>2. \A t \in Threads : pc[t] \in {"complete_item", "fail_item"} => job[t] # j
  BY <1>1 DEF Holds, HoldingPC, PC, Completing, Failing
<1>3. ASSUME NEW k \in Jobs,
             \/ Enqueue(k) \/ CancelJob(k) \/ CancelItem(k) \/ CancelRaises(k)
             \/ LeaseLapses(k) \/ BecomesAvailable(k)
      PROVE  itemStatus'[j] \in {itemStatus[j], "cancelled"}
  BY <1>3 DEF Enqueue, CancelJob, CancelItem, CancelRaises, LeaseLapses, BecomesAvailable,
     TypeOK
<1>4. ASSUME NEW t \in Threads, Poll(t)
      PROVE  itemStatus'[j] \in {itemStatus[j], "cancelled"}
  BY <1>4 DEF Poll, Claim, Recover, Candidate, Claimable, Expired
<1>5. ASSUME NEW t \in Threads, ThreadStep(t) \/ StatementRaises(t)
      PROVE  itemStatus'[j] \in {itemStatus[j], "cancelled"}
  <2>1. CASE CompleteItem(t) \/ FailItem(t)
    BY <1>2, <2>1 DEF CompleteItem, FailItem, Goto, TypeOK
  <2>2. CASE ~(CompleteItem(t) \/ FailItem(t))
    BY <1>5, <2>2 DEF ThreadStep, ProcessReturns, ProcessRaises, MarkCompleted,
       CompleteJob, CompleteRun, MarkFailed, FailJobRetry, FailJobExhausted,
       InsertDeadLetter, StatementRaises
  <2> QED BY <2>1, <2>2
<1>6. ASSUME NEW w \in Workers, Submit(w) \/ ClaimRaises(w) \/ Crash(w)
      PROVE  itemStatus'[j] \in {itemStatus[j], "cancelled"}
  BY <1>6 DEF Submit, ClaimRaises, Crash
<1> QED BY <1>3, <1>4, <1>5, <1>6 DEF Next

(* A completed or dead item is final up to cancellation, unless its lease  *)
(* was overrun or its settling was cut by a fault.                         *)
THEOREM QueueSettledIsFinal == Spec => SettledIsFinal
<1> DEFINE Final == \A j \in Jobs \ (overrun \cup torn) :
                      itemStatus[j] \in {"completed", "dead_letter"}
                        => itemStatus'[j] \in {itemStatus[j], "cancelled"}
<1>1. TypeOK /\ QueueInv /\ [Next]_vars => [Final]_vars
  BY SettledStep
<1>2. QED BY <1>1, QueueTypeOK, QueueInvariant, PTL DEF Spec, SettledIsFinal

(***************************************************************************)
(* No result without work.                                                 *)
(***************************************************************************)

(* A thread past process() has worked on its item, and whatever is marked  *)
(* completed was marked by such a thread.                                  *)
WorkInv ==
  /\ CompletedWasWorked
  /\ \A t \in Threads : pc[t] \in {"mark_completed"} \cup Completing => job[t] \in worked

LEMMA NextWorkInv == TypeOK /\ WorkInv /\ [Next]_vars => WorkInv'
<1> SUFFICES ASSUME TypeOK, WorkInv, [Next]_vars PROVE WorkInv'
  OBVIOUS
<1> USE DEF itemVars, threadVars, logVars, history, WorkInv, CompletedWasWorked, TypeOK,
        Completing
<1>1. ASSUME NEW j \in Jobs,
             \/ Enqueue(j) \/ CancelJob(j) \/ CancelItem(j) \/ CancelRaises(j)
             \/ LeaseLapses(j) \/ BecomesAvailable(j)
      PROVE  WorkInv'
  BY <1>1 DEF Enqueue, CancelJob, CancelItem, CancelRaises, LeaseLapses, BecomesAvailable
<1>2. ASSUME NEW t \in Threads, NEW j \in Jobs, Claim(t, j) PROVE WorkInv'
  BY <1>2 DEF Claim
<1>3. ASSUME NEW t \in Threads, Recover(t) PROVE WorkInv'
  BY <1>3 DEF Recover
<1>4. ASSUME NEW w \in Workers, Submit(w) \/ ClaimRaises(w) \/ Crash(w)
      PROVE  WorkInv'
  <2>1. CASE Submit(w)
    BY <2>1 DEF Submit
  <2>2. CASE ClaimRaises(w)
    BY <2>2 DEF ClaimRaises, Vacate
  <2>3. CASE Crash(w)
    BY <2>3 DEF Crash, Vacate
  <2> QED BY <1>4, <2>1, <2>2, <2>3
<1>5. ASSUME NEW t \in Threads, ProcessReturns(t) \/ ProcessRaises(t) \/ MarkCompleted(t)
      PROVE  WorkInv'
  <2>1. CASE ProcessReturns(t)
    BY <2>1 DEF ProcessReturns, Goto
  <2>2. CASE ProcessRaises(t)
    BY <2>2 DEF ProcessRaises, Goto
  <2>3. CASE MarkCompleted(t)
    BY <2>3 DEF MarkCompleted, Goto
  <2> QED BY <1>5, <2>1, <2>2, <2>3
<1>6. ASSUME NEW t \in Threads, CompleteItem(t) \/ CompleteJob(t) \/ CompleteRun(t)
      PROVE  WorkInv'
  <2>1. CASE CompleteItem(t)
    BY <2>1 DEF CompleteItem, Goto
  <2>2. CASE CompleteJob(t)
    BY <2>2 DEF CompleteJob, Goto
  <2>3. CASE CompleteRun(t)
    BY <2>3 DEF CompleteRun, Leave, Vacate
  <2> QED BY <1>6, <2>1, <2>2, <2>3
<1>7. ASSUME NEW t \in Threads, MarkFailed(t) \/ FailItem(t)
      PROVE  WorkInv'
  <2>1. CASE MarkFailed(t)
    BY <2>1 DEF MarkFailed, Goto
  <2>2. CASE FailItem(t)
    BY <2>2 DEF FailItem, Goto
  <2> QED BY <1>7, <2>1, <2>2
<1>8. ASSUME NEW t \in Threads, FailJobRetry(t) \/ FailJobExhausted(t) \/ InsertDeadLetter(t)
      PROVE  WorkInv'
  <2>1. CASE FailJobRetry(t)
    BY <2>1 DEF FailJobRetry, Leave, Vacate
  <2>2. CASE FailJobExhausted(t)
    BY <2>2 DEF FailJobExhausted, Goto
  <2>3. CASE InsertDeadLetter(t)
    BY <2>3 DEF InsertDeadLetter, Leave, Vacate
  <2> QED BY <1>8, <2>1, <2>2, <2>3
<1>9. ASSUME NEW t \in Threads, StatementRaises(t) PROVE WorkInv'
  <2>1. CASE pc[t] \in Failing
    <3>1. Vacate({t}) /\ UNCHANGED <<itemStatus, jobStatus, worked>>
      BY <1>9, <2>1 DEF StatementRaises
    <3> QED BY <3>1 DEF Vacate
  <2>2. CASE pc[t] \notin Failing
    BY <1>9, <2>2 DEF StatementRaises, Goto
  <2> QED BY <2>1, <2>2
<1>10. CASE UNCHANGED vars
  BY <1>10 DEF vars
<1> QED
  BY <1>1, <1>2, <1>3, <1>4, <1>5, <1>6, <1>7, <1>8, <1>9, <1>10 DEF Next, Poll, ThreadStep

(* No job is reported completed unless process() returned for it.          *)
THEOREM QueueCompletedWasWorked == Spec => []CompletedWasWorked
<1>1. Init => WorkInv
  BY DEF Init, WorkInv, CompletedWasWorked, Completing
<1>2. WorkInv => CompletedWasWorked
  BY DEF WorkInv
<1>3. QED BY <1>1, <1>2, NextWorkInv, QueueTypeOK, PTL DEF Spec

(***************************************************************************)
(* The queue implements JobPromise: with the leases, the threads and the   *)
(* separate transactions hidden, every step is a step of the promise or    *)
(* leaves the job as the client knows it.                                  *)
(***************************************************************************)

(* Whoever is on a job found its row, read a retry count no larger than    *)
(* the row's, and a row that exists does not go away.                      *)
KnownInv ==
  /\ \A t \in Threads : pc[t] # "idle" => /\ itemStatus[job[t]] # "absent"
                                          /\ snapshot[t] <= retryCount[job[t]]
  /\ \A j \in Jobs : cancel[j] # "none" => itemStatus[j] # "absent"

LEMMA InitKnownInv == Init => KnownInv
BY DEF Init, KnownInv

(* Steps that change no row of queue_items and give no thread an item.     *)
LEMMA FrameKnownInv ==
  ASSUME TypeOK, KnownInv, UNCHANGED <<itemStatus, retryCount>>,
         \A j \in Jobs : cancel'[j] # "none" => cancel[j] # "none" \/ itemStatus[j] # "absent",
         \A t \in Threads : pc'[t] # "idle" => /\ pc[t] # "idle"
                                               /\ job'[t] = job[t] /\ snapshot'[t] = snapshot[t]
  PROVE  KnownInv'
BY DEF KnownInv

LEMMA NextKnownInv == TypeOK /\ KnownInv /\ [Next]_vars => KnownInv'
<1> SUFFICES ASSUME TypeOK, KnownInv, [Next]_vars PROVE KnownInv'
  OBVIOUS
<1> USE DEF itemVars, threadVars, logVars, history
<1>1. ASSUME NEW j \in Jobs, Enqueue(j) PROVE KnownInv'
  BY <1>1 DEF Enqueue, KnownInv, TypeOK
<1>2. ASSUME NEW j \in Jobs, CancelItem(j) PROVE KnownInv'
  BY <1>2 DEF CancelItem, KnownInv, TypeOK
<1>3. ASSUME NEW j \in Jobs,
             CancelJob(j) \/ CancelRaises(j) \/ LeaseLapses(j) \/ BecomesAvailable(j)
      PROVE  KnownInv'
  BY <1>3, FrameKnownInv DEF CancelJob, CancelRaises, LeaseLapses, BecomesAvailable, TypeOK
<1>4. ASSUME NEW t \in Threads, NEW j \in Jobs, Claim(t, j) PROVE KnownInv'
  BY <1>4 DEF Claim, Candidate, Claimable, Expired, KnownInv, TypeOK
<1>5. ASSUME NEW t \in Threads, Recover(t) PROVE KnownInv'
  BY <1>5 DEF Recover, Expired, KnownInv, TypeOK
<1>6. ASSUME NEW w \in Workers, Submit(w) \/ ClaimRaises(w) \/ Crash(w) PROVE KnownInv'
  BY <1>6, FrameKnownInv DEF Submit, ClaimRaises, Crash, Vacate
<1>7. ASSUME NEW t \in Threads, CompleteItem(t) PROVE KnownInv'
  BY <1>7 DEF CompleteItem, Goto, KnownInv, TypeOK
<1>8. ASSUME NEW t \in Threads, FailItem(t) PROVE KnownInv'
  <2>1. pc[t] = "fail_item" /\ job[t] \in Jobs
    BY <1>8 DEF FailItem, Goto, TypeOK
  <2>2. \A j \in Jobs : retryCount'[j] \in {retryCount[j], retryCount[j] + 1}
    BY <1>8 DEF FailItem, TypeOK
  <2>3. \A j \in Jobs : itemStatus[j] # "absent" => itemStatus'[j] # "absent"
    BY <1>8 DEF FailItem, TypeOK
  <2>4. \A u \in Threads : pc[u] # "idle" => job[u] \in Jobs
    BY DEF TypeOK
  <2>5. ASSUME NEW u \in Threads, pc'[u] # "idle"
        PROVE  itemStatus'[job'[u]] # "absent" /\ snapshot'[u] <= retryCount'[job'[u]]
    <3>1. pc[u] # "idle" /\ job'[u] = job[u] /\ snapshot'[u] = snapshot[u]
      BY <1>8, <2>1, <2>5 DEF FailItem, Goto, TypeOK
    <3>2. job[u] \in Jobs /\ snapshot[u] \in Nat /\ retryCount[job[u]] \in Nat
      BY <3>1, <2>4 DEF TypeOK
    <3>3. itemStatus[job[u]] # "absent" /\ snapshot[u] <= retryCount[job[u]]
      BY <3>1 DEF KnownInv
    <3> QED BY <2>2, <2>3, <3>1, <3>2, <3>3
  <2> QED BY <1>8, <2>3, <2>5 DEF FailItem, KnownInv
<1>9. ASSUME NEW t \in Threads,
             \/ ProcessReturns(t) \/ ProcessRaises(t) \/ MarkCompleted(t) \/ CompleteJob(t)
             \/ MarkFailed(t) \/ FailJobExhausted(t)
      PROVE  KnownInv'
  <2>1. /\ UNCHANGED <<itemStatus, retryCount, cancel, job, snapshot>>
        /\ pc[t] # "idle" /\ \E to : pc' = [pc EXCEPT ![t] = to]
    BY <1>9 DEF ProcessReturns, ProcessRaises, MarkCompleted, CompleteJob, MarkFailed,
       FailJobExhausted, Goto
  <2>2. \A u \in Threads : pc'[u] # "idle" => pc[u] # "idle"
    BY <2>1 DEF TypeOK
  <2>3. QED BY <2>1, <2>2, FrameKnownInv
<1>10. ASSUME NEW t \in Threads, CompleteRun(t) \/ FailJobRetry(t) \/ InsertDeadLetter(t)
       PROVE  KnownInv'
  BY <1>10, FrameKnownInv DEF CompleteRun, FailJobRetry, InsertDeadLetter, Leave, Vacate
<1>11. ASSUME NEW t \in Threads, StatementRaises(t) PROVE KnownInv'
  <2>1. CASE pc[t] \in Failing
    BY <1>11, <2>1, FrameKnownInv DEF StatementRaises, Vacate
  <2>2. CASE pc[t] \notin Failing
    BY <1>11, <2>2, FrameKnownInv DEF StatementRaises, Goto, TypeOK, Completing
  <2> QED BY <2>1, <2>2
<1>12. CASE UNCHANGED vars
  BY <1>12, FrameKnownInv DEF vars
<1> QED
  BY <1>1, <1>2, <1>3, <1>4, <1>5, <1>6, <1>7, <1>8, <1>9, <1>10, <1>11, <1>12
     DEF Next, Poll, ThreadStep

(***************************************************************************)
(* Every step of the queue is a step of the promise or a stutter.          *)
(***************************************************************************)

Hidden == UNCHANGED <<itemStatus, retryCount, worked, overrun, torn>>

(* What the client sees of a step that writes the row of one job.          *)
LEMMA OneRow ==
  ASSUME itemStatus \in [Jobs -> ItemStatus], NEW j \in Jobs, NEW s \in ItemStatus,
         itemStatus' = [itemStatus EXCEPT ![j] = s]
  PROVE  [k \in Jobs |-> StageOf(itemStatus[k])]'
           = [[k \in Jobs |-> StageOf(itemStatus[k])] EXCEPT ![j] = StageOf(s)]
OBVIOUS

LEMMA PromiseInit == Init => P!Init
BY DEF Init, P!Init, StageOf

(* Nothing the client sees changes, or some job has been disturbed.        *)
LEMMA DisturbPromise ==
  ASSUME UNCHANGED <<itemStatus, retryCount, worked>>,
         overrun \subseteq overrun', torn \subseteq torn',
         overrun' \subseteq Jobs, torn' \subseteq Jobs
  PROVE  P!Next
<1>1. (overrun \cup torn)' = (overrun \cup torn) \cup (overrun' \cup torn')
  OBVIOUS
<1>2. overrun' \cup torn' \in SUBSET Jobs
  OBVIOUS
<1>3. P!Disturb
  BY <1>1, <1>2 DEF P!Disturb
<1> QED BY <1>3 DEF P!Next

LEMMA HiddenPromise == Hidden => UNCHANGED P!promise
BY DEF Hidden, P!promise

LEMMA EnqueuePromise ==
  ASSUME itemStatus \in [Jobs -> ItemStatus], NEW j \in Jobs, Enqueue(j)
  PROVE  P!Next
<1>1. P!Becomes(j, "pending")
  BY OneRow DEF Enqueue, P!Becomes, StageOf, ItemStatus
<1>2. P!Accept(j)
  BY <1>1 DEF Enqueue, P!Accept, StageOf, history
<1> QED BY <1>2 DEF P!Next

LEMMA CancelItemPromise ==
  ASSUME itemStatus \in [Jobs -> ItemStatus], NEW j \in Jobs, CancelItem(j),
         itemStatus[j] # "absent"
  PROVE  P!Next
<1>1. P!Becomes(j, "cancelled")
  BY OneRow DEF CancelItem, P!Becomes, StageOf, ItemStatus
<1>2. P!Cancel(j)
  BY <1>1 DEF CancelItem, P!Cancel, StageOf, ItemStatus, history
<1> QED BY <1>2 DEF P!Next

LEMMA WorkPromise ==
  ASSUME itemStatus \in [Jobs -> ItemStatus], NEW t \in Threads, job[t] \in Jobs,
         ProcessReturns(t), itemStatus[job[t]] # "absent"
  PROVE  P!Next
<1>1. P!Work(job[t])
  BY DEF ProcessReturns, P!Work, StageOf, ItemStatus, itemVars
<1> QED BY <1>1 DEF P!Next

(* An undisturbed job whose row is about to be written is open.            *)
LEMMA OpenForItsThread ==
  ASSUME itemStatus \in [Jobs -> ItemStatus], NEW j \in Jobs, itemStatus[j] # "absent",
         j \notin overrun \cup torn => itemStatus[j] \in {"running", "cancelled"}
  PROVE  P!Open(j)
<1>1. CASE j \in overrun \cup torn
  BY <1>1 DEF P!Open, StageOf, ItemStatus
<1>2. CASE j \notin overrun \cup torn
  BY <1>2 DEF P!Open, StageOf
<1> QED BY <1>1, <1>2

LEMMA CompleteItemPromise ==
  ASSUME itemStatus \in [Jobs -> ItemStatus], NEW t \in Threads, CompleteItem(t),
         NEW j \in Jobs, job[t] = j, j \in worked, itemStatus[j] # "absent",
         j \notin overrun \cup torn => itemStatus[j] \in {"running", "cancelled"}
  PROVE  P!Next
<1>1. P!Becomes(j, "done")
  BY OneRow DEF CompleteItem, P!Becomes, StageOf, ItemStatus
<1>2. P!Finish(j)
  BY <1>1, OpenForItsThread DEF P!Finish, CompleteItem, history
<1> QED BY <1>2 DEF P!Next

LEMMA FailItemPromise ==
  ASSUME itemStatus \in [Jobs -> ItemStatus], NEW t \in Threads, FailItem(t),
         NEW j \in Jobs, job[t] = j, itemStatus[j] # "absent",
         snapshot[t] \in Nat, retryCount[j] \in Nat, snapshot[t] <= retryCount[j],
         j \notin overrun \cup torn => /\ itemStatus[j] \in {"running", "cancelled"}
                                       /\ snapshot[t] = retryCount[j]
  PROVE  P!Next
<1>1. P!Open(j)
  BY OpenForItsThread
<1>2. MaxRetries[j] \in Nat
  BY QueueAssumption
<1>3. UNCHANGED <<worked, overrun, torn>> /\ retryCount' = [retryCount EXCEPT ![j] = @ + 1]
  BY DEF FailItem, history
<1>4. CASE ShouldRetry(t)
  <2>1. P!Becomes(j, "pending")
    BY <1>4, OneRow DEF FailItem, P!Becomes, StageOf, ItemStatus
  <2>2. retryCount[j] < MaxRetries[j] \/ j \in overrun \cup torn
    BY <1>2, <1>4 DEF ShouldRetry
  <2>3. P!Fail(j)
    BY <1>1, <1>3, <2>1, <2>2 DEF P!Fail
  <2> QED BY <2>3 DEF P!Next
<1>5. CASE ~ShouldRetry(t)
  <2>1. P!Becomes(j, "dead")
    BY <1>5, OneRow DEF FailItem, P!Becomes, StageOf, ItemStatus
  <2>2. retryCount[j] >= MaxRetries[j]
    BY <1>2, <1>5 DEF ShouldRetry
  <2>3. P!Fail(j)
    BY <1>1, <1>3, <2>1, <2>2 DEF P!Fail
  <2> QED BY <2>3 DEF P!Next
<1> QED BY <1>4, <1>5

LEMMA PromiseStep ==
  ASSUME TypeOK, QueueInv, WorkInv, KnownInv, [Next]_vars
  PROVE  P!Next \/ UNCHANGED P!promise
<1> USE DEF itemVars, threadVars, logVars, history
<1>1. TypeOK' /\ itemStatus \in [Jobs -> ItemStatus]
  BY NextTypeOK DEF TypeOK
<1>2. ASSUME NEW t \in Threads, pc[t] # "idle"
      PROVE  /\ job[t] \in Jobs /\ itemStatus[job[t]] # "absent"
             /\ snapshot[t] \in Nat /\ retryCount[job[t]] \in Nat
             /\ snapshot[t] <= retryCount[job[t]]
  BY <1>2 DEF TypeOK, KnownInv
<1>3. ASSUME NEW t \in Threads, pc[t] \in {"complete_item", "fail_item"},
             job[t] \notin overrun \cup torn
      PROVE  /\ itemStatus[job[t]] \in {"running", "cancelled"}
             /\ snapshot[t] = retryCount[job[t]]
  <2>1. Holds(t, job[t]) /\ job[t] \in Jobs
    BY <1>2, <1>3 DEF Holds, HoldingPC, PC, Completing, Failing
  <2> QED BY <1>3, <2>1 DEF QueueInv, UnsettledUntilWritten, HolderKnowsRow
<1>4. ASSUME NEW j \in Jobs, CancelItem(j) PROVE P!Next
  BY <1>1, <1>4, CancelItemPromise DEF CancelItem, KnownInv
<1>5. ASSUME NEW j \in Jobs, CancelJob(j) \/ CancelRaises(j) \/ BecomesAvailable(j)
      PROVE  Hidden
  BY <1>5 DEF CancelJob, CancelRaises, BecomesAvailable, Hidden
<1>6. ASSUME NEW j \in Jobs, LeaseLapses(j) PROVE P!Next
  BY <1>1, <1>6, DisturbPromise DEF LeaseLapses, TypeOK
<1>7. ASSUME NEW t \in Threads, Poll(t) PROVE UNCHANGED P!promise
  <2>1. \A k \in Jobs : StageOf(itemStatus'[k]) = StageOf(itemStatus[k])
    BY <1>7 DEF Poll, Claim, Recover, Candidate, Claimable, Expired, StageOf
  <2> QED BY <1>7, <2>1 DEF Poll, Claim, Recover, P!promise
<1>8. ASSUME NEW t \in Threads, ProcessReturns(t) PROVE P!Next
  BY <1>1, <1>2, <1>8, WorkPromise DEF ProcessReturns, Goto
<1>9. ASSUME NEW t \in Threads, CompleteItem(t) PROVE P!Next
  <2>1. pc[t] = "complete_item" /\ job[t] \in worked
    BY <1>9 DEF CompleteItem, Goto, WorkInv, Completing
  <2> QED BY <1>1, <1>2, <1>3, <1>9, <2>1, CompleteItemPromise
<1>10. ASSUME NEW t \in Threads, FailItem(t) PROVE P!Next
  <2>1. pc[t] = "fail_item"
    BY <1>10 DEF FailItem, Goto
  <2> QED BY <1>1, <1>2, <1>3, <1>10, <2>1, FailItemPromise
<1>11. ASSUME NEW t \in Threads,
              \/ ProcessRaises(t) \/ MarkCompleted(t) \/ CompleteJob(t) \/ CompleteRun(t)
              \/ MarkFailed(t) \/ FailJobRetry(t) \/ FailJobExhausted(t) \/ InsertDeadLetter(t)
       PROVE  Hidden
  BY <1>11 DEF ProcessRaises, MarkCompleted, CompleteJob, CompleteRun, MarkFailed,
     FailJobRetry, FailJobExhausted, InsertDeadLetter, Hidden
<1>12. ASSUME NEW t \in Threads, StatementRaises(t) PROVE P!Next
  BY <1>1, <1>12, DisturbPromise DEF StatementRaises, TypeOK
<1>13. ASSUME NEW w \in Workers, Submit(w) \/ ClaimRaises(w) PROVE Hidden
  BY <1>13 DEF Submit, ClaimRaises, Hidden
<1>14. ASSUME NEW w \in Workers, Crash(w) PROVE P!Next
  BY <1>1, <1>14, DisturbPromise DEF Crash, TypeOK
<1>15. CASE UNCHANGED vars
  BY <1>15, HiddenPromise DEF vars, Hidden
<1> QED
  BY <1>1, <1>4, <1>5, <1>6, <1>7, <1>8, <1>9, <1>10, <1>11, <1>12, <1>13, <1>14, <1>15,
     EnqueuePromise, HiddenPromise DEF Next, ThreadStep

LEMMA QueueKnownInv == Spec => []KnownInv
<1>1. QED BY InitKnownInv, NextKnownInv, QueueTypeOK, PTL DEF Spec

(* The tables, seen as a client sees them, keep the promise of JobPromise: *)
(* only worked jobs are done, only jobs that failed too often are dead,    *)
(* and neither changes again unless cancelled or disturbed.                *)
THEOREM QueueKeepsPromise == Spec => Promise
<1>1. Init => WorkInv
  BY DEF Init, WorkInv, CompletedWasWorked, Completing
<1>2. TypeOK /\ QueueInv /\ WorkInv /\ KnownInv /\ [Next]_vars => [P!Next]_(P!promise)
  BY PromiseStep
<1>3. QED
  BY <1>1, <1>2, PromiseInit, QueueKnownInv, NextWorkInv, QueueTypeOK, QueueInvariant, PTL
     DEF Spec, Promise, P!Spec

(***************************************************************************)
(* The two rows of a job.  A job that nothing disturbed has at most one    *)
(* thread on it, which knows how far the rows have come apart; the rows    *)
(* agree as soon as it has left.                                           *)
(***************************************************************************)

Steady(j) == j \notin torn \cup overlap /\ cancel[j] = "none"

Unsettled == HoldingPC \ {"complete_job", "complete_run"}

(* How far the rows of j have come under the thread t. *)
Underway(t, j) ==
  /\ pc[t] \in Unsettled => itemStatus[j] \in {"queued", "running"}
  /\ pc[t] \in {"complete_job", "complete_run"} => itemStatus[j] = "completed"
  /\ pc[t] = "fail_job" => itemStatus[j] = IF ShouldRetry(t) THEN "queued" ELSE "dead_letter"
  /\ pc[t] = "dead_letter" => itemStatus[j] = "dead_letter"
  /\ jobStatus[j] = CASE pc[t] = "complete_run" -> "completed"
                      [] pc[t] = "dead_letter" -> "failed"
                      [] OTHER -> "queued"
  /\ pc[t] \notin {"complete_job", "complete_run"} => deadLetters[j] = 0

AtRest(j) ==
  /\ Agree(j)
  /\ itemStatus[j] \in {"absent", "queued", "running"} => deadLetters[j] = 0

RowsSound(j) ==
  /\ \A t, u \in Threads : WorksOn(t, j) /\ WorksOn(u, j) => t = u
  /\ \A t \in Threads : WorksOn(t, j) => Underway(t, j)
  /\ (\A t \in Threads : ~WorksOn(t, j)) => AtRest(j)

RowsInv == \A j \in Jobs : Steady(j) => RowsSound(j)

LEMMA RowsInit == Init => RowsInv
BY DEF Init, RowsInv, RowsSound, AtRest, Agree, WorksOn

(* A step that leaves the rows and the threads of a job as they are, up to *)
(* a claim of it that lapses and the calls before the item is settled.     *)
LEMMA RowsKept ==
  ASSUME TypeOK, RowsInv, NEW j \in Jobs, Steady(j),
         \/ itemStatus'[j] = itemStatus[j]
         \/ itemStatus[j] = "running" /\ itemStatus'[j] = "queued",
         jobStatus'[j] = jobStatus[j], deadLetters'[j] = deadLetters[j],
         \A t \in Threads : WorksOn(t, j) => WorksOn(t, j)',
         \A t \in Threads : WorksOn(t, j)' =>
           /\ WorksOn(t, j) /\ snapshot'[t] = snapshot[t]
           /\ pc'[t] = pc[t] \/ {pc[t], pc'[t]} \subseteq Unsettled
  PROVE  RowsSound(j)'
<1>1. RowsSound(j)
  BY DEF RowsInv
<1>2. \A t, u \in Threads : WorksOn(t, j)' /\ WorksOn(u, j)' => t = u
  BY <1>1 DEF RowsSound
<1>3. ASSUME NEW t \in Threads, WorksOn(t, j)' PROVE Underway(t, j)'
  <2>1. WorksOn(t, j) /\ snapshot'[t] = snapshot[t] /\ Underway(t, j)
    BY <1>1, <1>3 DEF RowsSound
  <2>2. job'[t] = job[t] /\ (ShouldRetry(t)' <=> ShouldRetry(t))
    BY <1>3, <2>1 DEF WorksOn, ShouldRetry
  <2>3. CASE pc'[t] = pc[t]
    BY <2>1, <2>2, <2>3 DEF Underway, Unsettled, HoldingPC, PC, Completing, Failing
  <2>4. CASE {pc[t], pc'[t]} \subseteq Unsettled
    BY <2>1, <2>4 DEF Underway, Unsettled, HoldingPC, PC, Completing, Failing
  <2>5. QED BY <1>3, <2>3, <2>4
<1>4. ASSUME \A t \in Threads : ~WorksOn(t, j)' PROVE AtRest(j)'
  <2>1. AtRest(j) BY <1>1, <1>4 DEF RowsSound
  <2>2. QED BY <2>1 DEF AtRest, Agree
<1>5. QED BY <1>2, <1>3, <1>4 DEF RowsSound

(* A step that moves no thread onto or off a job. *)
LEMMA RowsStill ==
  ASSUME TypeOK, RowsInv, NEW j \in Jobs, Steady(j), UNCHANGED <<pc, job, snapshot>>,
         \/ itemStatus'[j] = itemStatus[j]
         \/ itemStatus[j] = "running" /\ itemStatus'[j] = "queued",
         jobStatus'[j] = jobStatus[j], deadLetters'[j] = deadLetters[j]
  PROVE  RowsSound(j)'
<1>1. \A t \in Threads : WorksOn(t, j)' <=> WorksOn(t, j)
  BY DEF WorksOn
<1>2. QED BY <1>1, RowsKept

(* Threads that leave an item before they have settled it leave it as the  *)
(* client knows it.                                                        *)
LEMMA RowsVacated ==
  ASSUME TypeOK, RowsInv, NEW j \in Jobs, Steady(j), NEW T \in SUBSET Threads, Vacate(T),
         UNCHANGED <<itemStatus, jobStatus, deadLetters>>,
         \A t \in T : WorksOn(t, j) => pc[t] \in Unsettled
  PROVE  RowsSound(j)'
<1>1. RowsSound(j)
  BY DEF RowsInv
<1>2. \A t \in Threads : WorksOn(t, j)' <=> WorksOn(t, j) /\ t \notin T
  BY DEF WorksOn, Vacate, TypeOK
<1>3. \A t \in Threads : WorksOn(t, j)' => pc'[t] = pc[t] /\ snapshot'[t] = snapshot[t]
  BY <1>2 DEF Vacate
<1>4. CASE \E t \in T : WorksOn(t, j)
  <2>1. PICK t \in T : WorksOn(t, j) BY <1>4
  <2>2. Underway(t, j) /\ pc[t] \in Unsettled
    BY <1>1, <2>1 DEF RowsSound
  <2>3. itemStatus[j] \in {"queued", "running"} /\ jobStatus[j] = "queued" /\ deadLetters[j] = 0
    BY <2>2 DEF Underway, Unsettled, HoldingPC, PC, Completing, Failing
  <2>4. \A u \in Threads : ~WorksOn(u, j)'
    BY <1>1, <1>2, <2>1 DEF RowsSound
  <2>5. AtRest(j)'
    BY <2>3 DEF AtRest, Agree
  <2>6. QED BY <2>4, <2>5 DEF RowsSound
<1>5. CASE \A t \in T : ~WorksOn(t, j)
  BY <1>2, <1>3, <1>5, RowsKept
<1>6. QED BY <1>4, <1>5

(* The thread that works on a job is at one point, and the job with it.    *)
LEMMA RowsMoved ==
  ASSUME TypeOK, RowsInv, NEW t \in Threads, NEW to \in PC \ {"idle"}, pc[t] # "idle",
         Goto(t, pc[t], to), Steady(job[t]), Underway(t, job[t])'
  PROVE  RowsSound(job[t])'
<1>1. job[t] \in Jobs
  BY DEF TypeOK
<1>2. RowsSound(job[t]) /\ WorksOn(t, job[t])
  BY <1>1 DEF RowsInv, WorksOn
<1>3. \A u \in Threads : WorksOn(u, job[t])' <=> u = t
  BY <1>1, <1>2 DEF RowsSound, WorksOn, Goto, TypeOK
<1>4. job' = job
  BY DEF Goto
<1>5. \A u \in Threads : WorksOn(u, job[t])' => Underway(u, job[t])'
  BY <1>3, <1>4
<1>6. QED BY <1>3, <1>4, <1>5 DEF RowsSound

LEMMA RowsLeft ==
  ASSUME TypeOK, RowsInv, NEW t \in Threads, NEW j \in Jobs, WorksOn(t, j), Vacate({t}), Steady(j),
         AtRest(j)'
  PROVE  RowsSound(j)'
<1>1. RowsSound(j)
  BY DEF RowsInv
<1>2. \A u \in Threads : ~WorksOn(u, j)'
  BY <1>1 DEF RowsSound, WorksOn, Vacate, TypeOK
<1>3. QED BY <1>2 DEF RowsSound

(* What the thread of a steady job knows. *)
LEMMA Knows ==
  ASSUME TypeOK, RowsInv, NEW t \in Threads, pc[t] # "idle"
  PROVE  job[t] \in Jobs /\ WorksOn(t, job[t]) /\ (Steady(job[t]) => Underway(t, job[t]))
BY DEF TypeOK, RowsInv, RowsSound, WorksOn

(* A step of one thread leaves the other jobs alone. *)
LEMMA RowsElsewhere ==
  ASSUME TypeOK, RowsInv, NEW t \in Threads, pc[t] # "idle",
         \/ Vacate({t})
         \/ \E to \in PC \ {"idle"} : Goto(t, pc[t], to),
         NEW j \in Jobs \ {job[t]}, Steady(j),
         itemStatus'[j] = itemStatus[j], jobStatus'[j] = jobStatus[j],
         deadLetters'[j] = deadLetters[j]
  PROVE  RowsSound(j)'
<1>1. \A u \in Threads : /\ WorksOn(u, j)' <=> WorksOn(u, j)
                         /\ WorksOn(u, j) => pc'[u] = pc[u] /\ snapshot'[u] = snapshot[u]
  BY DEF Vacate, Goto, WorksOn, TypeOK
<1>2. QED BY <1>1, RowsKept

-----------------------------------------------------------------------------
(* Enqueueing a job and claiming it.                                       *)

LEMMA EnqueueRows ==
  ASSUME TypeOK, RowsInv, KnownInv, NEW k \in Jobs, Enqueue(k), NEW j \in Jobs, Steady(j)
  PROVE  RowsSound(j)'
<1> USE DEF Enqueue, threadVars, logVars
<1>1. CASE j # k
  <2>1. itemStatus'[j] = itemStatus[j] /\ jobStatus'[j] = jobStatus[j]
    BY <1>1 DEF TypeOK
  <2>2. QED BY <2>1, RowsStill
<1>2. CASE j = k
  <2>1. \A t \in Threads : ~WorksOn(t, j) /\ ~WorksOn(t, j)'
    BY <1>2 DEF KnownInv, WorksOn
  <2>2. deadLetters[j] = 0
    BY <1>2, <2>1 DEF RowsInv, RowsSound, AtRest
  <2>3. AtRest(j)'
    BY <1>2, <2>2 DEF AtRest, Agree, TypeOK
  <2>4. QED BY <2>1, <2>3 DEF RowsSound
<1>3. QED BY <1>1, <1>2

LEMMA ClaimRows ==
  ASSUME TypeOK, RowsInv, NEW t \in Threads, NEW k \in Jobs, Claim(t, k),
         NEW j \in Jobs, Steady(j), Steady(j)'
  PROVE  RowsSound(j)'
<1> USE DEF Claim, logVars
<1>1. CASE j # k
  <2>1. \A u \in Threads : /\ WorksOn(u, j)' <=> WorksOn(u, j)
                           /\ WorksOn(u, j) => pc'[u] = pc[u] /\ snapshot'[u] = snapshot[u]
    BY <1>1 DEF WorksOn, TypeOK
  <2>2. \/ itemStatus'[j] = itemStatus[j]
        \/ itemStatus[j] = "running" /\ itemStatus'[j] = "queued"
    BY <1>1 DEF Expired
  <2>3. QED BY <2>1, <2>2, RowsKept
<1>2. CASE j = k
  <2>1. \A u \in Threads : ~WorksOn(u, j)
    BY <1>2 DEF Steady
  <2>2. itemStatus[j] = "queued" /\ jobStatus[j] = "queued" /\ deadLetters[j] = 0
    BY <1>2, <2>1 DEF RowsInv, RowsSound, AtRest, Agree, Candidate, Claimable
  <2>3. \A u \in Threads : WorksOn(u, j)' <=> u = t
    BY <1>2, <2>1, QueueAssumption DEF WorksOn, TypeOK
  <2>4. Underway(t, j)'
    BY <1>2, <2>2 DEF Underway, TypeOK, Unsettled, HoldingPC, PC
  <2>5. QED BY <2>3, <2>4 DEF RowsSound
<1>3. QED BY <1>1, <1>2

-----------------------------------------------------------------------------
(* The steps of complete() and fail().                                     *)

LEMMA CompleteRows ==
  ASSUME TypeOK, RowsInv, NEW t \in Threads,
         CompleteItem(t) \/ CompleteJob(t) \/ CompleteRun(t), NEW j \in Jobs, Steady(j)
  PROVE  RowsSound(j)'
<1> USE DEF itemVars, logVars, history
<1>1. pc[t] \in Completing /\ pc[t] # "idle"
  BY DEF CompleteItem, CompleteJob, CompleteRun, Goto, Leave, Completing
<1>2. job[t] \in Jobs /\ WorksOn(t, job[t]) /\ (Steady(job[t]) => Underway(t, job[t]))
  BY <1>1, Knows
<1>3. CASE j # job[t]
  <2>1. \/ Vacate({t})
        \/ \E to \in PC \ {"idle"} : Goto(t, pc[t], to)
    BY DEF CompleteItem, CompleteJob, CompleteRun, Goto, Leave, PC, Completing
  <2>2. /\ itemStatus'[j] = itemStatus[j] /\ jobStatus'[j] = jobStatus[j]
        /\ deadLetters'[j] = deadLetters[j]
    BY <1>3 DEF CompleteItem, CompleteJob, CompleteRun, TypeOK
  <2>3. QED BY <1>1, <1>3, <2>1, <2>2, RowsElsewhere
<1>4. CASE j = job[t] /\ CompleteItem(t)
  <2>1. pc[t] = "complete_item" /\ Goto(t, pc[t], "complete_job") /\ pc'[t] = "complete_job"
        /\ job' = job
    BY <1>4 DEF CompleteItem, Goto, TypeOK
  <2>2. jobStatus[j] = "queued"
    BY <1>2, <1>4, <2>1 DEF Underway
  <2>3. itemStatus'[j] = "completed" /\ jobStatus' = jobStatus
    BY <1>4 DEF CompleteItem, TypeOK
  <2>4. Underway(t, job[t])'
    BY <1>4, <2>1, <2>2, <2>3 DEF Underway, Unsettled, HoldingPC
  <2>5. "complete_job" \in PC \ {"idle"} BY DEF PC, Completing
  <2>6. QED BY <1>1, <1>4, <2>1, <2>4, <2>5, RowsMoved
<1>5. CASE j = job[t] /\ CompleteJob(t)
  <2>1. pc[t] = "complete_job" /\ Goto(t, pc[t], "complete_run") /\ pc'[t] = "complete_run"
        /\ job' = job
    BY <1>5 DEF CompleteJob, Goto, TypeOK
  <2>2. itemStatus[j] = "completed"
    BY <1>2, <1>5, <2>1 DEF Underway
  <2>3. jobStatus'[j] = "completed" /\ itemStatus' = itemStatus
    BY <1>5 DEF CompleteJob, TypeOK
  <2>4. Underway(t, job[t])'
    BY <1>5, <2>1, <2>2, <2>3 DEF Underway, Unsettled, HoldingPC
  <2>5. "complete_run" \in PC \ {"idle"} BY DEF PC, Completing
  <2>6. QED BY <1>1, <1>5, <2>1, <2>4, <2>5, RowsMoved
<1>6. CASE j = job[t] /\ CompleteRun(t)
  <2>1. pc[t] = "complete_run" /\ Vacate({t})
    BY <1>6 DEF CompleteRun, Leave
  <2>2. itemStatus[j] = "completed" /\ jobStatus[j] = "completed"
    BY <1>2, <1>6, <2>1 DEF Underway
  <2>3. AtRest(j)'
    BY <1>6, <2>2 DEF CompleteRun, AtRest, Agree
  <2>4. QED BY <1>2, <1>6, <2>1, <2>3, RowsLeft
<1>7. QED BY <1>3, <1>4, <1>5, <1>6

LEMMA FailRows ==
  ASSUME TypeOK, RowsInv, NEW t \in Threads,
         FailItem(t) \/ FailJobRetry(t) \/ FailJobExhausted(t) \/ InsertDeadLetter(t),
         NEW j \in Jobs, Steady(j)
  PROVE  RowsSound(j)'
<1> USE DEF itemVars, logVars, history
<1>1. pc[t] \in Failing /\ pc[t] # "idle"
  BY DEF FailItem, FailJobRetry, FailJobExhausted, InsertDeadLetter, Goto, Leave, Failing
<1>2. job[t] \in Jobs /\ WorksOn(t, job[t]) /\ (Steady(job[t]) => Underway(t, job[t]))
  BY <1>1, Knows
<1>3. CASE j # job[t]
  <2>1. \/ Vacate({t})
        \/ \E to \in PC \ {"idle"} : Goto(t, pc[t], to)
    BY DEF FailItem, FailJobRetry, FailJobExhausted, InsertDeadLetter, Goto, Leave, PC, Failing
  <2>2. /\ itemStatus'[j] = itemStatus[j] /\ jobStatus'[j] = jobStatus[j]
        /\ deadLetters'[j] = deadLetters[j]
    BY <1>3 DEF FailItem, FailJobRetry, FailJobExhausted, InsertDeadLetter, TypeOK
  <2>3. QED BY <1>1, <1>3, <2>1, <2>2, RowsElsewhere
<1>4. CASE j = job[t] /\ FailItem(t)
  <2>1. pc[t] = "fail_item" /\ Goto(t, pc[t], "fail_job") /\ pc'[t] = "fail_job"
        /\ snapshot' = snapshot /\ job' = job
    BY <1>4 DEF FailItem, Goto, TypeOK
  <2>2. jobStatus[j] = "queued" /\ deadLetters[j] = 0
    BY <1>2, <1>4, <2>1 DEF Underway
  <2>3. itemStatus'[j] = (IF ShouldRetry(t) THEN "queued" ELSE "dead_letter")
        /\ jobStatus' = jobStatus /\ deadLetters' = deadLetters
    BY <1>4 DEF FailItem, TypeOK
  <2>4. ShouldRetry(t)' <=> ShouldRetry(t)
    BY <2>1 DEF ShouldRetry
  <2>5. Underway(t, job[t])'
    BY <1>4, <2>1, <2>2, <2>3, <2>4 DEF Underway, Unsettled, HoldingPC
  <2>6. "fail_job" \in PC \ {"idle"} BY DEF PC, Failing
  <2>7. QED BY <1>1, <1>4, <2>1, <2>5, <2>6, RowsMoved
<1>5. CASE j = job[t] /\ FailJobExhausted(t)
  <2>1. pc[t] = "fail_job" /\ Goto(t, pc[t], "dead_letter") /\ pc'[t] = "dead_letter" /\ job' = job
    BY <1>5 DEF FailJobExhausted, Goto, TypeOK
  <2>2. itemStatus[j] = "dead_letter" /\ deadLetters[j] = 0
    BY <1>2, <1>5, <2>1 DEF Underway, FailJobExhausted
  <2>3. jobStatus'[j] = "failed" /\ itemStatus' = itemStatus /\ deadLetters' = deadLetters
    BY <1>5 DEF FailJobExhausted, TypeOK
  <2>4. Underway(t, job[t])'
    BY <1>5, <2>1, <2>2, <2>3 DEF Underway, Unsettled, HoldingPC
  <2>5. "dead_letter" \in PC \ {"idle"} BY DEF PC, Failing
  <2>6. QED BY <1>1, <1>5, <2>1, <2>4, <2>5, RowsMoved
<1>6. CASE j = job[t] /\ FailJobRetry(t)
  <2>1. pc[t] = "fail_job" /\ Vacate({t})
    BY <1>6 DEF FailJobRetry, Leave
  <2>2. itemStatus[j] = "queued" /\ deadLetters[j] = 0
    BY <1>2, <1>6, <2>1 DEF Underway, FailJobRetry
  <2>3. jobStatus'[j] = "queued" /\ itemStatus' = itemStatus /\ deadLetters' = deadLetters
    BY <1>6 DEF FailJobRetry, TypeOK
  <2>4. AtRest(j)'
    BY <2>2, <2>3 DEF AtRest, Agree
  <2>5. QED BY <1>2, <1>6, <2>1, <2>4, RowsLeft
<1>7. CASE j = job[t] /\ InsertDeadLetter(t)
  <2>1. pc[t] = "dead_letter" /\ Vacate({t})
    BY <1>7 DEF InsertDeadLetter, Leave
  <2>2. itemStatus[j] = "dead_letter" /\ jobStatus[j] = "failed" /\ deadLetters[j] = 0
    BY <1>2, <1>7, <2>1 DEF Underway
  <2>3. deadLetters'[j] = 1 /\ itemStatus' = itemStatus /\ jobStatus' = jobStatus
    BY <1>7, <2>2 DEF InsertDeadLetter, TypeOK
  <2>4. AtRest(j)'
    BY <2>2, <2>3 DEF AtRest, Agree
  <2>5. QED BY <1>2, <1>7, <2>1, <2>4, RowsLeft
<1>8. QED BY <1>3, <1>4, <1>5, <1>6, <1>7

-----------------------------------------------------------------------------
(* Faults: a thread that a fault takes away between two updates is torn.   *)

LEMMA FaultRows ==
  ASSUME TypeOK, RowsInv, NEW j \in Jobs, Steady(j), Steady(j)',
         \/ \E t \in Threads : StatementRaises(t)
         \/ \E w \in Workers : Crash(w) \/ ClaimRaises(w)
  PROVE  RowsSound(j)'
<1> USE DEF itemVars, logVars, history
<1>1. \A t \in Threads : pc[t] # "idle" /\ pc[t] \notin MidUpdate => pc[t] \in Unsettled
  BY DEF TypeOK, MidUpdate, Unsettled, HoldingPC, PC, Completing, Failing
<1>2. ASSUME NEW w \in Workers, Crash(w) PROVE RowsSound(j)'
  <2> DEFINE T == {t \in Threads : WorkerOf[t] = w}
  <2>1. \A t \in T : WorksOn(t, j) => pc[t] \in Unsettled
    BY <1>1, <1>2 DEF Crash, Steady, WorksOn
  <2>2. T \in SUBSET Threads OBVIOUS
  <2>3. Vacate(T) /\ UNCHANGED <<itemStatus, jobStatus, deadLetters>>
    BY <1>2 DEF Crash
  <2>4. QED BY <2>1, <2>2, <2>3, RowsVacated
<1>3. ASSUME NEW w \in Workers, ClaimRaises(w) PROVE RowsSound(j)'
  <2> DEFINE T == {t \in Threads : WorkerOf[t] = w /\ pc[t] = "claimed"}
  <2>1. \A t \in T : WorksOn(t, j) => pc[t] \in Unsettled
    BY <1>1 DEF MidUpdate, WorksOn
  <2>2. T \in SUBSET Threads OBVIOUS
  <2>3. Vacate(T) /\ UNCHANGED <<itemStatus, jobStatus, deadLetters>>
    BY <1>3 DEF ClaimRaises
  <2>4. QED BY <2>1, <2>2, <2>3, RowsVacated
<1>4. ASSUME NEW t \in Threads, StatementRaises(t) PROVE RowsSound(j)'
  <2>1. UNCHANGED <<itemStatus, jobStatus, deadLetters>>
    BY <1>4 DEF StatementRaises
  <2>2. WorksOn(t, j) => pc[t] \in Unsettled
    BY <1>1, <1>4 DEF StatementRaises, Steady, WorksOn
  <2>3. CASE Vacate({t})
    BY <2>1, <2>2, <2>3, RowsVacated
  <2>4. CASE Goto(t, pc[t], "mark_failed")
    <3>1. pc[t] # "idle" BY <1>4 DEF StatementRaises, Completing, Failing
    <3>2. \A u \in Threads : /\ WorksOn(u, j)' <=> WorksOn(u, j)
                             /\ snapshot'[u] = snapshot[u]
                             /\ u # t => pc'[u] = pc[u]
      BY <2>4, <3>1 DEF Goto, WorksOn, TypeOK
    <3>3. pc'[t] = "mark_failed" /\ "mark_failed" \in Unsettled
      BY <2>4 DEF Goto, TypeOK, Unsettled, HoldingPC, PC, Failing
    <3>4. QED BY <2>1, <2>2, <3>2, <3>3, RowsKept
  <2>5. QED BY <1>4, <2>3, <2>4 DEF StatementRaises
<1>5. QED BY <1>2, <1>3, <1>4

LEMMA NextRowsInv == TypeOK /\ KnownInv /\ RowsInv /\ [Next]_vars => RowsInv'
<1> SUFFICES ASSUME TypeOK, KnownInv, RowsInv, [Next]_vars, NEW j \in Jobs, Steady(j)'
             PROVE  RowsSound(j)'
  BY DEF RowsInv
<1> USE DEF itemVars, threadVars, logVars, history
<1> DEFINE SteadyBefore == torn \subseteq torn' /\ overlap \subseteq overlap'
                             /\ (cancel'[j] = "none" => cancel[j] = "none")
<1>1. SteadyBefore
  <2>1. CASE UNCHANGED vars BY <2>1 DEF vars
  <2>2. ASSUME NEW k \in Jobs, \/ Enqueue(k) \/ CancelJob(k) \/ CancelItem(k) \/ CancelRaises(k)
                               \/ LeaseLapses(k) \/ BecomesAvailable(k)
        PROVE  SteadyBefore
    BY <2>2 DEF Enqueue, CancelJob, CancelItem, CancelRaises, LeaseLapses, BecomesAvailable, TypeOK
  <2>3. ASSUME NEW t \in Threads, Poll(t) \/ ThreadStep(t) \/ StatementRaises(t)
        PROVE  SteadyBefore
    BY <2>3 DEF Poll, Claim, Recover, ThreadStep, ProcessReturns, ProcessRaises, MarkCompleted,
          CompleteItem, CompleteJob, CompleteRun, MarkFailed, FailItem, FailJobRetry,
          FailJobExhausted, InsertDeadLetter, StatementRaises
  <2>4. ASSUME NEW w \in Workers, Submit(w) \/ ClaimRaises(w) \/ Crash(w)
        PROVE  SteadyBefore
    BY <2>4 DEF Submit, ClaimRaises, Crash
  <2>5. QED BY <2>1, <2>2, <2>3, <2>4 DEF Next
<1>2. Steady(j)
  BY <1>1 DEF Steady
<1>3. ASSUME NEW k \in Jobs, Enqueue(k) PROVE RowsSound(j)'
  BY <1>2, <1>3, EnqueueRows
<1>4. ASSUME NEW k \in Jobs, CancelJob(k) \/ CancelItem(k) \/ CancelRaises(k)
      PROVE  RowsSound(j)'
  <2>1. k # j
    BY <1>2, <1>4 DEF CancelJob, CancelItem, CancelRaises, Steady, TypeOK
  <2>2. itemStatus'[j] = itemStatus[j] /\ jobStatus'[j] = jobStatus[j] /\ deadLetters' = deadLetters
    BY <1>4, <2>1 DEF CancelJob, CancelItem, CancelRaises, TypeOK
  <2>3. UNCHANGED <<pc, job, snapshot>>
    BY <1>4 DEF CancelJob, CancelItem, CancelRaises
  <2>4. QED BY <1>2, <2>2, <2>3, RowsStill
<1>5. ASSUME NEW k \in Jobs, LeaseLapses(k) \/ BecomesAvailable(k) PROVE RowsSound(j)'
  BY <1>2, <1>5, RowsStill DEF LeaseLapses, BecomesAvailable
<1>6. ASSUME NEW t \in Threads, NEW k \in Jobs, Claim(t, k) PROVE RowsSound(j)'
  BY <1>2, <1>6, ClaimRows
<1>7. ASSUME NEW t \in Threads, Recover(t) PROVE RowsSound(j)'
  BY <1>2, <1>7, RowsStill DEF Recover, Expired
<1>8. ASSUME NEW w \in Workers, Submit(w) PROVE RowsSound(j)'
  <2>1. {"claimed", "process"} \subseteq Unsettled
    BY DEF Unsettled, HoldingPC, PC
  <2>2. \A t \in Threads : /\ WorksOn(t, j)' <=> WorksOn(t, j)
                           /\ snapshot'[t] = snapshot[t]
                           /\ pc'[t] = pc[t] \/ (pc[t] = "claimed" /\ pc'[t] = "process")
    BY <1>8 DEF Submit, WorksOn, TypeOK
  <2>3. UNCHANGED <<itemStatus, jobStatus, deadLetters>>
    BY <1>8 DEF Submit
  <2>4. QED BY <1>2, <2>1, <2>2, <2>3, RowsKept
<1>9. ASSUME NEW t \in Threads,
             ProcessReturns(t) \/ ProcessRaises(t) \/ MarkCompleted(t) \/ MarkFailed(t)
      PROVE  RowsSound(j)'
  <2>1. PICK from \in Unsettled, to \in Unsettled : Goto(t, from, to)
    BY <1>9 DEF ProcessReturns, ProcessRaises, MarkCompleted, MarkFailed, Unsettled, HoldingPC, PC,
          Completing, Failing
  <2>2. "idle" \notin Unsettled BY DEF Unsettled, HoldingPC
  <2>3. \A u \in Threads : /\ WorksOn(u, j)' <=> WorksOn(u, j)
                           /\ snapshot'[u] = snapshot[u]
                           /\ pc'[u] = pc[u] \/ {pc[u], pc'[u]} \subseteq Unsettled
    BY <2>1, <2>2 DEF Goto, WorksOn, TypeOK
  <2>4. UNCHANGED <<itemStatus, jobStatus, deadLetters>>
    BY <1>9 DEF ProcessReturns, ProcessRaises, MarkCompleted, MarkFailed
  <2>5. QED BY <1>2, <2>3, <2>4, RowsKept
<1>10. ASSUME NEW t \in Threads, CompleteItem(t) \/ CompleteJob(t) \/ CompleteRun(t)
       PROVE  RowsSound(j)'
  BY <1>2, <1>10, CompleteRows
<1>11. ASSUME NEW t \in Threads,
              FailItem(t) \/ FailJobRetry(t) \/ FailJobExhausted(t) \/ InsertDeadLetter(t)
       PROVE  RowsSound(j)'
  BY <1>2, <1>11, FailRows
<1>12. CASE \/ \E t \in Threads : StatementRaises(t)
            \/ \E w \in Workers : Crash(w) \/ ClaimRaises(w)
  BY <1>2, <1>12, FaultRows
<1>13. CASE UNCHANGED vars
  BY <1>2, <1>13, RowsStill DEF vars
<1>14. QED
  BY <1>3, <1>4, <1>5, <1>6, <1>7, <1>8, <1>9, <1>10, <1>11, <1>12, <1>13
    DEF Next, Poll, ThreadStep

(* The rows of a job agree whenever no thread is on it, unless a fault cut *)
(* a sequence of updates, two threads overlapped, or it was cancelled.     *)
THEOREM QueueRowsAgree == Spec => []RowsAgreeAtRest
<1>1. RowsInv => RowsAgreeAtRest
  BY DEF RowsInv, RowsSound, RowsAgreeAtRest, Steady, AtRest
<1>2. QED BY <1>1, RowsInit, NextRowsInv, QueueTypeOK, QueueKnownInv, PTL DEF Spec

(***************************************************************************)
(* The Redis backend: no queued item loses its entry.                      *)
(***************************************************************************)

RedisTyped ==
  /\ itemStatus \in [Jobs -> ItemStatus]
  /\ lease \in [Jobs -> {"none", "live", "lapsed"}]
  /\ available \in [Jobs -> BOOLEAN]
  /\ cancel \in [Jobs -> {"none", "job_done", "half", "done"}]
  /\ pc \in [Threads -> PC \cup RedisPC]
  /\ job \in [Threads -> Jobs \cup {NoJob}]
  /\ snapshot \in [Threads -> Nat]
  /\ retryCount \in [Jobs -> Nat]
  /\ ready \in [Jobs -> {"none", "future", "due"}]
  /\ intake \in [Jobs -> {"none", "mirror", "answered", "error"}]
  /\ unlisting \subseteq Jobs
  /\ poll \in [Workers -> {"idle", "mirror", "scan", "remove", "claim"}]
  /\ recovered \in [Workers -> SUBSET Jobs]
  /\ candidate \in [Workers -> Jobs \cup {NoJob}]
  /\ \A t \in Threads : job[t] = NoJob <=> pc[t] = "idle"
  /\ \A w \in Workers : poll[w] \in {"remove", "claim"} => candidate[w] \in Jobs

(* The entry of a cancelled job alone is taken out by a request, and a     *)
(* worker has recovered items in hand only until it looks for due ones.    *)
RequestsSound == \A j \in unlisting : cancel[j] # "none"
PollSound == \A w \in Workers : poll[w] # "mirror" => recovered[w] = {}

LEMMA GotoTyped ==
  ASSUME RedisTyped, NEW t \in Threads, NEW from \in (PC \cup RedisPC) \ {"idle"},
         NEW to \in (PC \cup RedisPC) \ {"idle"}, Goto(t, from, to)
  PROVE  /\ pc' \in [Threads -> PC \cup RedisPC]
         /\ job' \in [Threads -> Jobs \cup {NoJob}]
         /\ snapshot' \in [Threads -> Nat]
         /\ \A u \in Threads : job'[u] = NoJob <=> pc'[u] = "idle"
BY DEF RedisTyped, Goto

LEMMA VacateTyped ==
  ASSUME RedisTyped, NEW T \in SUBSET Threads, Vacate(T)
  PROVE  /\ pc' \in [Threads -> PC \cup RedisPC]
         /\ job' \in [Threads -> Jobs \cup {NoJob}]
         /\ snapshot' \in [Threads -> Nat]
         /\ \A u \in Threads : job'[u] = NoJob <=> pc'[u] = "idle"
BY QueueAssumption DEF RedisTyped, Vacate, PC

StoppedPoll(w) ==
  /\ poll'      = [poll EXCEPT ![w] = "idle"]
  /\ recovered' = [recovered EXCEPT ![w] = {}]
  /\ candidate' = [candidate EXCEPT ![w] = NoJob]

LEMMA RequestStepTyped ==
  ASSUME RedisTyped, RequestsSound, PollSound, NEW j \in Jobs,
         \/ EnqueueRow(j) \/ EnqueueMirror(j) \/ EnqueueRaises(j)
         \/ CancelRow(j) \/ CancelMirror(j) \/ EntryDue(j) \/ TablesOnly(j)
  PROVE  (RedisTyped /\ RequestsSound /\ PollSound)'
<1>1. CASE EnqueueRow(j)
  BY <1>1 DEF EnqueueRow, Enqueue, RedisTyped, RequestsSound, PollSound, pollVars, ItemStatus,
              threadVars
<1>2. CASE EnqueueMirror(j) \/ EntryDue(j)
  BY <1>2 DEF EnqueueMirror, EntryDue, Add, RedisTyped, RequestsSound, PollSound, vars,
              itemVars, threadVars, pollVars, requests
<1>3. CASE EnqueueRaises(j)
  BY <1>3 DEF EnqueueRaises, RedisTyped, RequestsSound, PollSound,
              itemVars, threadVars, pollVars
<1>4. CASE CancelRow(j)
  <2>1. RequestsSound'
    BY <1>4 DEF CancelRow, CancelItem, RedisTyped, RequestsSound
  <2>2. (RedisTyped /\ PollSound)'
    BY <1>4 DEF CancelRow, CancelItem, RedisTyped, PollSound, ItemStatus,
                threadVars, pollVars
  <2> QED BY <2>1, <2>2
<1>5. CASE CancelMirror(j)
  BY <1>5 DEF CancelMirror, Remove, RedisTyped, RequestsSound, PollSound,
              itemVars, threadVars, pollVars
<1>6. CASE TablesOnly(j)
  <2>1. CASE CancelJob(j) \/ CancelRaises(j)
    BY <1>6, <2>1 DEF TablesOnly, CancelJob, CancelRaises, RedisTyped, RequestsSound, PollSound,
                itemVars, threadVars, pollVars, requests
  <2>2. CASE LeaseLapses(j) \/ BecomesAvailable(j)
    <3>1. lease' \in [Jobs -> {"none", "live", "lapsed"}]
      BY <2>2 DEF LeaseLapses, BecomesAvailable, RedisTyped
    <3>2. available' \in [Jobs -> BOOLEAN]
      BY <2>2 DEF LeaseLapses, BecomesAvailable, RedisTyped
    <3>3. UNCHANGED <<itemStatus, retryCount, cancel, threadVars, ready, pollVars, requests>>
      BY <1>6, <2>2 DEF TablesOnly, LeaseLapses, BecomesAvailable
    <3> QED BY <3>1, <3>2, <3>3
            DEF RedisTyped, RequestsSound, PollSound, threadVars, pollVars, requests
  <2> QED BY <1>6, <2>1, <2>2 DEF TablesOnly
<1> QED BY <1>1, <1>2, <1>3, <1>4, <1>5, <1>6

LEMMA PollStepTyped ==
  ASSUME RedisTyped, RequestsSound, PollSound, NEW w \in Workers, PollStep(w)
  PROVE  (RedisTyped /\ RequestsSound /\ PollSound)'
<1>1. CASE RecoverRows(w)
  BY <1>1 DEF RecoverRows, PollGoto, PutBack, RedisTyped, RequestsSound, PollSound, ItemStatus,
              threadVars, requests
<1>2. CASE MirrorRecovered(w)
  BY <1>2 DEF MirrorRecovered, Add, RedisTyped, RequestsSound, PollSound, vars, itemVars,
              threadVars, requests
<1>3. CASE Scan(w) \/ EndBatch(w)
  BY <1>3 DEF Scan, EndBatch, RedisTyped, RequestsSound, PollSound, vars, itemVars,
              threadVars, requests
<1>4. CASE RemoveCandidate(w)
  <2>1. /\ poll[w] = "remove" /\ candidate[w] \in Jobs
        /\ poll' = [poll EXCEPT ![w] = IF ready[candidate[w]] = "none" THEN "scan" ELSE "claim"]
        /\ ready' = [ready EXCEPT ![candidate[w]] = "none"]
        /\ UNCHANGED <<vars, requests, recovered, candidate>>
    BY <1>4 DEF RemoveCandidate, PollGoto, Remove, RedisTyped
  <2> QED BY <2>1 DEF RedisTyped, RequestsSound, PollSound, vars, itemVars, threadVars, requests
<1>5. CASE ClaimNothing(w)
  BY <1>5 DEF ClaimNothing, PollGoto, RedisTyped, RequestsSound, PollSound, vars, itemVars,
              threadVars, requests
<1>6. ASSUME NEW t \in Threads, ClaimCandidate(w, t)
      PROVE  (RedisTyped /\ RequestsSound /\ PollSound)'
  <2> SUFFICES ASSUME NEW j, j = candidate[w]
               PROVE  (RedisTyped /\ RequestsSound /\ PollSound)'
    OBVIOUS
  <2>1. /\ poll[w] = "claim" /\ j \in Jobs /\ retryCount[j] \in Nat
        /\ poll' = [poll EXCEPT ![w] = "scan"]
        /\ itemStatus' = [itemStatus EXCEPT ![j] = "running"]
        /\ lease'      = [lease EXCEPT ![j] = "live"]
        /\ pc'         = [pc EXCEPT ![t] = "claimed"]
        /\ job'        = [job EXCEPT ![t] = j]
        /\ snapshot'   = [snapshot EXCEPT ![t] = retryCount[j]]
        /\ UNCHANGED <<available, cancel, retryCount, ready, requests, recovered, candidate>>
    BY <1>6 DEF ClaimCandidate, PollGoto, RedisTyped
  <2>2. /\ pc' \in [Threads -> PC \cup RedisPC]
        /\ job' \in [Threads -> Jobs \cup {NoJob}]
        /\ snapshot' \in [Threads -> Nat]
        /\ \A u \in Threads : job'[u] = NoJob <=> pc'[u] = "idle"
    BY <2>1, QueueAssumption DEF RedisTyped, PC
  <2>3. /\ poll' \in [Workers -> {"idle", "mirror", "scan", "remove", "claim"}]
        /\ \A v \in Workers : poll'[v] \in {"remove", "claim"} => candidate'[v] \in Jobs
        /\ (RequestsSound /\ PollSound)'
    BY <2>1 DEF RedisTyped, RequestsSound, PollSound, requests
  <2>4. /\ itemStatus' \in [Jobs -> ItemStatus]
        /\ lease' \in [Jobs -> {"none", "live", "lapsed"}]
    BY <2>1 DEF RedisTyped, ItemStatus
  <2> QED BY <2>1, <2>2, <2>3, <2>4 DEF RedisTyped, requests
<1> QED BY <1>1, <1>2, <1>3, <1>4, <1>5, <1>6 DEF PollStep

LEMMA StopTyped ==
  ASSUME RedisTyped, RequestsSound, PollSound, NEW w \in Workers,
         BatchRaises(w) \/ CrashRedis(w) \/ SubmitBatch(w)
  PROVE  (RedisTyped /\ RequestsSound /\ PollSound)'
<1>1. ASSUME NEW T \in SUBSET Threads, Stop(w, T)
      PROVE  (RedisTyped /\ RequestsSound /\ PollSound)'
  <2>1. Vacate(T)
    BY <1>1 DEF Stop
  <2> QED BY <1>1, <2>1, VacateTyped
          DEF Stop, RedisTyped, RequestsSound, PollSound, itemVars, requests
<1>2. CASE SubmitBatch(w)
  BY <1>2 DEF SubmitBatch, Submit, RedisTyped, RequestsSound, PollSound, itemVars, PC,
              pollVars, requests
<1>3. {t \in Threads : WorkerOf[t] = w /\ pc[t] = "claimed"} \in SUBSET Threads
      /\ {t \in Threads : WorkerOf[t] = w} \in SUBSET Threads
  OBVIOUS
<1> QED BY <1>1, <1>2, <1>3 DEF BatchRaises, CrashRedis

LEMMA TableStepTyped ==
  ASSUME RedisTyped, RequestsSound, PollSound, NEW t \in Threads,
         TableStep(t) \/ BackendStep(t) \/ BackendRaises(t)
  PROVE  (RedisTyped /\ RequestsSound /\ PollSound)'
<1> DEFINE Rest == UNCHANGED <<cancel, requests, pollVars>>
           Typed(p, q, s) == /\ p \in [Threads -> PC \cup RedisPC]
                             /\ q \in [Threads -> Jobs \cup {NoJob}]
                             /\ s \in [Threads -> Nat]
                             /\ \A u \in Threads : q[u] = NoJob <=> p[u] = "idle"
<1>1. ASSUME Rest, Typed(pc', job', snapshot'),
             itemStatus' \in [Jobs -> ItemStatus],
             lease' \in [Jobs -> {"none", "live", "lapsed"}],
             available' \in [Jobs -> BOOLEAN],
             retryCount' \in [Jobs -> Nat],
             ready' \in [Jobs -> {"none", "future", "due"}]
      PROVE  (RedisTyped /\ RequestsSound /\ PollSound)'
  BY <1>1 DEF RedisTyped, RequestsSound, PollSound, requests, pollVars
<1>2. CASE TableStep(t)
  <2>1. Rest /\ ready' \in [Jobs -> {"none", "future", "due"}]
    BY <1>2 DEF TableStep, requests, pollVars, RedisTyped, ProcessReturns, ProcessRaises,
         MarkCompleted, CompleteItem, CompleteJob, CompleteRunThen, Then, MarkFailed,
         FailItem, FailJobRetryThen, FailJobExhausted, InsertDeadLetterThen, StatementRaises
  <2>2. Typed(pc', job', snapshot')
    <3>1. ASSUME ProcessReturns(t) \/ ProcessRaises(t) \/ MarkCompleted(t) \/ CompleteItem(t)
          PROVE  Typed(pc', job', snapshot')
      BY <3>1, GotoTyped DEF ProcessReturns, ProcessRaises, MarkCompleted, CompleteItem,
           PC, Completing, Failing
    <3>2. ASSUME CompleteJob(t) \/ CompleteRunThen(t) \/ MarkFailed(t) \/ FailItem(t)
          PROVE  Typed(pc', job', snapshot')
      BY <3>2, GotoTyped DEF CompleteJob, CompleteRunThen, Then, MarkFailed, FailItem,
           PC, RedisPC, Completing, Failing
    <3>3. ASSUME FailJobRetryThen(t) \/ FailJobExhausted(t) \/ InsertDeadLetterThen(t)
          PROVE  Typed(pc', job', snapshot')
      BY <3>3, GotoTyped DEF FailJobRetryThen, Then, FailJobExhausted, InsertDeadLetterThen,
           PC, RedisPC, Completing, Failing
    <3>4. ASSUME StatementRaises(t) PROVE Typed(pc', job', snapshot')
      <4>1. CASE pc[t] \in Failing
        <5>1. Vacate({t})
          BY <3>4, <4>1 DEF StatementRaises
        <5> QED BY <5>1, VacateTyped
      <4>2. CASE pc[t] \notin Failing
        <5>1. Goto(t, pc[t], "mark_failed") /\ pc[t] \in (PC \cup RedisPC) \ {"idle"}
              /\ "mark_failed" \in (PC \cup RedisPC) \ {"idle"}
          BY <3>4, <4>2 DEF StatementRaises, PC, Completing, Failing
        <5> QED BY <5>1, GotoTyped
      <4> QED BY <4>1, <4>2
    <3> QED BY <1>2, <3>1, <3>2, <3>3, <3>4 DEF TableStep
  <2>3. /\ itemStatus' \in [Jobs -> ItemStatus]
        /\ lease' \in [Jobs -> {"none", "live", "lapsed"}]
        /\ available' \in [Jobs -> BOOLEAN]
        /\ retryCount' \in [Jobs -> Nat]
    <3>1. CASE UNCHANGED itemVars
      BY <3>1 DEF itemVars, RedisTyped
    <3>2. CASE CompleteItem(t)
      BY <3>2 DEF CompleteItem, RedisTyped, ItemStatus
    <3>3. CASE FailItem(t)
      <4>1. job[t] \in Jobs
        BY <3>3 DEF FailItem, Goto, RedisTyped
      <4>2. itemStatus' \in [Jobs -> ItemStatus]
        BY <3>3, <4>1 DEF FailItem, RedisTyped, ItemStatus
      <4>3. available' \in [Jobs -> BOOLEAN]
        BY <3>3, <4>1 DEF FailItem, RedisTyped
      <4>4. lease' \in [Jobs -> {"none", "live", "lapsed"}]
        BY <3>3, <4>1 DEF FailItem, RedisTyped
      <4>5. retryCount' \in [Jobs -> Nat]
        BY <3>3, <4>1 DEF FailItem, RedisTyped
      <4> QED BY <4>2, <4>3, <4>4, <4>5
    <3>4. UNCHANGED itemVars \/ CompleteItem(t) \/ FailItem(t)
      BY <1>2
      DEF TableStep, ProcessReturns, ProcessRaises, MarkCompleted, CompleteJob,
          CompleteRunThen, Then, MarkFailed, FailJobRetryThen, FailJobExhausted,
          InsertDeadLetterThen, StatementRaises
    <3> QED BY <3>1, <3>2, <3>3, <3>4
  <2> QED BY <1>1, <2>1, <2>2, <2>3
<1>3. CASE BackendStep(t)
  <2>1. Vacate({t}) /\ UNCHANGED <<itemVars, cancel, requests, pollVars>>
        /\ ready' \in [Jobs -> {"none", "future", "due"}]
    BY <1>3 DEF BackendStep, Leave, Add, Remove, RedisTyped
  <2>2. Typed(pc', job', snapshot')
    BY <2>1, VacateTyped
  <2> QED BY <1>1, <2>1, <2>2 DEF itemVars, RedisTyped
<1>4. CASE BackendRaises(t)
  <2>1. /\ Vacate({t}) \/ Goto(t, "acknowledge", "mark_failed")
        /\ UNCHANGED <<itemVars, cancel, requests, pollVars, ready>>
    BY <1>4 DEF BackendRaises, Leave
  <2>2. Typed(pc', job', snapshot')
    <3>1. CASE Vacate({t})
      BY <3>1, VacateTyped
    <3>2. CASE Goto(t, "acknowledge", "mark_failed")
      BY <3>2, GotoTyped DEF PC, RedisPC, Failing
    <3> QED BY <2>1, <3>1, <3>2
  <2> QED BY <1>1, <2>1, <2>2 DEF itemVars, RedisTyped
<1> QED BY <1>2, <1>3, <1>4

LEMMA NextRedisTyped ==
  RedisTyped /\ RequestsSound /\ PollSound /\ [RedisNext]_redisVars
    => (RedisTyped /\ RequestsSound /\ PollSound)'
<1>1. ASSUME RedisTyped, RequestsSound, PollSound, UNCHANGED redisVars
      PROVE  (RedisTyped /\ RequestsSound /\ PollSound)'
  BY <1>1 DEF redisVars, vars, itemVars, threadVars, requests, pollVars, RedisTyped,
              RequestsSound, PollSound
<1> QED BY <1>1, RequestStepTyped, PollStepTyped, StopTyped, TableStepTyped DEF RedisNext

(* A job that has not gone astray is in one place only: its entry is in    *)
(* the set, or its request is about to add it, or one worker has it in     *)
(* hand, or one thread is at work on it; and its row is what that place    *)
(* asks for.                                                               *)
OnTrack(j) ==
  /\ j \notin overrun /\ j \notin torn /\ j \notin late /\ j \notin dropped
  /\ cancel[j] = "none"

Unwritten == HoldingPC \ {"complete_job", "complete_run"}
ThreadSound(t, j) ==
  /\ pc[t] \in Unwritten => itemStatus[j] = "running" /\ lease[j] = "live"
  /\ pc[t] \in {"complete_job", "complete_run", "acknowledge"} => itemStatus[j] = "completed"
  /\ pc[t] = "fail_job" => itemStatus[j] = (IF ShouldRetry(t) THEN "queued" ELSE "dead_letter")
  /\ pc[t] = "schedule_retry" => itemStatus[j] = "queued"
  /\ pc[t] \in {"dead_letter", "send_dead_letter"} => itemStatus[j] = "dead_letter"

NobodyAtIt(j) ==
  (\A t \in Threads : job[t] # j) /\ (\A w \in Workers : j \notin InHand(w))

EntrySound(j) ==
  /\ lease[j] # "none" <=> itemStatus[j] = "running"
  /\ intake[j] = "mirror" => itemStatus[j] = "queued" /\ ready[j] = "none" /\ NobodyAtIt(j)
  /\ ready[j] # "none" => itemStatus[j] = "queued" /\ NobodyAtIt(j)
  /\ ready[j] = "due" => available[j]

HandSound(j) ==
  \A w \in Workers : j \in InHand(w) =>
    /\ itemStatus[j] = "queued" /\ available[j]
    /\ \A t \in Threads : job[t] # j
    /\ \A v \in Workers : j \in InHand(v) => v = w

WorkSound(j) ==
  \A t \in Threads : job[t] = j =>
    ThreadSound(t, j) /\ \A u \in Threads : job[u] = j => u = t

Listed(j) ==
  \/ ready[j] # "none"
  \/ intake[j] = "mirror"
  \/ \E t \in Threads : job[t] = j /\ pc[t] \in {"fail_job", "schedule_retry"}
  \/ \E w \in Workers : j \in InHand(w)

Sound(j) ==
  EntrySound(j) /\ HandSound(j) /\ WorkSound(j) /\ (itemStatus[j] = "queued" => Listed(j))

SoundInv == \A j \in Jobs : OnTrack(j) => Sound(j)

LEMMA OnTrackIsNotAstray == \A j \in Jobs : j \notin Astray <=> OnTrack(j)
BY DEF Astray, OnTrack

(* Steps that leave a job alone, or move its thread on.                    *)
RowSame(j) ==
  /\ itemStatus'[j] = itemStatus[j] /\ lease'[j] = lease[j]
  /\ ready'[j] = ready[j] /\ intake'[j] = intake[j]
  /\ available[j] => available'[j]
ThreadsSame(j) ==
  \A t \in Threads :
    /\ job'[t] = j <=> job[t] = j
    /\ job[t] = j => pc'[t] = pc[t] /\ snapshot'[t] = snapshot[t]
HandsSame(j) == \A w \in Workers : (j \in InHand(w))' <=> j \in InHand(w)

LEMMA LeftAlone ==
  ASSUME NEW j \in Jobs, Sound(j), RowSame(j), ThreadsSame(j), HandsSame(j)
  PROVE  Sound(j)'
<1>1. NobodyAtIt(j)' <=> NobodyAtIt(j)
  BY DEF ThreadsSame, HandsSame, NobodyAtIt
<1>2. EntrySound(j)'
  BY <1>1 DEF Sound, EntrySound, RowSame
<1>3. HandSound(j)'
  BY DEF Sound, HandSound, RowSame, ThreadsSame, HandsSame
<1>4. WorkSound(j)'
  <2> SUFFICES ASSUME NEW t \in Threads, job'[t] = j
               PROVE  ThreadSound(t, j)' /\ \A u \in Threads : job'[u] = j => u = t
    BY DEF WorkSound
  <2>1. /\ job[t] = j /\ pc'[t] = pc[t] /\ snapshot'[t] = snapshot[t]
        /\ ThreadSound(t, j)
        /\ \A u \in Threads : job'[u] = j => u = t
    BY DEF ThreadsSame, Sound, WorkSound
  <2>2. itemStatus'[j] = itemStatus[j] /\ lease'[j] = lease[j]
    BY DEF RowSame
  <2>3. job'[t] = job[t] /\ (ShouldRetry(t)' <=> ShouldRetry(t))
    BY <2>1 DEF ShouldRetry
  <2> QED BY <2>1, <2>2, <2>3 DEF ThreadSound
<1>5. itemStatus'[j] = "queued" => Listed(j)'
  <2>1. itemStatus'[j] = "queued" => Listed(j)
    BY DEF Sound, RowSame
  <2>2. Listed(j) => Listed(j)'
    BY DEF Listed, RowSame, ThreadsSame, HandsSame
  <2> QED BY <2>1, <2>2
<1> QED BY <1>2, <1>3, <1>4, <1>5 DEF Sound

LEMMA HandsKept ==
  ASSUME UNCHANGED pollVars, NEW j PROVE HandsSame(j)
BY DEF pollVars, HandsSame, InHand

LEMMA ThreadsKept ==
  ASSUME UNCHANGED threadVars, NEW j PROVE ThreadsSame(j)
BY DEF threadVars, ThreadsSame

(* While a thread is on the job, nothing else is.                          *)
LEMMA AtWork ==
  ASSUME NEW j \in Jobs, Sound(j), NEW t \in Threads, job[t] = j
  PROVE  /\ ready[j] = "none" /\ intake[j] # "mirror"
         /\ \A w \in Workers : j \notin InHand(w)
         /\ \A u \in Threads : job[u] = j => u = t
         /\ ThreadSound(t, j)
         /\ lease[j] # "none" <=> itemStatus[j] = "running"
BY DEF Sound, EntrySound, HandSound, WorkSound, NobodyAtIt

LEMMA MovesOn ==
  ASSUME NEW j \in Jobs, Sound(j), NEW t \in Threads, job[t] = j,
         job' = job, UNCHANGED <<ready, requests, pollVars>>,
         lease'[j] # "none" <=> itemStatus'[j] = "running",
         ThreadSound(t, j)',
         itemStatus'[j] = "queued" => pc'[t] \in {"fail_job", "schedule_retry"}
  PROVE  Sound(j)'
<1>1. /\ ready'[j] = "none" /\ intake'[j] # "mirror"
      /\ \A w \in Workers : (j \notin InHand(w))'
      /\ \A u \in Threads : job'[u] = j => u = t
  <2>1. HandsSame(j)
    BY HandsKept
  <2> QED BY <2>1, AtWork DEF requests, HandsSame
<1>2. EntrySound(j)' /\ HandSound(j)'
  BY <1>1 DEF EntrySound, HandSound
<1>3. WorkSound(j)'
  BY <1>1 DEF WorkSound
<1>4. itemStatus'[j] = "queued" => Listed(j)'
  BY DEF Listed
<1> QED BY <1>2, <1>3, <1>4 DEF Sound

LEMMA MovesOff ==
  ASSUME NEW j \in Jobs, Sound(j), NEW t \in Threads, job[t] = j,
         Vacate({t}), UNCHANGED <<itemVars, requests, pollVars>>,
         ready'[j] \in {"none", "future"},
         itemStatus[j] = "queued" <=> ready'[j] # "none"
  PROVE  Sound(j)'
<1>1. /\ intake'[j] # "mirror"
      /\ \A w \in Workers : (j \notin InHand(w))'
      /\ \A u \in Threads : job'[u] # j
  <2>1. HandsSame(j)
    BY HandsKept
  <2>2. \A u \in Threads : job'[u] # j
    BY AtWork, QueueAssumption DEF Vacate
  <2> QED BY <2>1, <2>2, AtWork DEF requests, HandsSame
<1>2. NobodyAtIt(j)' /\ HandSound(j)' /\ WorkSound(j)'
  BY <1>1 DEF NobodyAtIt, HandSound, WorkSound
<1>3. EntrySound(j)'
  BY <1>1, <1>2, AtWork DEF EntrySound, itemVars
<1>4. itemStatus'[j] = "queued" => Listed(j)'
  BY DEF Listed, itemVars
<1> QED BY <1>2, <1>3, <1>4 DEF Sound

(* The requests.                                                           *)
LEMMA RequestSound ==
  ASSUME RedisTyped, RequestsSound, NEW k \in Jobs, NEW j \in Jobs, Sound(j), OnTrack(j)',
         \/ EnqueueRow(k) \/ EnqueueMirror(k) \/ EnqueueRaises(k)
         \/ CancelRow(k) \/ CancelMirror(k) \/ EntryDue(k) \/ TablesOnly(k)
  PROVE  Sound(j)'
<1>1. UNCHANGED <<pollVars, threadVars>>
  BY DEF EnqueueRow, Enqueue, EnqueueMirror, EnqueueRaises, CancelRow, CancelItem,
         CancelMirror, EntryDue, TablesOnly, CancelJob, CancelRaises, LeaseLapses,
         BecomesAvailable, vars
<1>2. ThreadsSame(j) /\ HandsSame(j)
  BY <1>1, ThreadsKept, HandsKept
<1>3. CASE k # j
  <2>1. CASE EnqueueRow(k)
    BY <1>2, <1>3, <2>1, LeftAlone DEF EnqueueRow, Enqueue, RowSame, RedisTyped
  <2>2. CASE EnqueueMirror(k) \/ EnqueueRaises(k) \/ EntryDue(k)
    BY <1>2, <1>3, <2>2, LeftAlone
    DEF EnqueueMirror, EnqueueRaises, EntryDue, Add, RowSame, RedisTyped, vars, itemVars, requests
  <2>3. CASE CancelRow(k) \/ CancelMirror(k)
    BY <1>2, <1>3, <2>3, LeftAlone
    DEF CancelRow, CancelItem, CancelMirror, Remove, RowSame, RedisTyped, itemVars
  <2>4. CASE TablesOnly(k)
    BY <1>2, <1>3, <2>4, LeftAlone
    DEF TablesOnly, CancelJob, CancelRaises, LeaseLapses, BecomesAvailable, RowSame,
        RedisTyped, itemVars, requests
  <2> QED BY <2>1, <2>2, <2>3, <2>4
<1>4. CASE EnqueueRow(j)
  <2>1. itemStatus[j] = "absent"
    BY <1>4 DEF EnqueueRow, Enqueue
  <2>2. NobodyAtIt(j) /\ ready[j] = "none" /\ lease[j] = "none"
    <3>1. \A t \in Threads : job[t] # j
      BY <2>1, AtWork, QueueAssumption
      DEF ThreadSound, RedisTyped, PC, RedisPC, Unwritten, HoldingPC, Completing, Failing
    <3> QED BY <2>1, <3>1 DEF Sound, EntrySound, HandSound, NobodyAtIt
  <2>3. NobodyAtIt(j)'
    BY <1>2, <2>2 DEF NobodyAtIt, ThreadsSame, HandsSame
  <2>4. /\ itemStatus'[j] = "queued" /\ intake'[j] = "mirror"
        /\ ready'[j] = "none" /\ lease'[j] = "none"
    BY <1>4, <2>2 DEF EnqueueRow, Enqueue, RedisTyped
  <2> QED BY <2>3, <2>4 DEF Sound, EntrySound, HandSound, WorkSound, Listed, NobodyAtIt
<1>5. CASE EnqueueMirror(j)
  <2>1. /\ NobodyAtIt(j) /\ itemStatus[j] = "queued" /\ lease[j] = "none"
        /\ intake'[j] # "mirror" /\ ready'[j] = IF available[j] THEN "due" ELSE "future"
        /\ UNCHANGED <<itemStatus, lease, available>>
    BY <1>5 DEF EnqueueMirror, Add, RedisTyped, Sound, EntrySound, vars, itemVars
  <2>2. NobodyAtIt(j)'
    BY <1>2, <2>1 DEF NobodyAtIt, ThreadsSame, HandsSame
  <2> QED BY <2>1, <2>2 DEF Sound, EntrySound, HandSound, WorkSound, Listed, NobodyAtIt
<1>6. CASE EnqueueRaises(j)
  BY <1>6 DEF EnqueueRaises, OnTrack
<1>7. CASE CancelRow(j)
  BY <1>7 DEF CancelRow, CancelItem, OnTrack, RedisTyped
<1>8. CASE CancelMirror(j)
  BY <1>8 DEF CancelMirror, RequestsSound, OnTrack
<1>9. CASE EntryDue(j)
  <2>1. /\ NobodyAtIt(j) /\ itemStatus[j] = "queued" /\ lease[j] = "none"
        /\ intake'[j] # "mirror" /\ ready'[j] = "due" /\ available[j]
        /\ UNCHANGED <<itemStatus, lease, available>>
    BY <1>9 DEF EntryDue, Add, RedisTyped, Sound, EntrySound, vars, itemVars, requests
  <2>2. NobodyAtIt(j)'
    BY <1>2, <2>1 DEF NobodyAtIt, ThreadsSame, HandsSame
  <2> QED BY <2>1, <2>2 DEF Sound, EntrySound, HandSound, WorkSound, Listed, NobodyAtIt
<1>10. CASE TablesOnly(j)
  <2>1. UNCHANGED <<ready, intake>>
    BY <1>10 DEF TablesOnly, requests
  <2>2. CASE CancelJob(j) \/ CancelRaises(j)
    BY <2>2 DEF CancelJob, CancelRaises, OnTrack, RedisTyped
  <2>3. CASE BecomesAvailable(j)
    BY <1>2, <2>1, <2>3, LeftAlone DEF BecomesAvailable, RowSame, RedisTyped
  <2>4. CASE LeaseLapses(j)
    <3>1. itemStatus[j] = "running" /\ lease'[j] = "lapsed" /\ itemStatus' = itemStatus
      BY <2>4 DEF LeaseLapses, RedisTyped, Sound, EntrySound
    <3>2. \A t \in Threads : ~Holds(t, j)
      BY <2>4 DEF LeaseLapses, OnTrack
    <3>3. \A t \in Threads : job[t] # j
      BY <3>1, <3>2, AtWork, QueueAssumption
      DEF ThreadSound, RedisTyped, PC, RedisPC, Unwritten, HoldingPC, Completing, Failing, Holds
    <3>4. /\ ready[j] = "none" /\ intake[j] # "mirror"
          /\ \A w \in Workers : j \notin InHand(w)
      BY <3>1 DEF Sound, EntrySound, HandSound
    <3> QED BY <1>2, <2>1, <3>1, <3>3, <3>4
            DEF Sound, EntrySound, HandSound, WorkSound, ThreadsSame, HandsSame
  <2> QED BY <1>10, <2>2, <2>3, <2>4 DEF TablesOnly
<1> QED BY <1>3, <1>4, <1>5, <1>6, <1>7, <1>8, <1>9, <1>10

(* claim_batch.                                                            *)
LEMMA RecoverSound ==
  ASSUME RedisTyped, PollSound, NEW w \in Workers, NEW j \in Jobs, Sound(j), OnTrack(j)',
         RecoverRows(w)
  PROVE  Sound(j)'
<1>1. /\ poll[w] = "idle" /\ poll' = [poll EXCEPT ![w] = "mirror"]
      /\ recovered' = [recovered EXCEPT ![w] = {k \in Jobs : Expired(k)}]
      /\ UNCHANGED <<threadVars, ready, requests, candidate>>
  BY DEF RecoverRows, PollGoto, PutBack
<1>2. ThreadsSame(j)
  BY <1>1, ThreadsKept
<1>3. InHand(w) = {} /\ InHand(w)' = {k \in Jobs : Expired(k)}
      /\ \A v \in Workers \ {w} : InHand(v)' = InHand(v)
  BY <1>1 DEF InHand, PollSound, RedisTyped
<1>4. CASE ~Expired(j)
  <2>1. RowSame(j)
    BY <1>1, <1>4 DEF RecoverRows, RowSame, requests
  <2>2. HandsSame(j)
    BY <1>3, <1>4 DEF HandsSame
  <2> QED BY <1>2, <2>1, <2>2, LeftAlone
<1>5. CASE Expired(j)
  <2>1. itemStatus[j] = "running" /\ lease[j] = "lapsed"
    BY <1>5 DEF Expired
  <2>2. /\ itemStatus'[j] = "queued" /\ lease'[j] = "none" /\ available'[j]
        /\ ready' = ready /\ intake' = intake
    BY <1>1, <1>5 DEF RecoverRows, requests
  <2>3. \A t \in Threads : job'[t] # j
    <3>1. \A t \in Threads : job[t] # j
      BY <2>1, AtWork, QueueAssumption
      DEF ThreadSound, RedisTyped, PC, RedisPC, Unwritten, HoldingPC, Completing, Failing
    <3> QED BY <1>2, <3>1 DEF ThreadsSame
  <2>4. /\ ready[j] = "none" /\ intake[j] # "mirror"
        /\ \A v \in Workers : j \notin InHand(v)
    BY <2>1 DEF Sound, EntrySound, HandSound
  <2>5. \A v \in Workers : (j \in InHand(v))' <=> v = w
    BY <1>3, <1>5, <2>4
  <2> QED BY <2>2, <2>3, <2>4, <2>5 DEF Sound, EntrySound, HandSound, WorkSound, Listed
<1> QED BY <1>4, <1>5

LEMMA MirrorSound ==
  ASSUME RedisTyped, NEW w \in Workers, NEW j \in Jobs, Sound(j), MirrorRecovered(w)
  PROVE  Sound(j)'
<1>1. PICK k \in recovered[w] : /\ ready' = [ready EXCEPT ![k] = "due"]
                                /\ recovered' = [recovered EXCEPT ![w] = @ \ {k}]
  BY DEF MirrorRecovered, Add
<1>2. /\ poll[w] = "mirror" /\ k \in Jobs
      /\ UNCHANGED <<vars, requests, poll, candidate>>
  BY <1>1 DEF MirrorRecovered, RedisTyped
<1>3. InHand(w)' = InHand(w) \ {k} /\ k \in InHand(w)
      /\ \A v \in Workers \ {w} : InHand(v)' = InHand(v)
  BY <1>1, <1>2 DEF InHand, RedisTyped
<1>4. ThreadsSame(j)
  BY <1>2, ThreadsKept DEF vars
<1>5. CASE k # j
  <2>1. RowSame(j)
    BY <1>1, <1>2, <1>5 DEF RowSame, RedisTyped, vars, itemVars, requests
  <2>2. HandsSame(j)
    BY <1>3, <1>5 DEF HandsSame
  <2> QED BY <1>4, <2>1, <2>2, LeftAlone
<1>6. CASE k = j
  <2>1. /\ itemStatus[j] = "queued" /\ available[j] /\ intake[j] # "mirror"
        /\ lease[j] = "none"
        /\ \A t \in Threads : job[t] # j
        /\ \A v \in Workers : j \in InHand(v) => v = w
    BY <1>3, <1>6 DEF Sound, EntrySound, HandSound, NobodyAtIt
  <2>2. NobodyAtIt(j)'
    BY <1>3, <1>4, <1>6, <2>1 DEF NobodyAtIt, ThreadsSame
  <2>3. /\ itemStatus'[j] = "queued" /\ available'[j] /\ intake'[j] # "mirror"
        /\ lease'[j] = "none" /\ ready'[j] = "due"
    BY <1>1, <1>2, <1>6, <2>1 DEF RedisTyped, vars, itemVars, requests
  <2> QED BY <2>2, <2>3 DEF Sound, EntrySound, HandSound, WorkSound, Listed, NobodyAtIt
<1> QED BY <1>5, <1>6

LEMMA ScanSound ==
  ASSUME RedisTyped, NEW w \in Workers, NEW j \in Jobs, Sound(j),
         Scan(w) \/ EndBatch(w)
  PROVE  Sound(j)'
<1>1. /\ UNCHANGED <<vars, ready, requests, recovered>>
      /\ poll[w] # "claim" /\ poll'[w] # "claim"
      /\ \A v \in Workers \ {w} : poll'[v] = poll[v] /\ candidate'[v] = candidate[v]
  BY DEF Scan, EndBatch, RedisTyped
<1>2. ThreadsSame(j)
  BY <1>1, ThreadsKept DEF vars
<1>3. HandsSame(j)
  BY <1>1 DEF HandsSame, InHand
<1>4. RowSame(j)
  BY <1>1 DEF RowSame, vars, itemVars, requests
<1> QED BY <1>2, <1>3, <1>4, LeftAlone

LEMMA RemoveSound ==
  ASSUME RedisTyped, PollSound, NEW w \in Workers, NEW j \in Jobs, Sound(j), OnTrack(j)',
         RemoveCandidate(w)
  PROVE  Sound(j)'
<1> SUFFICES ASSUME NEW k, k = candidate[w] PROVE Sound(j)'
  OBVIOUS
<1>1. /\ poll[w] = "remove" /\ k \in Jobs
      /\ poll' = [poll EXCEPT ![w] = IF ready[k] = "none" THEN "scan" ELSE "claim"]
      /\ ready' = [ready EXCEPT ![k] = "none"]
      /\ late' = (IF ready[k] = "future" THEN late \cup {k} ELSE late)
      /\ UNCHANGED <<vars, requests, recovered, candidate>>
  BY DEF RemoveCandidate, PollGoto, Remove, RedisTyped
<1>2. /\ InHand(w) = {} /\ InHand(w)' = (IF ready[k] = "none" THEN {} ELSE {k})
      /\ \A v \in Workers \ {w} : InHand(v)' = InHand(v)
  BY <1>1 DEF InHand, PollSound, RedisTyped
<1>3. ThreadsSame(j)
  BY <1>1, ThreadsKept DEF vars
<1>4. CASE k # j \/ ready[k] = "none"
  <2>1. RowSame(j)
    BY <1>1, <1>4 DEF RowSame, RedisTyped, vars, itemVars, requests
  <2>2. HandsSame(j)
    BY <1>2, <1>4 DEF HandsSame
  <2> QED BY <1>3, <2>1, <2>2, LeftAlone
<1>5. CASE k = j /\ ready[k] # "none"
  <2>1. ready[j] = "due"
    BY <1>1, <1>5 DEF OnTrack, RedisTyped
  <2>2. itemStatus[j] = "queued" /\ available[j] /\ NobodyAtIt(j) /\ lease[j] = "none"
        /\ intake[j] # "mirror"
    BY <2>1 DEF Sound, EntrySound
  <2>3. /\ itemStatus'[j] = "queued" /\ available'[j] /\ lease'[j] = "none"
        /\ intake'[j] # "mirror" /\ ready'[j] = "none"
    BY <1>1, <1>5, <2>2 DEF vars, itemVars, requests, RedisTyped
  <2>4. \A t \in Threads : job'[t] # j
    BY <1>3, <2>2 DEF NobodyAtIt, ThreadsSame
  <2>5. \A v \in Workers : (j \in InHand(v))' <=> v = w
    BY <1>2, <1>5, <2>2 DEF NobodyAtIt
  <2> QED BY <2>3, <2>4, <2>5 DEF Sound, EntrySound, HandSound, WorkSound, Listed
<1> QED BY <1>4, <1>5

LEMMA ClaimSound ==
  ASSUME RedisTyped, PollSound, NEW w \in Workers, NEW j \in Jobs, Sound(j),
         ClaimNothing(w) \/ \E t \in Threads : ClaimCandidate(w, t)
  PROVE  Sound(j)'
<1> SUFFICES ASSUME NEW k, k = candidate[w] PROVE Sound(j)'
  OBVIOUS
<1>1. /\ poll[w] = "claim" /\ k \in Jobs
      /\ poll' = [poll EXCEPT ![w] = "scan"]
      /\ UNCHANGED <<ready, requests, recovered, candidate>>
  BY DEF ClaimNothing, ClaimCandidate, PollGoto, RedisTyped
<1>2. /\ InHand(w) = {k} /\ InHand(w)' = {}
      /\ \A v \in Workers \ {w} : InHand(v)' = InHand(v)
  BY <1>1 DEF InHand, PollSound, RedisTyped
<1>3. CASE k = j
  <2>1. /\ itemStatus[j] = "queued" /\ available[j] /\ lease[j] = "none"
        /\ ready[j] = "none" /\ intake[j] # "mirror"
        /\ \A t \in Threads : job[t] # j
        /\ \A v \in Workers : j \in InHand(v) => v = w
    BY <1>2, <1>3 DEF Sound, EntrySound, HandSound, NobodyAtIt
  <2>2. PICK t \in Threads : ClaimCandidate(w, t)
    BY <1>3, <2>1 DEF ClaimNothing, ClaimById, Claimable
  <2>3. /\ itemStatus'[j] = "running" /\ lease'[j] = "live" /\ pc'[t] = "claimed"
        /\ job'[t] = j /\ \A u \in Threads \ {t} : job'[u] = job[u]
    <3>1. /\ itemStatus' = [itemStatus EXCEPT ![j] = "running"]
          /\ lease'      = [lease EXCEPT ![j] = "live"]
          /\ pc'         = [pc EXCEPT ![t] = "claimed"]
          /\ job'        = [job EXCEPT ![t] = j]
      BY <1>3, <2>2 DEF ClaimCandidate
    <3> QED BY <3>1 DEF RedisTyped
  <2>4. \A v \in Workers : (j \notin InHand(v))'
    BY <1>2, <2>1
  <2>5. ThreadSound(t, j)'
    BY <2>3 DEF ThreadSound
  <2>6. ready'[j] = "none" /\ intake'[j] # "mirror"
    BY <1>1, <2>1 DEF requests
  <2> QED BY <2>1, <2>3, <2>4, <2>5, <2>6 DEF Sound, EntrySound, HandSound, WorkSound
<1>4. CASE k # j
  <2>1. HandsSame(j)
    BY <1>2, <1>4 DEF HandsSame
  <2>2. CASE ClaimNothing(w)
    <3>1. RowSame(j) /\ UNCHANGED threadVars
      BY <2>2 DEF ClaimNothing, RowSame, vars, itemVars, requests
    <3> QED BY <2>1, <3>1, ThreadsKept, LeftAlone
  <2>3. ASSUME NEW t \in Threads, ClaimCandidate(w, t) PROVE Sound(j)'
    <3>1. /\ job[t] = NoJob /\ job' = [job EXCEPT ![t] = k]
          /\ \A u \in Threads \ {t} : pc'[u] = pc[u] /\ snapshot'[u] = snapshot[u]
      BY <2>3 DEF ClaimCandidate, Free, RedisTyped
    <3>2. ThreadsSame(j)
      BY <1>4, <3>1, QueueAssumption DEF ThreadsSame, RedisTyped
    <3>3. RowSame(j)
      BY <1>4, <2>3 DEF ClaimCandidate, RowSame, RedisTyped, requests
    <3> QED BY <2>1, <3>2, <3>3, LeftAlone
  <2> QED BY <2>2, <2>3
<1> QED BY <1>3, <1>4

(* The ends of a batch.                                                    *)
LEMMA SubmitSound ==
  ASSUME RedisTyped, NEW w \in Workers, NEW j \in Jobs, Sound(j), SubmitBatch(w)
  PROVE  Sound(j)'
<1>1. /\ UNCHANGED <<itemVars, ready, requests, pollVars, job, snapshot>>
      /\ pc' = [t \in Threads |-> IF WorkerOf[t] = w /\ pc[t] = "claimed" THEN "process"
                                  ELSE pc[t]]
  BY DEF SubmitBatch, Submit
<1>2. CASE \E t \in Threads : job[t] = j /\ pc[t] = "claimed"
  <2>1. PICK t \in Threads : job[t] = j /\ pc[t] = "claimed"
    BY <1>2
  <2>2. pc'[t] \in {"claimed", "process"} /\ itemStatus[j] = "running" /\ lease[j] = "live"
    BY <1>1, <2>1, AtWork DEF ThreadSound, Unwritten, HoldingPC, PC
  <2>3. ThreadSound(t, j)'
    BY <1>1, <2>2 DEF ThreadSound, itemVars
  <2> QED BY <1>1, <2>1, <2>2, <2>3, MovesOn DEF itemVars
<1>3. CASE \A t \in Threads : job[t] = j => pc[t] # "claimed"
  <2>1. ThreadsSame(j)
    BY <1>1, <1>3 DEF ThreadsSame
  <2>2. HandsSame(j)
    BY <1>1, HandsKept
  <2>3. RowSame(j)
    BY <1>1 DEF RowSame, itemVars, requests
  <2> QED BY <2>1, <2>2, <2>3, LeftAlone
<1> QED BY <1>2, <1>3

LEMMA StopSound ==
  ASSUME RedisTyped, NEW w \in Workers, NEW T \in SUBSET Threads, NEW j \in Jobs,
         Sound(j), OnTrack(j)', Stop(w, T)
  PROVE  Sound(j)'
<1>1. /\ \A t \in T : job[t] = j => pc[t] \notin MidUpdate \cup {"schedule_retry"}
      /\ j \notin InHand(w)
  BY DEF Stop, OnTrack
<1>2. /\ UNCHANGED <<itemVars, ready, requests>>
      /\ InHand(w)' = {} /\ \A v \in Workers \ {w} : InHand(v)' = InHand(v)
  BY DEF Stop, InHand, RedisTyped
<1>3. HandsSame(j)
  BY <1>1, <1>2 DEF HandsSame
<1>4. CASE \A t \in T : job[t] # j
  <2>1. ThreadsSame(j)
    BY <1>4, QueueAssumption DEF Stop, Vacate, ThreadsSame
  <2>2. RowSame(j)
    BY <1>2 DEF RowSame, itemVars, requests
  <2> QED BY <1>3, <2>1, <2>2, LeftAlone
<1>5. CASE \E t \in T : job[t] = j
  <2>1. PICK t \in T : job[t] = j
    BY <1>5
  <2>2. itemStatus[j] # "queued"
    BY <1>1, <2>1, AtWork, QueueAssumption
    DEF ThreadSound, RedisTyped, PC, RedisPC, Unwritten, HoldingPC, Completing, Failing, MidUpdate
  <2>3. /\ ready'[j] = "none" /\ intake'[j] # "mirror"
        /\ \A v \in Workers : (j \notin InHand(v))'
        /\ \A u \in Threads : job'[u] # j
    <3>1. \A u \in Threads : job'[u] # j
      BY <2>1, AtWork, QueueAssumption DEF Stop, Vacate
    <3> QED BY <1>2, <1>3, <2>1, <3>1, AtWork DEF HandsSame, requests
  <2>4. lease'[j] # "none" <=> itemStatus'[j] = "running"
    BY <1>2 DEF Sound, EntrySound, itemVars
  <2>5. itemStatus'[j] # "queued"
    BY <1>2, <2>2 DEF itemVars
  <2> QED BY <2>3, <2>4, <2>5 DEF Sound, EntrySound, HandSound, WorkSound
<1> QED BY <1>4, <1>5

(* The threads.                                                            *)
LEMMA TableSound ==
  ASSUME RedisTyped, NEW t \in Threads, NEW j \in Jobs, Sound(j), OnTrack(j)', TableStep(t)
  PROVE  Sound(j)'
<1> SUFFICES ASSUME NEW k, k = job[t] PROVE Sound(j)'
  OBVIOUS
<1>1. UNCHANGED <<ready, requests, pollVars>>
  BY DEF TableStep
<1>2. HandsSame(j)
  BY <1>1, HandsKept
<1>3. CASE k # j
  <2>1. ThreadsSame(j)
    <3>1. Vacate({t}) \/ \E from, to \in PC \cup RedisPC : Goto(t, from, to)
      <4>1. CASE StatementRaises(t)
        <5>1. pc[t] \in PC /\ "mark_failed" \in PC
          BY <4>1 DEF StatementRaises, PC, Completing, Failing
        <5> QED BY <4>1, <5>1 DEF StatementRaises
      <4>2. CASE ~StatementRaises(t)
        BY <4>2 DEF TableStep, ProcessReturns, ProcessRaises, MarkCompleted, CompleteItem,
             CompleteJob, CompleteRunThen, Then, MarkFailed, FailItem, FailJobRetryThen,
             FailJobExhausted, InsertDeadLetterThen, PC, RedisPC, Completing, Failing
      <4> QED BY <4>1, <4>2
    <3>2. CASE Vacate({t})
      BY <1>3, <3>2, QueueAssumption DEF Vacate, ThreadsSame
    <3>3. ASSUME NEW from, NEW to, Goto(t, from, to) PROVE ThreadsSame(j)
      BY <1>3, <3>3 DEF Goto, ThreadsSame, RedisTyped
    <3> QED BY <3>1, <3>2, <3>3
  <2>2. RowSame(j)
    <3>1. UNCHANGED itemVars \/ CompleteItem(t) \/ FailItem(t)
      BY DEF TableStep, ProcessReturns, ProcessRaises, MarkCompleted, CompleteJob,
             CompleteRunThen, Then, MarkFailed, FailJobRetryThen, FailJobExhausted,
             InsertDeadLetterThen, StatementRaises
    <3>2. CASE UNCHANGED itemVars
      BY <1>1, <3>2 DEF itemVars, requests, RowSame
    <3>3. CASE CompleteItem(t)
      BY <1>1, <1>3, <3>3 DEF CompleteItem, requests, RowSame, RedisTyped
    <3>4. CASE FailItem(t)
      BY <1>1, <1>3, <3>4 DEF FailItem, requests, RowSame, RedisTyped
    <3> QED BY <3>1, <3>2, <3>3, <3>4
  <2> QED BY <1>2, <2>1, <2>2, LeftAlone
<1>4. CASE k = j
  <2>1. ThreadSound(t, j) /\ (lease[j] # "none" <=> itemStatus[j] = "running")
    BY <1>4, AtWork
  <2>2. job[t] = j
    BY <1>4
  <2>3. ASSUME ProcessReturns(t) \/ ProcessRaises(t) \/ MarkCompleted(t) \/ MarkFailed(t)
        PROVE  Sound(j)'
    <3>1. /\ UNCHANGED <<itemVars, job>> /\ pc[t] \in Unwritten
          /\ pc'[t] \in {"mark_completed", "mark_failed", "complete_item", "fail_item"}
      BY <2>3 DEF ProcessReturns, ProcessRaises, MarkCompleted, MarkFailed, Goto, RedisTyped,
                  Unwritten, HoldingPC, PC, Completing, Failing
    <3>2. itemStatus'[j] = "running" /\ lease'[j] = "live"
      BY <2>1, <3>1 DEF ThreadSound, itemVars
    <3>3. ThreadSound(t, j)'
      BY <3>1, <3>2 DEF ThreadSound
    <3> QED BY <1>1, <2>2, <3>1, <3>2, <3>3, MovesOn
  <2>4. ASSUME CompleteItem(t) \/ CompleteJob(t) \/ CompleteRunThen(t) PROVE Sound(j)'
    <3>1. /\ job' = job
          /\ pc'[t] \in {"complete_job", "complete_run", "acknowledge"}
      BY <2>4 DEF CompleteItem, CompleteJob, CompleteRunThen, Then, Goto, RedisTyped
    <3>2. itemStatus'[j] = "completed" /\ lease'[j] = "none"
      BY <2>1, <2>2, <2>4
      DEF CompleteItem, CompleteJob, CompleteRunThen, Then, Goto, RedisTyped, ThreadSound,
          itemVars
    <3>3. ThreadSound(t, j)'
      BY <3>1, <3>2 DEF ThreadSound, Unwritten, HoldingPC, PC, Completing, Failing, RedisPC
    <3> QED BY <1>1, <2>2, <3>1, <3>2, <3>3, MovesOn
  <2>5. CASE FailItem(t)
    <3>1. /\ job' = job /\ snapshot' = snapshot /\ pc'[t] = "fail_job" /\ lease'[j] = "none"
          /\ itemStatus'[j] = (IF ShouldRetry(t) THEN "queued" ELSE "dead_letter")
      BY <2>2, <2>5 DEF FailItem, Goto, RedisTyped
    <3>2. ShouldRetry(t)' <=> ShouldRetry(t)
      BY <3>1 DEF ShouldRetry
    <3>3. ThreadSound(t, j)'
      BY <3>1, <3>2 DEF ThreadSound, Unwritten, HoldingPC
    <3> QED BY <1>1, <2>2, <3>1, <3>3, MovesOn
  <2>6. CASE FailJobRetryThen(t)
    <3>1. /\ UNCHANGED <<itemVars, job>> /\ pc[t] = "fail_job" /\ pc'[t] = "schedule_retry"
          /\ ShouldRetry(t)
      BY <2>6 DEF FailJobRetryThen, Then, Goto, RedisTyped
    <3>2. itemStatus'[j] = "queued" /\ lease'[j] = "none"
      BY <2>1, <3>1 DEF ThreadSound, itemVars
    <3>3. ThreadSound(t, j)'
      BY <3>1, <3>2 DEF ThreadSound, Unwritten, HoldingPC, PC, Completing, Failing
    <3> QED BY <1>1, <2>2, <3>1, <3>2, <3>3, MovesOn
  <2>7. CASE FailJobExhausted(t) \/ InsertDeadLetterThen(t)
    <3>1. /\ UNCHANGED <<itemVars, job>> /\ pc'[t] \in {"dead_letter", "send_dead_letter"}
          /\ itemStatus[j] = "dead_letter"
      BY <2>1, <2>7 DEF FailJobExhausted, InsertDeadLetterThen, Goto, RedisTyped, ThreadSound
    <3>2. itemStatus'[j] = "dead_letter" /\ lease'[j] = "none"
      BY <2>1, <3>1 DEF itemVars
    <3>3. ThreadSound(t, j)'
      BY <3>1, <3>2 DEF ThreadSound, Unwritten, HoldingPC, PC, Completing, Failing
    <3> QED BY <1>1, <2>2, <3>1, <3>2, <3>3, MovesOn
  <2>8. CASE StatementRaises(t)
    <3>1. pc[t] \notin MidUpdate /\ UNCHANGED itemVars
          /\ pc[t] \in {"mark_completed"} \cup Completing \cup Failing
      BY <2>2, <2>8 DEF StatementRaises, OnTrack
    <3>2. pc[t] \in Unwritten
      BY <3>1 DEF MidUpdate, Unwritten, HoldingPC, PC, Completing, Failing
    <3>3. itemStatus[j] = "running" /\ lease[j] = "live" /\ ready[j] = "none"
      BY <2>2, <3>2, AtWork DEF ThreadSound
    <3>4. CASE pc[t] \in Failing
      <4>1. Vacate({t})
        BY <2>8, <3>4 DEF StatementRaises
      <4> QED BY <1>1, <2>2, <3>1, <3>3, <4>1, MovesOff
    <3>5. CASE pc[t] \notin Failing
      <4>1. job' = job /\ pc'[t] = "mark_failed"
        BY <2>8, <3>5 DEF StatementRaises, Goto, RedisTyped
      <4>2. itemStatus'[j] = "running" /\ lease'[j] = "live"
        BY <3>1, <3>3 DEF itemVars
      <4>3. ThreadSound(t, j)'
        BY <4>1, <4>2 DEF ThreadSound
      <4> QED BY <1>1, <2>2, <4>1, <4>2, <4>3, MovesOn
    <3> QED BY <3>4, <3>5
  <2> QED BY <2>3, <2>4, <2>5, <2>6, <2>7, <2>8 DEF TableStep
<1> QED BY <1>3, <1>4

LEMMA BackendSound ==
  ASSUME RedisTyped, NEW t \in Threads, NEW j \in Jobs, Sound(j), OnTrack(j)',
         BackendStep(t) \/ BackendRaises(t)
  PROVE  Sound(j)'
<1> SUFFICES ASSUME NEW k, k = job[t] PROVE Sound(j)'
  OBVIOUS
<1>1. UNCHANGED <<itemVars, requests, pollVars>>
  BY DEF BackendStep, BackendRaises
<1>2. CASE k # j
  <2>1. ThreadsSame(j)
    <3>1. Vacate({t}) \/ (UNCHANGED <<job, snapshot>> /\ \A u \in Threads \ {t} : pc'[u] = pc[u])
      BY DEF BackendStep, BackendRaises, Leave, Goto, RedisTyped
    <3> QED BY <1>2, <3>1, QueueAssumption DEF Vacate, ThreadsSame
  <2>2. RowSame(j)
    BY <1>1, <1>2 DEF BackendStep, BackendRaises, Add, Remove, RowSame, itemVars, requests,
                      RedisTyped
  <2> QED BY <1>1, <2>1, <2>2, HandsKept, LeftAlone
<1>3. CASE k = j
  <2>1. /\ ThreadSound(t, j) /\ ready[j] = "none" /\ job[t] = j
    BY <1>3, AtWork
  <2>2. Vacate({t}) /\ pc[t] \in RedisPC
    BY <2>1 DEF BackendStep, BackendRaises, Leave, OnTrack, RedisPC
  <2>3. itemStatus[j] = "queued" <=> pc[t] = "schedule_retry"
    BY <2>1, <2>2 DEF ThreadSound, RedisPC
  <2>4. ready'[j] = (IF pc[t] = "schedule_retry" THEN "future" ELSE "none")
    BY <2>1 DEF BackendStep, BackendRaises, Leave, Goto, Add, Remove, OnTrack, RedisTyped
  <2> QED BY <1>1, <2>1, <2>2, <2>3, <2>4, MovesOff
<1> QED BY <1>2, <1>3

(* A job that has gone astray stays so.                                    *)
LEMMA OnTrackBefore ==
  ASSUME RedisTyped, NEW j \in Jobs, [RedisNext]_redisVars, OnTrack(j)'
  PROVE  OnTrack(j)
<1>1. ASSUME NEW k \in Jobs,
             \/ EnqueueRow(k) \/ EnqueueMirror(k) \/ EnqueueRaises(k)
             \/ CancelRow(k) \/ CancelMirror(k) \/ EntryDue(k) \/ TablesOnly(k)
      PROVE  OnTrack(j)
  <2>1. CASE EnqueueRow(k) \/ EnqueueMirror(k) \/ EnqueueRaises(k) \/ EntryDue(k)
    BY <2>1 DEF EnqueueRow, Enqueue, EnqueueMirror, EnqueueRaises, EntryDue, OnTrack, vars, history
  <2>2. CASE CancelRow(k) \/ CancelMirror(k)
    BY <2>2 DEF CancelRow, CancelItem, CancelMirror, OnTrack, history, RedisTyped
  <2>3. CASE TablesOnly(k)
    BY <2>3 DEF TablesOnly, CancelJob, CancelRaises, LeaseLapses, BecomesAvailable, OnTrack,
                history, RedisTyped
  <2> QED BY <1>1, <2>1, <2>2, <2>3
<1>2. ASSUME NEW w \in Workers, PollStep(w) \/ SubmitBatch(w) PROVE OnTrack(j)
  BY <1>2 DEF PollStep, RecoverRows, MirrorRecovered, Scan, EndBatch, RemoveCandidate,
              ClaimNothing, ClaimCandidate, SubmitBatch, Submit, OnTrack, vars, history
<1>3. ASSUME NEW w \in Workers, BatchRaises(w) \/ CrashRedis(w) PROVE OnTrack(j)
  BY <1>3 DEF BatchRaises, CrashRedis, Stop, OnTrack
<1>4. ASSUME NEW t \in Threads, TableStep(t) PROVE OnTrack(j)
  BY <1>4 DEF TableStep, ProcessReturns, ProcessRaises, MarkCompleted, CompleteItem, CompleteJob,
              CompleteRunThen, Then, MarkFailed, FailItem, FailJobRetryThen, FailJobExhausted,
              InsertDeadLetterThen, StatementRaises, OnTrack, history
<1>5. ASSUME NEW t \in Threads, BackendStep(t) \/ BackendRaises(t) PROVE OnTrack(j)
  BY <1>5 DEF BackendStep, BackendRaises, OnTrack, history
<1>6. CASE UNCHANGED redisVars
  BY <1>6 DEF redisVars, vars, history, OnTrack
<1> QED BY <1>1, <1>2, <1>3, <1>4, <1>5, <1>6 DEF RedisNext

ListedInv == RedisTyped /\ RequestsSound /\ PollSound /\ SoundInv

LEMMA NextListedInv == ListedInv /\ [RedisNext]_redisVars => ListedInv'
<1> SUFFICES ASSUME ListedInv, [RedisNext]_redisVars, NEW j \in Jobs, OnTrack(j)'
             PROVE  Sound(j)'
  BY NextRedisTyped DEF ListedInv, SoundInv
<1>1. RedisTyped /\ RequestsSound /\ PollSound /\ Sound(j)
  BY OnTrackBefore DEF ListedInv, SoundInv
<1>2. ASSUME NEW k \in Jobs,
             \/ EnqueueRow(k) \/ EnqueueMirror(k) \/ EnqueueRaises(k)
             \/ CancelRow(k) \/ CancelMirror(k) \/ EntryDue(k) \/ TablesOnly(k)
      PROVE  Sound(j)'
  BY <1>1, <1>2, RequestSound
<1>3. ASSUME NEW w \in Workers, PollStep(w) PROVE Sound(j)'
  BY <1>1, <1>3, RecoverSound, MirrorSound, ScanSound, RemoveSound, ClaimSound DEF PollStep
<1>4. ASSUME NEW w \in Workers, SubmitBatch(w) PROVE Sound(j)'
  BY <1>1, <1>4, SubmitSound
<1>5. ASSUME NEW w \in Workers, BatchRaises(w) \/ CrashRedis(w) PROVE Sound(j)'
  <2>1. PICK T \in SUBSET Threads : Stop(w, T)
    BY <1>5 DEF BatchRaises, CrashRedis
  <2> QED BY <1>1, <2>1, StopSound
<1>6. ASSUME NEW t \in Threads, TableStep(t) \/ BackendStep(t) \/ BackendRaises(t)
      PROVE  Sound(j)'
  BY <1>1, <1>6, TableSound, BackendSound
<1>7. CASE UNCHANGED redisVars
  <2>1. RowSame(j) /\ UNCHANGED <<threadVars, pollVars>>
    BY <1>7 DEF redisVars, vars, itemVars, requests, RowSame
  <2> QED BY <1>1, <2>1, ThreadsKept, HandsKept, LeftAlone
<1> QED BY <1>2, <1>3, <1>4, <1>5, <1>6, <1>7 DEF RedisNext

LEMMA InitListedInv == RedisInit => ListedInv
<1> SUFFICES ASSUME RedisInit PROVE ListedInv
  OBVIOUS
<1>1. RedisTyped /\ RequestsSound /\ PollSound
  BY QueueAssumption DEF RedisInit, Init, RedisTyped, RequestsSound, PollSound, ItemStatus, PC
<1>2. ASSUME NEW j \in Jobs PROVE Sound(j)
  <2>1. NobodyAtIt(j)
    BY QueueAssumption DEF RedisInit, Init, NobodyAtIt, InHand
  <2> QED BY <2>1 DEF RedisInit, Init, Sound, EntrySound, HandSound, WorkSound, NobodyAtIt
<1> QED BY <1>1, <1>2 DEF ListedInv, SoundInv

(* However requests, retries, recoveries and claims of several workers     *)
(* interleave, an item that is queued in the table has its entry in the    *)
(* sorted set, or one who is about to add it or to claim its row, unless a *)
(* fault, an overrun lease, a cancellation or a late removal led it astray *)
(* (RedisQueueBackend of worker.py, jobs_enqueue of main.py).              *)
THEOREM RedisQueuedIsListed == RedisSpec => []QueuedIsListed
<1>1. ListedInv => QueuedIsListed
  BY OnTrackIsNotAstray DEF ListedInv, SoundInv, Sound, Listed, QueuedIsListed
<1> QED BY <1>1, InitListedInv, NextListedInv, PTL DEF RedisSpec

(***************************************************************************)
(* The Redis backend keeps the same promise.  What a claim by id and the   *)
(* calls of Redis change of the argument is when a thread lets go of its   *)
(* item: one whose acknowledgement raises goes on to fail the item, so it  *)
(* keeps the item until it has acknowledged it.                            *)
(***************************************************************************)

WrittenPC == {"complete_job", "complete_run", "acknowledge"}
KeepingPC == HoldingPC \cup {"acknowledge"}
Keeps(t, j) == pc[t] \in KeepingPC /\ job[t] = j

HistoryTyped == overrun \subseteq Jobs /\ torn \subseteq Jobs

RowKept(j) ==
  /\ lease[j] # "none" <=> itemStatus[j] = "running"
  /\ itemStatus[j] = "absent" => retryCount[j] = 0
  /\ j \notin overrun =>
       /\ retryCount[j] <= MaxRetries[j] + 1
       /\ itemStatus[j] \in {"queued", "running"} => retryCount[j] <= MaxRetries[j]

KeeperKnows(t, j) ==
  /\ itemStatus[j] \in {"running", "completed", "cancelled"}
  /\ pc[t] \in WrittenPC => itemStatus[j] # "running"
  /\ pc[t] \notin WrittenPC /\ j \notin torn => itemStatus[j] # "completed"
  /\ lease[j] # "lapsed"
  /\ snapshot[t] = retryCount[j]
  /\ retryCount[j] <= MaxRetries[j]
  /\ \A u \in Threads : Keeps(u, j) => u = t

Kept(j) ==
  /\ RowKept(j)
  /\ j \notin overrun => \A t \in Threads : Keeps(t, j) => KeeperKnows(t, j)

(* Whoever is on the job found its row, and has worked on it before saying *)
(* that it is completed.                                                   *)
Met(j) ==
  /\ cancel[j] # "none" => itemStatus[j] # "absent"
  /\ \A t \in Threads : job[t] = j =>
       /\ itemStatus[j] # "absent"
       /\ snapshot[t] <= retryCount[j]
       /\ pc[t] \in {"mark_completed", "complete_item"} => j \in worked

KeptInv == HistoryTyped /\ \A j \in Jobs : Kept(j) /\ Met(j)

(* Steps that change nothing of the job's row and give it no thread.       *)
RowStill(j) ==
  /\ itemStatus'[j] = itemStatus[j] /\ retryCount'[j] = retryCount[j]
  /\ lease'[j] = lease[j]
  /\ overrun \subseteq overrun' /\ torn \subseteq torn' /\ worked \subseteq worked'

NoNewThread(j) ==
  \A t \in Threads : job'[t] = j =>
    /\ job[t] = j /\ snapshot'[t] = snapshot[t]
    /\ pc'[t] \in KeepingPC => pc[t] \in KeepingPC
    /\ pc'[t] \in WrittenPC => pc[t] \in WrittenPC
    /\ pc'[t] \in KeepingPC \ WrittenPC /\ pc[t] \in WrittenPC => j \in torn'
    /\ pc'[t] \in {"mark_completed", "complete_item"} =>
         pc[t] \in {"mark_completed", "complete_item"} \/ j \in worked'

LEMMA StillKept ==
  ASSUME NEW j \in Jobs, Kept(j), Met(j), RowStill(j), NoNewThread(j),
         cancel'[j] # "none" => itemStatus[j] # "absent"
  PROVE  Kept(j)' /\ Met(j)'
<1>1. RowKept(j)'
  BY DEF Kept, RowKept, RowStill
<1>2. ASSUME NEW t \in Threads, Keeps(t, j)', j \notin overrun' PROVE KeeperKnows(t, j)'
  <2>1. KeeperKnows(t, j) /\ snapshot'[t] = snapshot[t]
    BY <1>2 DEF Kept, Keeps, NoNewThread, RowStill
  <2>2. \A u \in Threads : Keeps(u, j)' => u = t
    BY <2>1 DEF KeeperKnows, Keeps, NoNewThread
  <2>3. /\ pc'[t] \in WrittenPC => pc[t] \in WrittenPC
        /\ pc'[t] \notin WrittenPC /\ j \notin torn' => pc[t] \notin WrittenPC
    BY <1>2 DEF Keeps, NoNewThread
  <2> QED BY <2>1, <2>2, <2>3 DEF KeeperKnows, RowStill
<1>3. Met(j)'
  BY DEF Met, RowStill, NoNewThread
<1> QED BY <1>1, <1>2, <1>3 DEF Kept

(* Threads that leave, or move on without reaching a new stage.            *)
LEMMA VacateNoNew ==
  ASSUME NEW T, Vacate(T), NEW j \in Jobs
  PROVE  NoNewThread(j)
BY QueueAssumption DEF Vacate, NoNewThread

LEMMA GotoNoNew ==
  ASSUME RedisTyped, NEW t \in Threads, NEW from, NEW to, Goto(t, from, to), NEW j \in Jobs,
         job[t] = j =>
           /\ to \in KeepingPC => from \in KeepingPC
           /\ to \in WrittenPC => from \in WrittenPC
           /\ to \in KeepingPC \ WrittenPC /\ from \in WrittenPC => j \in torn'
           /\ to \in {"mark_completed", "complete_item"} =>
                from \in {"mark_completed", "complete_item"} \/ j \in worked'
  PROVE  NoNewThread(j)
BY DEF Goto, NoNewThread, RedisTyped

LEMMA SameNoNew ==
  ASSUME UNCHANGED threadVars, NEW j \in Jobs PROVE NoNewThread(j)
BY DEF threadVars, NoNewThread

LEMMA RequestKept ==
  ASSUME RedisTyped, NEW k \in Jobs, NEW j \in Jobs, Kept(j), Met(j),
         \/ EnqueueRow(k) \/ EnqueueMirror(k) \/ EnqueueRaises(k)
         \/ CancelRow(k) \/ CancelMirror(k) \/ EntryDue(k) \/ TablesOnly(k)
  PROVE  Kept(j)' /\ Met(j)'
<1>1. UNCHANGED threadVars
  BY DEF EnqueueRow, Enqueue, EnqueueMirror, EnqueueRaises, CancelRow, CancelItem,
         CancelMirror, EntryDue, TablesOnly, CancelJob, CancelRaises, LeaseLapses,
         BecomesAvailable, vars
<1>2. NoNewThread(j)
  BY <1>1, SameNoNew
<1>3. CASE EnqueueMirror(k) \/ EnqueueRaises(k) \/ CancelMirror(k) \/ EntryDue(k)
  <2>1. RowStill(j) /\ cancel' = cancel
    BY <1>3 DEF EnqueueMirror, EnqueueRaises, CancelMirror, EntryDue, RowStill, vars, itemVars,
                history
  <2> QED BY <1>2, <2>1, StillKept DEF Met
<1>4. CASE EnqueueRow(k)
  <2>1. CASE k # j
    <3>1. RowStill(j) /\ cancel' = cancel
      BY <1>4, <2>1 DEF EnqueueRow, Enqueue, RowStill, RedisTyped, history
    <3> QED BY <1>2, <3>1, StillKept DEF Met
  <2>2. CASE k = j
    <3>1. /\ itemStatus[j] = "absent" /\ itemStatus'[j] = "queued"
          /\ UNCHANGED <<retryCount, lease, cancel, pc, job, snapshot, overrun, torn, worked>>
      BY <1>4, <2>2 DEF EnqueueRow, Enqueue, RedisTyped, history, threadVars
    <3>2. \A t \in Threads : job[t] # j
      BY <3>1 DEF Met
    <3>3. retryCount[j] = 0 /\ MaxRetries[j] \in Nat
      BY <3>1, QueueAssumption DEF Kept, RowKept
    <3>4. retryCount'[j] <= MaxRetries[j] /\ retryCount'[j] <= MaxRetries[j] + 1
      BY <3>1, <3>3
    <3>5. RowKept(j)'
      BY <3>1, <3>4 DEF Kept, RowKept
    <3> QED BY <3>1, <3>2, <3>5 DEF Kept, Met, Keeps
  <2> QED BY <2>1, <2>2
<1>5. CASE CancelRow(k)
  <2>1. CASE k # j
    <3>1. RowStill(j) /\ cancel'[j] = cancel[j]
      BY <1>5, <2>1 DEF CancelRow, CancelItem, RowStill, RedisTyped, history
    <3> QED BY <1>2, <3>1, StillKept DEF Met
  <2>2. CASE k = j
    <3>1. /\ itemStatus'[j] = "cancelled" /\ lease'[j] = "none"
          /\ UNCHANGED <<retryCount, pc, job, snapshot, overrun, torn, worked>>
      BY <1>5, <2>2 DEF CancelRow, CancelItem, RedisTyped, history, threadVars
    <3>2. RowKept(j)' /\ Met(j)'
      BY <3>1 DEF Kept, RowKept, Met
    <3>3. ASSUME NEW t \in Threads, Keeps(t, j)', j \notin overrun' PROVE KeeperKnows(t, j)'
      <4>1. KeeperKnows(t, j) /\ \A u \in Threads : Keeps(u, j)' <=> Keeps(u, j)
        BY <3>1, <3>3 DEF Kept, Keeps
      <4> QED BY <3>1, <4>1 DEF KeeperKnows
    <3> QED BY <3>2, <3>3 DEF Kept
  <2> QED BY <2>1, <2>2
<1>6. CASE TablesOnly(k)
  <2>1. CASE CancelJob(k) \/ CancelRaises(k) \/ BecomesAvailable(k)
    <3>1. RowStill(j)
      BY <2>1 DEF CancelJob, CancelRaises, BecomesAvailable, RowStill, itemVars, history
    <3>2. cancel'[j] # "none" => itemStatus[j] # "absent"
      BY <2>1 DEF CancelJob, CancelRaises, BecomesAvailable, Met, RedisTyped
    <3> QED BY <1>2, <3>1, <3>2, StillKept
  <2>2. CASE LeaseLapses(k)
    <3>1. UNCHANGED <<itemStatus, retryCount, cancel, torn, worked>> /\ overrun \subseteq overrun'
      BY <2>2 DEF LeaseLapses
    <3>2. CASE k # j
      <4>1. RowStill(j)
        BY <2>2, <3>1, <3>2 DEF LeaseLapses, RowStill, RedisTyped
      <4> QED BY <1>2, <3>1, <4>1, StillKept DEF Met
    <3>3. CASE k = j
      <4>1. itemStatus[j] = "running" /\ lease'[j] = "lapsed"
        BY <2>2, <3>3 DEF LeaseLapses, RedisTyped, Kept, RowKept
      <4>2. RowKept(j)' /\ Met(j)'
        BY <1>1, <3>1, <4>1 DEF Kept, RowKept, Met, threadVars
      <4>3. j \notin overrun' => \A t \in Threads : ~Keeps(t, j)
        <5> SUFFICES ASSUME j \notin overrun', NEW t \in Threads, Keeps(t, j) PROVE FALSE
          OBVIOUS
        <5>1. ~Holds(t, j) /\ j \notin overrun
          BY <2>2, <3>1, <3>3 DEF LeaseLapses
        <5>2. pc[t] = "acknowledge"
          BY <5>1 DEF Holds, Keeps, KeepingPC
        <5> QED BY <4>1, <5>1, <5>2 DEF Kept, KeeperKnows, WrittenPC
      <4>4. \A t \in Threads : Keeps(t, j)' <=> Keeps(t, j)
        BY <1>1 DEF Keeps, threadVars
      <4> QED BY <4>2, <4>3, <4>4 DEF Kept
    <3> QED BY <3>2, <3>3
  <2> QED BY <1>6, <2>1, <2>2 DEF TablesOnly
<1> QED BY <1>3, <1>4, <1>5, <1>6

LEMMA PollKept ==
  ASSUME RedisTyped, NEW w \in Workers, NEW j \in Jobs, Kept(j), Met(j),
         PollStep(w) \/ SubmitBatch(w)
  PROVE  Kept(j)' /\ Met(j)'
<1>1. CASE MirrorRecovered(w) \/ Scan(w) \/ EndBatch(w) \/ RemoveCandidate(w) \/ ClaimNothing(w)
  <2>1. UNCHANGED vars
    BY <1>1 DEF MirrorRecovered, Scan, EndBatch, RemoveCandidate, ClaimNothing
  <2>2. RowStill(j) /\ cancel' = cancel /\ UNCHANGED threadVars
    BY <2>1 DEF vars, itemVars, history, RowStill
  <2> QED BY <2>2, SameNoNew, StillKept DEF Met
<1>2. CASE RecoverRows(w)
  <2>1. UNCHANGED <<retryCount, cancel, overrun, torn, worked, threadVars>>
    BY <1>2 DEF RecoverRows, history
  <2>2. CASE ~Expired(j)
    <3>1. RowStill(j)
      BY <1>2, <2>1, <2>2 DEF RecoverRows, RowStill
    <3> QED BY <2>1, <3>1, SameNoNew, StillKept DEF Met
  <2>3. CASE Expired(j)
    <3>1. /\ itemStatus[j] = "running" /\ lease[j] = "lapsed"
          /\ itemStatus'[j] = "queued" /\ lease'[j] = "none"
      BY <1>2, <2>3 DEF RecoverRows, Expired
    <3>2. RowKept(j)' /\ Met(j)'
      BY <2>1, <3>1 DEF Kept, RowKept, Met, threadVars
    <3>3. j \notin overrun' => \A t \in Threads : ~Keeps(t, j)'
      BY <2>1, <3>1 DEF Kept, KeeperKnows, Keeps, threadVars
    <3> QED BY <3>2, <3>3 DEF Kept
  <2> QED BY <2>2, <2>3
<1>3. ASSUME NEW t \in Threads, ClaimCandidate(w, t) PROVE Kept(j)' /\ Met(j)'
  <2> SUFFICES ASSUME NEW k, k = candidate[w] PROVE Kept(j)' /\ Met(j)'
    OBVIOUS
  <2>1. /\ poll[w] = "claim" /\ k \in Jobs /\ itemStatus[k] = "queued" /\ pc[t] = "idle"
        /\ itemStatus' = [itemStatus EXCEPT ![k] = "running"]
        /\ lease'      = [lease EXCEPT ![k] = "live"]
        /\ pc'         = [pc EXCEPT ![t] = "claimed"]
        /\ job'        = [job EXCEPT ![t] = k]
        /\ snapshot'   = [snapshot EXCEPT ![t] = retryCount[k]]
        /\ UNCHANGED <<retryCount, cancel, overrun, torn, worked>>
    BY <1>3 DEF ClaimCandidate, PollGoto, ClaimById, Claimable, Free, RedisTyped
  <2>2. CASE k # j
    <3>1. RowStill(j)
      BY <2>1, <2>2 DEF RowStill, RedisTyped
    <3>2. NoNewThread(j)
      BY <2>1, <2>2 DEF NoNewThread, RedisTyped
    <3> QED BY <2>1, <3>1, <3>2, StillKept DEF Met
  <2>3. CASE k = j
    <3>1. itemStatus[j] = "queued" /\ itemStatus'[j] = "running" /\ lease'[j] = "live"
      BY <2>1, <2>3 DEF RedisTyped
    <3>2. j \notin overrun => \A u \in Threads : ~Keeps(u, j)
      BY <3>1 DEF Kept, KeeperKnows
    <3>3. \A u \in Threads : Keeps(u, j)' <=> u = t \/ Keeps(u, j)
      BY <2>1, <2>3 DEF Keeps, KeepingPC, HoldingPC, PC, RedisTyped
    <3>4. pc'[t] = "claimed" /\ snapshot'[t] = retryCount[j]
      BY <2>1, <2>3 DEF RedisTyped
    <3>5. RowKept(j)'
      BY <2>1, <3>1 DEF Kept, RowKept
    <3>6. j \notin overrun' => KeeperKnows(t, j)'
      BY <2>1, <3>1, <3>2, <3>3, <3>4 DEF Kept, RowKept, KeeperKnows, WrittenPC
    <3>7. Met(j)'
      <4> SUFFICES ASSUME NEW u \in Threads, job'[u] = j
                   PROVE  /\ itemStatus'[j] # "absent" /\ snapshot'[u] <= retryCount'[j]
                          /\ pc'[u] \in {"mark_completed", "complete_item"} => j \in worked'
        BY <2>1, <3>1 DEF Met
      <4>1. CASE u = t
        <5>1. retryCount[j] \in Nat
          BY DEF RedisTyped
        <5> QED BY <2>1, <3>1, <3>4, <4>1, <5>1
      <4>2. CASE u # t
        <5>1. job[u] = j /\ snapshot'[u] = snapshot[u] /\ pc'[u] = pc[u]
          BY <2>1, <4>2 DEF RedisTyped
        <5> QED BY <2>1, <3>1, <5>1 DEF Met
      <4> QED BY <4>1, <4>2
    <3> QED BY <2>1, <3>2, <3>3, <3>5, <3>6, <3>7 DEF Kept
  <2> QED BY <2>2, <2>3
<1>4. CASE SubmitBatch(w)
  <2>1. RowStill(j) /\ cancel' = cancel
    BY <1>4 DEF SubmitBatch, Submit, RowStill, itemVars, history
  <2>2. NoNewThread(j)
    BY <1>4 DEF SubmitBatch, Submit, NoNewThread, KeepingPC, HoldingPC, PC, WrittenPC
  <2> QED BY <2>1, <2>2, StillKept DEF Met
<1> QED BY <1>1, <1>2, <1>3, <1>4 DEF PollStep

LEMMA TableKept ==
  ASSUME RedisTyped, NEW t \in Threads, NEW j \in Jobs, Kept(j), Met(j), TableStep(t)
  PROVE  Kept(j)' /\ Met(j)'
<1> USE DEF KeepingPC, WrittenPC, HoldingPC, PC, Completing, Failing
<1>1. cancel' = cancel
  BY DEF TableStep, ProcessReturns, ProcessRaises, MarkCompleted, CompleteItem, CompleteJob,
         CompleteRunThen, Then, MarkFailed, FailItem, FailJobRetryThen, FailJobExhausted,
         InsertDeadLetterThen, StatementRaises
<1>2. cancel'[j] # "none" => itemStatus[j] # "absent"
  BY <1>1 DEF Met
<1>3. ASSUME ProcessReturns(t) \/ ProcessRaises(t) \/ MarkCompleted(t) PROVE Kept(j)' /\ Met(j)'
  <2>1. RowStill(j)
    BY <1>3 DEF ProcessReturns, ProcessRaises, MarkCompleted, RowStill, itemVars, history
  <2>2. NoNewThread(j)
    BY <1>3, GotoNoNew DEF ProcessReturns, ProcessRaises, MarkCompleted
  <2> QED BY <1>2, <2>1, <2>2, StillKept
<1>4. ASSUME CompleteJob(t) \/ CompleteRunThen(t) \/ MarkFailed(t) PROVE Kept(j)' /\ Met(j)'
  <2>1. RowStill(j)
    BY <1>4 DEF CompleteJob, CompleteRunThen, Then, MarkFailed, RowStill, itemVars, history
  <2>2. NoNewThread(j)
    BY <1>4, GotoNoNew DEF CompleteJob, CompleteRunThen, Then, MarkFailed
  <2> QED BY <1>2, <2>1, <2>2, StillKept
<1>5. ASSUME FailJobRetryThen(t) \/ FailJobExhausted(t) \/ InsertDeadLetterThen(t)
      PROVE  Kept(j)' /\ Met(j)'
  <2>1. RowStill(j)
    BY <1>5 DEF FailJobRetryThen, Then, FailJobExhausted, InsertDeadLetterThen, RowStill,
                itemVars, history
  <2>2. NoNewThread(j)
    BY <1>5, GotoNoNew DEF FailJobRetryThen, Then, FailJobExhausted, InsertDeadLetterThen
  <2> QED BY <1>2, <2>1, <2>2, StillKept
<1>6. ASSUME StatementRaises(t) PROVE Kept(j)' /\ Met(j)'
  <2>1. RowStill(j)
    BY <1>6 DEF StatementRaises, RowStill, itemVars
  <2>2. CASE pc[t] \in Failing
    <3>1. Vacate({t})
      BY <1>6, <2>2 DEF StatementRaises
    <3> QED BY <1>2, <2>1, <3>1, VacateNoNew, StillKept
  <2>3. CASE pc[t] \notin Failing
    <3>1. Goto(t, pc[t], "mark_failed") /\ pc[t] \in KeepingPC
          /\ (pc[t] \in WrittenPC => job[t] \in torn')
      BY <1>6, <2>3 DEF StatementRaises, MidUpdate
    <3>2. NoNewThread(j)
      BY <3>1, GotoNoNew
    <3> QED BY <1>2, <2>1, <3>2, StillKept
  <2> QED BY <2>2, <2>3
<1>7. ASSUME CompleteItem(t) PROVE Kept(j)' /\ Met(j)'
  <2>1. Goto(t, "complete_item", "complete_job")
        /\ UNCHANGED <<retryCount, overrun, torn, worked>>
    BY <1>7 DEF CompleteItem, history
  <2>2. CASE job[t] # j
    <3>1. RowStill(j)
      BY <1>7, <2>1, <2>2 DEF CompleteItem, RowStill, RedisTyped
    <3>2. NoNewThread(j)
      BY <2>1, <2>2, GotoNoNew
    <3> QED BY <1>2, <3>1, <3>2, StillKept
  <2>3. CASE job[t] = j
    <3>1. itemStatus'[j] = "completed" /\ lease'[j] = "none"
      BY <1>7, <2>3 DEF CompleteItem, RedisTyped
    <3>2. /\ job' = job /\ snapshot' = snapshot /\ pc'[t] = "complete_job"
          /\ \A u \in Threads \ {t} : pc'[u] = pc[u]
          /\ \A u \in Threads : Keeps(u, j)' <=> Keeps(u, j)
      BY <2>1 DEF Goto, Keeps, RedisTyped
    <3>3. RowKept(j)'
      BY <2>1, <3>1 DEF Kept, RowKept
    <3>4. Met(j)'
      BY <1>1, <2>1, <3>1, <3>2 DEF Met
    <3>5. ASSUME j \notin overrun', NEW u \in Threads, Keeps(u, j)' PROVE KeeperKnows(u, j)'
      <4>1. KeeperKnows(t, j) /\ u = t
        BY <2>1, <2>3, <3>2, <3>5 DEF Kept, KeeperKnows, Keeps, Goto
      <4> QED BY <2>1, <3>1, <3>2, <4>1 DEF KeeperKnows
    <3> QED BY <3>3, <3>4, <3>5 DEF Kept
  <2> QED BY <2>2, <2>3
<1>8. ASSUME FailItem(t) PROVE Kept(j)' /\ Met(j)'
  <2>1. Goto(t, "fail_item", "fail_job") /\ UNCHANGED <<overrun, torn, worked>>
    BY <1>8 DEF FailItem, history
  <2>2. CASE job[t] # j
    <3>1. RowStill(j)
      BY <1>8, <2>1, <2>2 DEF FailItem, RowStill, RedisTyped
    <3>2. NoNewThread(j)
      BY <2>1, <2>2, GotoNoNew
    <3> QED BY <1>2, <3>1, <3>2, StillKept
  <2>3. CASE job[t] = j
    <3>1. /\ itemStatus'[j] = (IF ShouldRetry(t) THEN "queued" ELSE "dead_letter")
          /\ lease'[j] = "none" /\ retryCount'[j] = retryCount[j] + 1
      BY <1>8, <2>3 DEF FailItem, RedisTyped
    <3>2. /\ job' = job /\ snapshot' = snapshot
          /\ \A u \in Threads : Keeps(u, j)' <=> u # t /\ Keeps(u, j)
          /\ \A u \in Threads : pc'[u] \in {"mark_completed", "complete_item"} => pc'[u] = pc[u]
      BY <2>1 DEF Goto, Keeps, RedisTyped
    <3>3. Keeps(t, j)
      BY <2>1, <2>3 DEF Goto, Keeps
    <3>4. /\ retryCount[j] \in Nat /\ MaxRetries[j] \in Nat
          /\ \A u \in Threads : snapshot[u] \in Nat
      BY QueueAssumption DEF RedisTyped
    <3>5. j \notin overrun => /\ snapshot[t] = retryCount[j]
                              /\ retryCount[j] <= MaxRetries[j]
                              /\ \A u \in Threads : ~Keeps(u, j)'
      BY <3>2, <3>3 DEF Kept, KeeperKnows
    <3>6. RowKept(j)'
      <4>1. itemStatus'[j] = "queued" => snapshot[t] + 1 <= MaxRetries[j]
        BY <2>3, <3>1 DEF ShouldRetry
      <4>2. j \notin overrun =>
              /\ retryCount'[j] <= MaxRetries[j] + 1
              /\ itemStatus'[j] = "queued" => retryCount'[j] <= MaxRetries[j]
        BY <3>1, <3>4, <3>5, <4>1
      <4> QED BY <2>1, <3>1, <4>2 DEF RowKept
    <3>7. Met(j)'
      <4>1. \A u \in Threads : snapshot[u] <= retryCount[j] => snapshot[u] <= retryCount'[j]
        BY <3>1, <3>4
      <4> QED BY <1>1, <2>1, <3>1, <3>2, <4>1 DEF Met
    <3> QED BY <2>1, <3>5, <3>6, <3>7 DEF Kept
  <2> QED BY <2>2, <2>3
<1> QED BY <1>3, <1>4, <1>5, <1>6, <1>7, <1>8 DEF TableStep

LEMMA BackendKept ==
  ASSUME RedisTyped, NEW j \in Jobs, Kept(j), Met(j),
         \/ \E t \in Threads : BackendStep(t) \/ BackendRaises(t)
         \/ \E w \in Workers : BatchRaises(w) \/ CrashRedis(w)
  PROVE  Kept(j)' /\ Met(j)'
<1>1. RowStill(j) /\ cancel' = cancel
  BY DEF BackendStep, BackendRaises, BatchRaises, CrashRedis, Stop, RowStill, itemVars, history
<1>2. NoNewThread(j)
  <2>1. CASE \E T : Vacate(T)
    BY <2>1, VacateNoNew
  <2>2. ASSUME NEW t \in Threads, Goto(t, "acknowledge", "mark_failed"), job[t] \in torn'
        PROVE  NoNewThread(j)
    BY <2>2, GotoNoNew DEF KeepingPC, WrittenPC, HoldingPC, PC, Failing
  <2> QED BY <2>1, <2>2 DEF BackendStep, BackendRaises, BatchRaises, CrashRedis, Stop, Leave
<1> QED BY <1>1, <1>2, StillKept DEF Met

LEMMA NextHistoryTyped ==
  HistoryTyped /\ RedisTyped /\ [RedisNext]_redisVars => HistoryTyped'
<1> SUFFICES ASSUME HistoryTyped, RedisTyped, [RedisNext]_redisVars PROVE HistoryTyped'
  OBVIOUS
<1>1. \A t \in Threads : pc[t] # "idle" => job[t] \in Jobs
  BY DEF RedisTyped
<1>2. ASSUME NEW k \in Jobs,
             \/ EnqueueRow(k) \/ EnqueueMirror(k) \/ EnqueueRaises(k)
             \/ CancelRow(k) \/ CancelMirror(k) \/ EntryDue(k) \/ TablesOnly(k)
      PROVE  HistoryTyped'
  BY <1>2 DEF EnqueueRow, Enqueue, EnqueueMirror, EnqueueRaises, CancelRow, CancelItem,
         CancelMirror, EntryDue, TablesOnly, CancelJob, CancelRaises, LeaseLapses,
         BecomesAvailable, vars, history, HistoryTyped
<1>3. ASSUME NEW w \in Workers, PollStep(w) \/ SubmitBatch(w) PROVE HistoryTyped'
  BY <1>3 DEF PollStep, RecoverRows, MirrorRecovered, Scan, EndBatch, RemoveCandidate,
              ClaimNothing, ClaimCandidate, SubmitBatch, Submit, vars, history, HistoryTyped
<1>4. ASSUME NEW w \in Workers, NEW T \in SUBSET Threads, Stop(w, T) PROVE HistoryTyped'
  <2>1. \A t \in {u \in T : pc[u] \in MidUpdate} : job[t] \in Jobs
    BY <1>1 DEF MidUpdate
  <2> QED BY <1>4, <2>1 DEF Stop, HistoryTyped
<1>5. ASSUME NEW t \in Threads, TableStep(t) PROVE HistoryTyped'
  <2>1. CASE StatementRaises(t)
    BY <1>1, <2>1 DEF StatementRaises, MidUpdate, HistoryTyped
  <2>2. CASE ~StatementRaises(t)
    BY <1>5, <2>2 DEF TableStep, ProcessReturns, ProcessRaises, MarkCompleted, CompleteItem,
         CompleteJob, CompleteRunThen, Then, MarkFailed, FailItem, FailJobRetryThen,
         FailJobExhausted, InsertDeadLetterThen, history, HistoryTyped
  <2> QED BY <2>1, <2>2
<1>6. ASSUME NEW t \in Threads, BackendStep(t) \/ BackendRaises(t) PROVE HistoryTyped'
  BY <1>1, <1>6 DEF BackendStep, BackendRaises, Leave, Goto, history, HistoryTyped
<1>7. CASE UNCHANGED redisVars
  BY <1>7 DEF redisVars, vars, history, HistoryTyped
<1> QED BY <1>2, <1>3, <1>4, <1>5, <1>6, <1>7 DEF RedisNext, BatchRaises, CrashRedis

LEMMA NextKeptInv == RedisTyped /\ KeptInv /\ [RedisNext]_redisVars => KeptInv'
<1> SUFFICES ASSUME RedisTyped, KeptInv, [RedisNext]_redisVars, NEW j \in Jobs
             PROVE  Kept(j)' /\ Met(j)'
  BY NextHistoryTyped DEF KeptInv
<1>1. Kept(j) /\ Met(j)
  BY DEF KeptInv
<1>2. CASE UNCHANGED redisVars
  <2>1. RowStill(j) /\ cancel' = cancel /\ UNCHANGED threadVars
    BY <1>2 DEF redisVars, vars, itemVars, history, RowStill
  <2> QED BY <1>1, <2>1, SameNoNew, StillKept DEF Met
<1>3. CASE RedisNext
  BY <1>1, <1>3, RequestKept, PollKept, TableKept, BackendKept DEF RedisNext
<1> QED BY <1>2, <1>3

LEMMA InitKeptInv == RedisInit => KeptInv
<1> SUFFICES ASSUME RedisInit, NEW j \in Jobs PROVE HistoryTyped /\ Kept(j) /\ Met(j)
  BY DEF KeptInv, RedisInit, Init, HistoryTyped
<1>1. HistoryTyped
  BY DEF RedisInit, Init, HistoryTyped
<1>2. retryCount[j] = 0 /\ MaxRetries[j] \in Nat
  BY QueueAssumption DEF RedisInit, Init
<1>3. RowKept(j)
  BY <1>2 DEF RedisInit, Init, RowKept
<1>4. \A t \in Threads : job[t] # j
  BY QueueAssumption DEF RedisInit, Init
<1> QED BY <1>1, <1>3, <1>4 DEF Kept, Met, Keeps, RedisInit, Init

LEMMA RedisKeptInv == RedisSpec => [](RedisTyped /\ KeptInv)
<1>1. ListedInv => RedisTyped
  BY DEF ListedInv
<1> QED BY <1>1, InitListedInv, NextListedInv, InitKeptInv, NextKeptInv, PTL DEF RedisSpec

(* With the Redis backend too, two threads hold an item only if the lease  *)
(* of one of them ran out while it was at work: zrem and the claim by id   *)
(* give an entry to one worker.                                            *)
THEOREM RedisExclusion == RedisSpec => []ExclusiveUnlessOverrun
<1>1. KeptInv => ExclusiveUnlessOverrun
  BY DEF KeptInv, Kept, KeeperKnows, Keeps, KeepingPC, Holds, ExclusiveUnlessOverrun
<1> QED BY <1>1, RedisKeptInv, PTL

(* And an item is not retried more often than max_retries allows.          *)
THEOREM RedisRetryBudget == RedisSpec => []RetryBudget
<1>1. KeptInv => RetryBudget
  BY DEF KeptInv, Kept, RowKept, RetryBudget
<1> QED BY <1>1, RedisKeptInv, PTL

LEMMA RedisPromiseStep ==
  ASSUME RedisTyped, KeptInv, [RedisNext]_redisVars
  PROVE  P!Next \/ UNCHANGED P!promise
<1>1. HistoryTyped' /\ itemStatus \in [Jobs -> ItemStatus]
  BY NextHistoryTyped DEF KeptInv, RedisTyped
<1>2. ASSUME NEW t \in Threads, pc[t] # "idle"
      PROVE  /\ job[t] \in Jobs /\ itemStatus[job[t]] # "absent"
             /\ snapshot[t] \in Nat /\ retryCount[job[t]] \in Nat
             /\ snapshot[t] <= retryCount[job[t]]
             /\ pc[t] = "complete_item" => job[t] \in worked
  <2>1. job[t] \in Jobs
    BY <1>2 DEF RedisTyped
  <2> QED BY <2>1 DEF RedisTyped, KeptInv, Met
<1>3. ASSUME NEW t \in Threads, pc[t] \in {"complete_item", "fail_item"},
             job[t] \notin overrun \cup torn
      PROVE  /\ itemStatus[job[t]] \in {"running", "cancelled"}
             /\ snapshot[t] = retryCount[job[t]]
  <2>1. Keeps(t, job[t]) /\ job[t] \in Jobs /\ pc[t] \notin WrittenPC
    BY <1>2, <1>3 DEF Keeps, KeepingPC, WrittenPC, HoldingPC, PC, Completing, Failing
  <2> QED BY <1>3, <2>1 DEF KeptInv, Kept, KeeperKnows
<1>4. ASSUME NEW k \in Jobs, EnqueueRow(k) \/ CancelRow(k) PROVE P!Next
  <2>1. CASE EnqueueRow(k)
    BY <1>1, <2>1, EnqueuePromise DEF EnqueueRow
  <2>2. CASE CancelRow(k)
    BY <1>1, <2>2, CancelItemPromise DEF CancelRow, CancelItem, KeptInv, Met
  <2> QED BY <1>4, <2>1, <2>2
<1>5. ASSUME NEW k \in Jobs,
             EnqueueMirror(k) \/ EnqueueRaises(k) \/ CancelMirror(k) \/ EntryDue(k)
      PROVE  Hidden
  BY <1>5 DEF EnqueueMirror, EnqueueRaises, CancelMirror, EntryDue, Hidden, vars, itemVars, history
<1>6. ASSUME NEW k \in Jobs, TablesOnly(k) PROVE P!Next \/ Hidden
  <2>1. CASE CancelJob(k) \/ CancelRaises(k) \/ BecomesAvailable(k)
    BY <2>1 DEF CancelJob, CancelRaises, BecomesAvailable, Hidden, itemVars, history
  <2>2. CASE LeaseLapses(k)
    BY <1>1, <2>2, DisturbPromise DEF LeaseLapses, HistoryTyped
  <2> QED BY <1>6, <2>1, <2>2 DEF TablesOnly
<1>7. ASSUME NEW w \in Workers, PollStep(w) \/ SubmitBatch(w) PROVE UNCHANGED P!promise
  <2>1. CASE RecoverRows(w)
    <3>1. \A k \in Jobs : StageOf(itemStatus'[k]) = StageOf(itemStatus[k])
      BY <2>1 DEF RecoverRows, Expired, StageOf
    <3> QED BY <2>1, <3>1 DEF RecoverRows, history, P!promise
  <2>2. ASSUME NEW t \in Threads, ClaimCandidate(w, t) PROVE UNCHANGED P!promise
    <3>1. /\ itemStatus' = [itemStatus EXCEPT ![candidate[w]] = "running"]
          /\ itemStatus[candidate[w]] = "queued"
          /\ UNCHANGED <<retryCount, overrun, torn, worked>>
      BY <2>2 DEF ClaimCandidate, ClaimById, Claimable
    <3>2. \A k \in Jobs : StageOf(itemStatus'[k]) = StageOf(itemStatus[k])
      BY <1>1, <3>1 DEF StageOf
    <3> QED BY <3>1, <3>2 DEF P!promise
  <2>3. CASE \/ MirrorRecovered(w) \/ Scan(w) \/ EndBatch(w) \/ RemoveCandidate(w)
             \/ ClaimNothing(w) \/ SubmitBatch(w)
    <3>1. Hidden
      BY <2>3 DEF MirrorRecovered, Scan, EndBatch, RemoveCandidate, ClaimNothing, SubmitBatch,
                  Submit, Hidden, vars, itemVars, history
    <3> QED BY <3>1, HiddenPromise
  <2> QED BY <1>7, <2>1, <2>2, <2>3 DEF PollStep
<1>8. ASSUME NEW w \in Workers, BatchRaises(w) \/ CrashRedis(w) PROVE P!Next
  BY <1>1, <1>8, DisturbPromise DEF BatchRaises, CrashRedis, Stop, HistoryTyped, KeptInv, itemVars
<1>9. ASSUME NEW t \in Threads, TableStep(t) PROVE P!Next \/ Hidden
  <2>1. CASE ProcessReturns(t)
    BY <1>1, <1>2, <2>1, WorkPromise DEF ProcessReturns, Goto
  <2>2. CASE CompleteItem(t)
    <3>1. pc[t] = "complete_item"
      BY <2>2 DEF CompleteItem, Goto
    <3> QED BY <1>1, <1>2, <1>3, <2>2, <3>1, CompleteItemPromise
  <2>3. CASE FailItem(t)
    <3>1. pc[t] = "fail_item"
      BY <2>3 DEF FailItem, Goto
    <3> QED BY <1>1, <1>2, <1>3, <2>3, <3>1, FailItemPromise
  <2>4. CASE StatementRaises(t)
    BY <1>1, <2>4, DisturbPromise DEF StatementRaises, HistoryTyped, itemVars
  <2>5. CASE ~(ProcessReturns(t) \/ CompleteItem(t) \/ FailItem(t) \/ StatementRaises(t))
    BY <1>9, <2>5 DEF TableStep, ProcessRaises, MarkCompleted, CompleteJob,
         CompleteRunThen, Then, MarkFailed, FailJobRetryThen, FailJobExhausted,
         InsertDeadLetterThen, Hidden, itemVars, history
  <2> QED BY <2>1, <2>2, <2>3, <2>4, <2>5
<1>10. ASSUME NEW t \in Threads, BackendStep(t) \/ BackendRaises(t) PROVE P!Next \/ Hidden
  <2>1. CASE BackendStep(t)
    BY <2>1 DEF BackendStep, Hidden, itemVars, history
  <2>2. CASE BackendRaises(t)
    BY <1>1, <2>2, DisturbPromise DEF BackendRaises, HistoryTyped, itemVars
  <2> QED BY <1>10, <2>1, <2>2
<1>11. CASE UNCHANGED redisVars
  BY <1>11, HiddenPromise DEF redisVars, vars, itemVars, history, Hidden
<1> QED
  BY <1>4, <1>5, <1>6, <1>7, <1>8, <1>9, <1>10, <1>11, HiddenPromise DEF RedisNext

(* Claimed by id from a sorted set that may part from the tables, the jobs *)
(* are still seen by a client as JobPromise says: the backend changes when *)
(* a job is worked on, never what becomes of it.                           *)
THEOREM RedisKeepsPromise == RedisSpec => Promise
<1>1. RedisInit => P!Init
  BY PromiseInit DEF RedisInit
<1>2. RedisTyped /\ KeptInv /\ [RedisNext]_redisVars => [P!Next]_(P!promise)
  BY RedisPromiseStep
<1> QED BY <1>1, <1>2, RedisKeptInv, PTL DEF RedisSpec, Promise, P!Spec
=============================================================================
