----------------------------- MODULE JobPromise -----------------------------
(***************************************************************************)
(* What the job queue promises a client, whatever carries it out: a job    *)
(* that was accepted stays pending until it has been worked on to its end, *)
(* has failed more often than max_retries allows, or was cancelled, and    *)
(* then it does not change any more, unless somebody disturbed it.         *)
(***************************************************************************)
EXTENDS Integers

CONSTANTS Jobs, MaxRetries

VARIABLES
  stage,      \* where the job is, seen by a client
  tries,      \* failures counted against max_retries
  worked,     \* jobs somebody has worked on to the end
  disturbed   \* jobs whose worker lost its lease or was cut off between two updates

promise == <<stage, tries, worked, disturbed>>

Init ==
  /\ stage = [j \in Jobs |-> "absent"]
  /\ tries = [j \in Jobs |-> 0]
  /\ worked = {}
  /\ disturbed = {}

Becomes(j, s) == stage' = [stage EXCEPT ![j] = s]

(* A cancellation does not stop a worker: what it was about to do to the   *)
(* job still happens.                                                      *)
Open(j) == stage[j] \in {"pending", "cancelled"} \/ (j \in disturbed /\ stage[j] # "absent")

Accept(j) ==
  /\ stage[j] = "absent"
  /\ Becomes(j, "pending")
  /\ UNCHANGED <<tries, worked, disturbed>>

Work(j) ==
  /\ stage[j] # "absent"
  /\ worked' = worked \cup {j}
  /\ UNCHANGED <<stage, tries, disturbed>>

Finish(j) ==
  /\ Open(j)
  /\ j \in worked
  /\ Becomes(j, "done")
  /\ UNCHANGED <<tries, worked, disturbed>>

Fail(j) ==
  /\ Open(j)
  /\ tries' = [tries EXCEPT ![j] = @ + 1]
  /\ \/ Becomes(j, "pending") /\ (tries[j] < MaxRetries[j] \/ j \in disturbed)
     \/ Becomes(j, "dead")    /\ tries[j] >= MaxRetries[j]
  /\ UNCHANGED <<worked, disturbed>>

Cancel(j) ==
  /\ stage[j] # "absent"
  /\ Becomes(j, "cancelled")
  /\ UNCHANGED <<tries, worked, disturbed>>

Disturb ==
  /\ \E D \in SUBSET Jobs : disturbed' = disturbed \cup D
  /\ UNCHANGED <<stage, tries, worked>>

Next == Disturb \/ \E j \in Jobs : Accept(j) \/ Work(j) \/ Finish(j) \/ Fail(j) \/ Cancel(j)

Spec == Init /\ [][Next]_promise
=============================================================================
