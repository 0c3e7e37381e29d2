------------------------------ MODULE MCQueue ------------------------------
(* The instance of Queue for TLC: two worker processes with a thread each, *)
(* and either one job that may fail twice, with faults, or two jobs of the *)
(* same priority that compete for the threads and do not fail.             *)
EXTENDS Queue, FiniteSets, TLC

CONSTANTS j1, j2, t1, t2, w1, w2

TwoProcesses == (t1 :> w1) @@ (t2 :> w2)
SamePriority == (j1 :> 5) @@ (j2 :> 5)
TwoRetriesOrNone == (j1 :> 2) @@ (j2 :> 0)

Troubled == faults > 0 \/ \E t \in Threads : pc[t] = "mark_failed" \/ \E j \in Jobs : failures[j] > 0
Alone    == Cardinality({j \in Jobs : jobStatus[j] # "absent"}) <= 1

(* Bound: what fails, fails while there is one job.  No action that must   *)
(* happen depends on it, since a handler that may raise may also return.   *)
TroubledAlone == Troubled' => Alone'

MCSpec == Init /\ [][Next /\ TroubledAlone]_vars /\ Fairness
=============================================================================
