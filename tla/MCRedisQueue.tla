---------------------------- MODULE MCRedisQueue ----------------------------
(* One job that may be retried once, and two worker processes of a thread  *)
(* each: the least for two workers to see the same entry.                  *)
EXTENDS RedisQueue, TLC

CONSTANTS j1, t1, t2, w1, w2

TwoProcesses == (t1 :> w1) @@ (t2 :> w2)
OneJobPriority == (j1 :> 5)
OneRetry == (j1 :> 1)
=============================================================================
