---------------------------- MODULE WorkflowCaps ----------------------------
(***************************************************************************)
(* The cap on the executions of one workflow in a window of time:          *)
(* _check_workflow_execution_cap of service/app/main.py and what it calls. *)
(*                                                                         *)
(* A caller reads the policy, stores it if there was none, counts the      *)
(* executions that audit_logs holds for the window, and, when it is        *)
(* allowed, logs one more: four statements, and three of them go on when   *)
(* they raise.  Callers are threads that serve requests; what they are     *)
(* granted the cap for is up to the module that extends this one.          *)
(***************************************************************************)
EXTENDS Naturals, FiniteSets

CONSTANTS
  Callers,     \* threads
  Caps,        \* the policies an administrator may choose
  DefaultCap,  \* workflow_execution_cap_max_requests
  NoCap,       \* no row of workflow_runtime_policies
  MaxStarts,   \* bound on the executions in the window
  MaxFaults    \* bound on failing statements and crashes

Cap == [enabled : BOOLEAN, max : Nat]

ASSUME WorkflowCapsAssumption ==
  /\ IsFiniteSet(Callers) /\ Callers # {}
  /\ Caps \subseteq Cap /\ NoCap \notin Cap
  /\ DefaultCap \in Cap /\ DefaultCap.enabled
  /\ MaxStarts \in Nat /\ MaxFaults \in Nat

VARIABLES
  cap,       \* the row of workflow_runtime_policies
  logged,    \* the rows of audit_logs in the window
  pc,        \* what a caller does next
  limit,     \* the policy a caller has read
  faults

(* History variables. *)
VARIABLES
  unlogged,  \* executions in the window whose row could not be written
  loosest,   \* the largest maximum that ever applied
  lifted     \* a policy that is not enabled was in force

capVars == <<cap, logged, limit, unlogged, loosest, lifted>>

CapPC == {"cap", "keep", "count", "log", "granted", "refused"}

CapInit ==
  /\ cap = NoCap
  /\ logged = 0 /\ unlogged = 0
  /\ limit = [c \in Callers |-> DefaultCap]
  /\ loosest = DefaultCap.max
  /\ lifted = FALSE

Goto(c, from, to) == pc[c] = from /\ pc' = [pc EXCEPT ![c] = to]

(* A statement answers, or raises, which the code notices and goes on.     *)
Statement(ok) ==
  /\ ok \/ faults < MaxFaults
  /\ faults' = IF ok THEN faults ELSE faults + 1

InForce == IF cap = NoCap THEN DefaultCap ELSE cap

(* _get_workflow_runtime_policy: what could not be read is the default,    *)
(* and it is stored unless there is a row by now.                          *)
ReadCap(c, ok) ==
  /\ Goto(c, "cap", "keep")
  /\ Statement(ok)
  /\ limit' = [limit EXCEPT ![c] = IF ok THEN InForce ELSE DefaultCap]
  /\ UNCHANGED <<cap, logged, unlogged, loosest, lifted>>

KeepCap(c, ok) ==
  /\ Goto(c, "keep", "count")
  /\ Statement(ok)
  /\ cap' = IF ok /\ cap = NoCap THEN limit[c] ELSE cap
  /\ UNCHANGED <<logged, limit, unlogged, loosest, lifted>>

(* Mutant of Exceeded: one more than the maximum. *)
ExceededByOne(p, n) == p.enabled /\ n > p.max
Exceeded(p, n) == p.enabled /\ n >= p.max

(* _count_recent_workflow_executions, where a query that raises counts as  *)
(* no execution, and the decision. *)
CountStarts(c, ok) ==
  /\ Statement(ok)
  /\ Goto(c, "count", IF Exceeded(limit[c], IF ok THEN logged ELSE 0) THEN "refused" ELSE "log")
  /\ limit' = [limit EXCEPT ![c] = DefaultCap]
  /\ UNCHANGED <<cap, logged, unlogged, loosest, lifted>>

(* write_request_audit: the caller is granted the execution even if its    *)
(* row is not written. *)
LogStart(c, ok) ==
  /\ logged + unlogged < MaxStarts
  /\ Goto(c, "log", "granted")
  /\ Statement(ok)
  /\ IF ok THEN logged' = logged + 1 /\ UNCHANGED unlogged
           ELSE unlogged' = unlogged + 1 /\ UNCHANGED logged
  /\ UNCHANGED <<cap, limit, loosest, lifted>>

(* Time passes, and an execution leaves the window. *)
LeaveWindow ==
  /\ \/ logged > 0 /\ logged' = logged - 1 /\ UNCHANGED unlogged
     \/ unlogged > 0 /\ unlogged' = unlogged - 1 /\ UNCHANGED logged
  /\ UNCHANGED <<cap, limit, loosest, lifted, pc, faults>>

(* workflow_execution_policy_upsert; its UPSERT may raise unnoticed, and   *)
(* the check without persist that follows stores a policy if there is none.*)
SetCap(p, ok) ==
  /\ Statement(ok)
  /\ cap' = IF ok THEN p ELSE InForce
  /\ loosest' = IF ok /\ p.max > loosest THEN p.max ELSE loosest
  /\ lifted' = (lifted \/ (ok /\ ~p.enabled))
  /\ UNCHANGED <<logged, limit, unlogged, pc>>

CheckCap(c, ok) == ReadCap(c, ok) \/ KeepCap(c, ok) \/ CountStarts(c, ok) \/ LogStart(c, ok)

(* As long as the cap was not lifted, the executions in the window exceed  *)
(* the largest maximum that ever applied by less than the number of        *)
(* callers, which count before any of them has logged, and by one for      *)
(* every statement that failed unnoticed.                                  *)
CapHonoured ==
  ~lifted => logged + unlogged + 1 <= loosest + Cardinality(Callers) + faults
=============================================================================
