--------------------------- MODULE CircuitBreaker ---------------------------
(***************************************************************************)
(* The failure isolation of POST /connectors/execute-live for one          *)
(* connector (service/app/main.py): the request budget of a window, the    *)
(* circuit breaker kept in the connector_metrics row, and the execution    *)
(* log the budget is counted from.                                         *)
(*                                                                         *)
(* connectors_execute_live is a coroutine that never suspends (the adapter *)
(* blocks), so a server process handles one request at a time; several     *)
(* servers may share the tables.  One action is one database statement or  *)
(* the downstream call.  A clock reading is an age in ticks of Tick.       *)
(* The counters of connector_metrics that nothing reads back are left out. *)
(***************************************************************************)
EXTENDS Integers, FiniteSets

CONSTANTS
  Servers,        \* server processes (the compose file starts one)
  Policies,       \* rows connector_runtime_policies may hold
  DefaultPolicy,  \* _default_connector_runtime_policy
  Window,         \* window_seconds, in ticks
  MaxAge,         \* ages at or beyond it are not told apart
  MaxRows,        \* bound on log rows in a window
  MaxStreak,      \* bound on consecutive failures, seen and recorded
  MaxBroken,      \* bound on calls that end in an unexpected exception
  MaxFaults       \* bound on failing database calls and crashes

ASSUME BreakerAssumption ==
  /\ IsFiniteSet(Servers)
  /\ Policies \subseteq [enabled : BOOLEAN, budget : Nat, threshold : Nat, cooldown : Nat]
  /\ DefaultPolicy \in Policies
  /\ {Window, MaxAge, MaxRows, MaxStreak, MaxBroken, MaxFaults} \subseteq Nat
  /\ \A p \in Policies : p.cooldown <= MaxAge

VARIABLES
  policy,     \* the connector_runtime_policies row
  circuit,    \* connector_metrics.circuit_state
  failures,   \* connector_metrics.consecutive_failures
  openedAge,  \* age of last_circuit_opened_at
  logged,     \* number of execute_live log rows of each age
  pc,         \* where a server is in connectors_execute_live
  mine,       \* the policy it has read
  route,      \* what the circuit it has read asks for
  full,       \* the window it has counted is used up
  got,        \* the state it has read to record a failure
  faults      \* faults used up

(* History variables: what the connector itself has seen. *)
VARIABLES
  calls,      \* calls under an enabled policy, by age of their dispatch
  streak,     \* calls that failed since the last one that succeeded
  tripped,    \* that streak has reached the threshold of its caller
  sinceTrip,  \* age of the last failure of a tripped streak
  broken,     \* calls that ended in an unexpected exception
  together    \* two requests once were in progress at the same time

row      == <<circuit, failures, openedAge>>
request  == <<mine, route, full, got>>
history  == <<calls, streak, tripped, sinceTrip, broken, together>>
vars == <<policy, row, logged, pc, request, faults, history>>

Circuit == {"closed", "open", "half_open"}
PC == {"idle", "read_state", "read_count", "reject_open", "half_open", "reject_rate",
       "calling", "record_ok", "read_failures", "record_failure", "log"}

Ages == 0..Window
NoRows == [a \in Ages |-> 0]
(* What has been counted by age, one by one. *)
Recent(f) == UNION {{a} \X (1..f[a]) : a \in Ages}
Older(f) == [a \in Ages |-> IF a = 0 THEN 0 ELSE f[a - 1]]
NoState == [failures |-> 0, circuit |-> "closed"]  \* _get_connector_runtime_state, no row
Age(a) == IF a < MaxAge THEN a + 1 ELSE a

-----------------------------------------------------------------------------
Init ==
  /\ policy = DefaultPolicy
  /\ circuit = "closed" /\ failures = 0 /\ openedAge = MaxAge
  /\ logged = NoRows
  /\ pc    = [s \in Servers |-> "idle"]
  /\ mine  = [s \in Servers |-> DefaultPolicy]
  /\ route = [s \in Servers |-> "pass"]
  /\ full  = [s \in Servers |-> FALSE]
  /\ got   = [s \in Servers |-> NoState]
  /\ faults = 0
  /\ calls = NoRows /\ streak = 0 /\ tripped = FALSE /\ sinceTrip = MaxAge /\ broken = 0 /\ together = FALSE

(* Every database call is wrapped in a try whose except goes on: a read    *)
(* falls back to a default, a write is lost.                               *)
Database(ok) ==
  /\ ok \/ faults < MaxFaults
  /\ faults' = IF ok THEN faults ELSE faults + 1

Goto(s, from, to) == pc[s] = from /\ pc' = [pc EXCEPT ![s] = to]

(* The handler returns and its locals are gone. *)
Return(s) ==
  /\ pc'    = [pc EXCEPT ![s] = "idle"]
  /\ mine'  = [mine EXCEPT ![s] = DefaultPolicy]
  /\ route' = [route EXCEPT ![s] = "pass"]
  /\ full'  = [full EXCEPT ![s] = FALSE]
  /\ got'   = [got EXCEPT ![s] = NoState]

-----------------------------------------------------------------------------
(* Time passes, and an operator changes the policy. *)

Tick ==
  /\ openedAge' = Age(openedAge)
  /\ sinceTrip' = Age(sinceTrip)
  /\ logged' = Older(logged)
  /\ calls' = Older(calls)
  /\ UNCHANGED <<policy, circuit, failures, pc, request, faults, streak, tripped, broken, together>>

UpsertPolicy(p) ==
  /\ p # policy
  /\ policy' = p
  /\ UNCHANGED <<row, logged, pc, request, faults, history>>

-----------------------------------------------------------------------------
(* _enforce_connector_runtime_policy *)

Begin(s, ok) ==
  /\ Goto(s, "idle", "read_state")
  /\ Cardinality(Recent(logged)) < MaxRows
  /\ Database(ok)
  /\ mine' = [mine EXCEPT ![s] = IF ok THEN policy ELSE DefaultPolicy]
  /\ together' = (together \/ \E o \in Servers \ {s} : pc[o] # "idle")
  /\ UNCHANGED <<policy, row, logged, route, full, got, calls, streak, tripped, sinceTrip,
                 broken>>

(* Mutant of Cooling: the last tick of the cooldown does not count. *)
CoolingButLast(p) == openedAge + 1 < p.cooldown
Cooling(p) == openedAge < p.cooldown

ReadState(s, ok) ==
  /\ Goto(s, "read_state", "read_count")
  /\ Database(ok)
  /\ route' = [route EXCEPT ![s] =
                 IF ~ok \/ ~mine[s].enabled \/ circuit # "open" THEN "pass"
                 ELSE IF Cooling(mine[s]) THEN "cooling" ELSE "cooled"]
  /\ UNCHANGED <<policy, row, logged, mine, full, got, history>>

(* Mutant of UsedUp: one request too many. *)
UsedUpLate(rows, p) == p.enabled /\ rows > p.budget
UsedUp(rows, p) == p.enabled /\ rows >= p.budget

(* The call of the adapter starts. *)
Dispatched(s) == calls' = IF mine[s].enabled THEN [calls EXCEPT ![0] = @ + 1] ELSE calls

ReadCount(s, ok) ==
  LET rows == IF ok THEN Cardinality(Recent(logged)) ELSE 0
      used == UsedUp(rows, mine[s])
      to   == CASE route[s] = "cooling" -> "reject_open"
                [] route[s] = "cooled"  -> "half_open"
                [] OTHER -> IF used THEN "reject_rate" ELSE "calling"
  IN /\ Goto(s, "read_count", to)
     /\ Database(ok)
     /\ full' = [full EXCEPT ![s] = used]
     /\ IF to = "calling" THEN Dispatched(s) ELSE UNCHANGED calls
     /\ UNCHANGED <<policy, row, logged, mine, route, got, streak, tripped, sinceTrip, broken,
                    together>>

(* _register_connector_isolation_rejection of kind circuit_open: the same  *)
(* statement that counts the rejection writes last_circuit_opened_at.      *)
RejectOpen(s, ok) ==
  /\ Goto(s, "reject_open", "log")
  /\ Database(ok)
  /\ IF ok THEN circuit' = "open" /\ openedAge' = 0 ELSE UNCHANGED <<circuit, openedAge>>
  /\ UNCHANGED <<policy, failures, logged, request, history>>

HalfOpen(s, ok) ==
  /\ Goto(s, "half_open", IF full[s] THEN "reject_rate" ELSE "calling")
  /\ Database(ok)
  /\ circuit' = IF ok THEN "half_open" ELSE circuit
  /\ IF full[s] THEN UNCHANGED calls ELSE Dispatched(s)
  /\ UNCHANGED <<policy, failures, openedAge, logged, request, streak, tripped, sinceTrip,
                 broken, together>>

RejectRate(s) ==
  /\ Goto(s, "reject_rate", "log")
  /\ UNCHANGED <<policy, row, logged, request, faults, history>>

-----------------------------------------------------------------------------
(* The downstream call and what is recorded of it. *)

(* Any HTTP response counts as a success, whatever its status code. *)
CallSucceeds(s) ==
  /\ Goto(s, "calling", "record_ok")
  /\ streak' = 0 /\ tripped' = FALSE
  /\ UNCHANGED <<policy, row, logged, request, faults, calls, sinceTrip, broken, together>>

(* httpx.TimeoutException and the other httpx.HTTPError end up alike: the  *)
(* rejection a timeout registers first writes only counters.               *)
CallFails(s) ==
  /\ Goto(s, "calling", "read_failures")
  /\ streak < MaxStreak
  /\ streak' = streak + 1
  /\ tripped' = (tripped \/ streak' >= mine[s].threshold)
  /\ sinceTrip' = IF tripped' THEN 0 ELSE sinceTrip
  /\ UNCHANGED <<policy, row, logged, request, faults, calls, broken, together>>

(* Any other exception (a body that is not the JSON it claims to be)       *)
(* leaves the handler without an outcome or a log row.                     *)
CallBreaks(s) ==
  /\ pc[s] = "calling"
  /\ Return(s)
  /\ broken < MaxBroken
  /\ broken' = broken + 1
  /\ UNCHANGED <<policy, row, logged, faults, calls, streak, tripped, sinceTrip, together>>

(* Mutant of Closed: the failures that opened the circuit are kept. *)
ClosedKeepingFailures == circuit' = "closed" /\ UNCHANGED failures
Closed == circuit' = "closed" /\ failures' = 0

(* _record_connector_runtime_outcome *)
RecordOk(s, ok) ==
  /\ Goto(s, "record_ok", "log")
  /\ Database(ok)
  /\ IF ok THEN Closed ELSE UNCHANGED <<circuit, failures>>
  /\ UNCHANGED <<policy, openedAge, logged, request, history>>

ReadFailures(s, ok) ==
  /\ Goto(s, "read_failures", "record_failure")
  /\ failures < MaxStreak
  /\ Database(ok)
  /\ got' = [got EXCEPT ![s] = IF ok THEN [failures |-> failures, circuit |-> circuit]
                               ELSE NoState]
  /\ UNCHANGED <<policy, row, logged, mine, route, full, history>>

NextState(n, was, p) ==
  IF n >= p.threshold THEN "open" ELSE IF was = "half_open" THEN "half_open" ELSE "closed"

RecordFailure(s, ok) ==
  LET n  == got[s].failures + 1
      to == NextState(n, got[s].circuit, mine[s])
  IN /\ Goto(s, "record_failure", "log")
     /\ Database(ok)
     /\ IF ok THEN /\ circuit' = to
                   /\ failures' = n
                   /\ openedAge' = IF to = "open" THEN 0 ELSE openedAge
              ELSE UNCHANGED row
     /\ UNCHANGED <<policy, logged, request, history>>

(* _log_connector_execution, for executed and for blocked requests alike. *)
Log(s, ok) ==
  /\ pc[s] = "log"
  /\ Return(s)
  /\ Database(ok)
  /\ logged' = IF ok THEN [logged EXCEPT ![0] = @ + 1] ELSE logged
  /\ UNCHANGED <<policy, row, history>>

Crash(s) ==
  /\ pc[s] # "idle"
  /\ Return(s)
  /\ Database(FALSE)
  /\ UNCHANGED <<policy, row, logged, history>>

-----------------------------------------------------------------------------
ServerStep(s) ==
  \/ \E ok \in BOOLEAN :
       \/ Begin(s, ok) \/ ReadState(s, ok) \/ ReadCount(s, ok)
       \/ RejectOpen(s, ok) \/ HalfOpen(s, ok)
       \/ RecordOk(s, ok) \/ ReadFailures(s, ok) \/ RecordFailure(s, ok) \/ Log(s, ok)
  \/ RejectRate(s) \/ CallSucceeds(s) \/ CallFails(s) \/ CallBreaks(s)

Next ==
  \/ Tick
  \/ \E p \in Policies : UpsertPolicy(p)
  \/ \E s \in Servers : ServerStep(s) \/ Crash(s)

Spec == Init /\ [][Next]_vars

-----------------------------------------------------------------------------
TypeOK ==
  /\ policy \in Policies
  /\ circuit \in Circuit /\ failures \in Nat /\ openedAge \in 0..MaxAge
  /\ logged \in [Ages -> Nat]
  /\ pc \in [Servers -> PC]
  /\ mine \in [Servers -> Policies]
  /\ route \in [Servers -> {"pass", "cooling", "cooled"}]
  /\ full \in [Servers -> BOOLEAN]
  /\ got \in [Servers -> [failures : Nat, circuit : Circuit]]
  /\ faults \in Nat
  /\ calls \in [Ages -> Nat]
  /\ streak \in Nat /\ tripped \in BOOLEAN /\ sinceTrip \in 0..MaxAge /\ broken \in Nat
  /\ together \in BOOLEAN

(* The budget: in any window the calls sent to the connector exceed        *)
(* requests_per_window by no more than the other servers that have counted *)
(* at the same time, if any did, the calls whose log row was lost and      *)
(* those that broke off without one.                                       *)
BudgetRespected ==
  \E p \in Policies :
    Cardinality(Recent(calls)) <= p.budget + faults + broken
                                    + (IF together THEN Cardinality(Servers) - 1 ELSE 0)

Undisturbed == ~together /\ faults = 0
SameBreaker ==
  \A p, q \in Policies : p.threshold = q.threshold /\ p.cooldown = q.cooldown

(* The breaker knows the connector: as long as one server at a time has    *)
(* been at work and the database has answered, between requests            *)
(* consecutive_failures is the number of calls that failed since the last  *)
(* success, and the circuit is not closed exactly if that streak has       *)
(* reached the threshold.                                                  *)
BreakerKnowsConnector ==
  Undisturbed /\ SameBreaker /\ (\A s \in Servers : pc[s] = "idle")
    => failures = streak /\ (circuit # "closed" <=> tripped)

(* The cooldown: as long as one server at a time has been at work and the  *)
(* database has answered, once the streak has reached the threshold no     *)
(* call is sent under an enabled policy until cooldown_seconds after its   *)
(* last failure.  (A cooldown made longer while the circuit is half open   *)
(* would not be waited for.)                                               *)
CooldownHonoured ==
  [][\A s \in Servers :
       pc[s] # "calling" /\ pc'[s] = "calling" /\ Undisturbed /\ SameBreaker /\ mine[s].enabled
         => ~tripped \/ sinceTrip >= mine[s].cooldown]_vars

=============================================================================
