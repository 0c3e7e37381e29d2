-------------------------- MODULE ConnectorProofs ---------------------------
(***************************************************************************)
(* What the breaker knows of its connector, for any policies of one        *)
(* threshold and cooldown, any number of servers that take turns, and      *)
(* any length of the window (CircuitBreaker); and what the reports tell    *)
(* of connectors, credentials and tables, for any catalog and any number   *)
(* of requests at once (Rollout).                                          *)
(***************************************************************************)
EXTENDS CircuitBreaker, Rollout, FiniteSetTheorems, TLAPS

(* A server has seen an outcome and is yet to record it. *)
Recording == {"record_ok", "read_failures", "record_failure"}

(* The row tells the streak, and an open circuit the age of its failure. *)
RowKnown ==
  /\ failures = streak
  /\ circuit # "closed" <=> tripped
  /\ circuit = "open" => sinceTrip >= openedAge
  /\ circuit = "half_open" => \A p \in Policies : sinceTrip >= p.cooldown

(* A server whose requests take turns with the others'. *)
InTurn == \A s, o \in Servers : pc[s] # "idle" /\ pc[o] # "idle" => s = o

(* What holds where server s is. *)
At(s) ==
  /\ pc[s] = "record_ok" => streak = 0
  /\ pc[s] \in {"read_failures", "record_failure"} =>
       streak = failures + 1 /\ (circuit # "closed" => tripped)
  /\ pc[s] = "record_failure" => got[s].failures = failures /\ got[s].circuit = circuit
  /\ pc[s] = "half_open" => route[s] = "cooled"
  /\ pc[s] = "reject_open" => route[s] = "cooling"
  /\ pc[s] \in {"read_count", "half_open", "reject_open"} =>
       /\ route[s] # "pass" => circuit = "open"
       /\ route[s] = "cooled" => sinceTrip >= mine[s].cooldown
       /\ route[s] = "pass" /\ mine[s].enabled => circuit # "open"

TrippedByStreak == \A p \in Policies : tripped <=> streak > 0 /\ streak >= p.threshold

Known ==
  /\ InTurn
  /\ TrippedByStreak
  /\ (\A s \in Servers : pc[s] \notin Recording) => RowKnown
  /\ \A s \in Servers : At(s)

Calm == Undisturbed /\ SameBreaker

BreakerInv == TypeOK /\ (Calm => Known)

-----------------------------------------------------------------------------
LEMMA PolicyTyped ==
  ASSUME BreakerAssumption, NEW p \in Policies
  PROVE  /\ p.enabled \in BOOLEAN /\ p.budget \in Nat /\ p.threshold \in Nat
         /\ p.cooldown \in Nat /\ p.cooldown <= MaxAge
<1>1. p \in [enabled : BOOLEAN, budget : Nat, threshold : Nat, cooldown : Nat]
  BY DEF BreakerAssumption
<1>2. p.cooldown <= MaxAge
  BY DEF BreakerAssumption
<1>3. QED BY <1>1, <1>2

LEMMA BoundsTyped ==
  ASSUME BreakerAssumption
  PROVE  /\ Window \in Nat /\ MaxAge \in Nat /\ MaxFaults \in Nat
         /\ DefaultPolicy \in Policies
BY DEF BreakerAssumption

LEMMA InitInv == BreakerAssumption /\ Init => BreakerInv
<1> SUFFICES ASSUME BreakerAssumption, Init PROVE BreakerInv
  OBVIOUS
<1>1. TypeOK
  <2>1. NoRows \in [Ages -> Nat]
    BY DEF NoRows
  <2>2. MaxAge \in 0 .. MaxAge
    BY BoundsTyped
  <2>3. full \in [Servers -> BOOLEAN] /\ tripped \in BOOLEAN /\ together \in BOOLEAN
    BY DEF Init
  <2>4. mine \in [Servers -> Policies]
    BY BoundsTyped DEF Init
  <2>5. NoState \in [failures : Nat, circuit : Circuit] /\ "closed" \in Circuit
    BY DEF NoState, Circuit
  <2>6. QED BY BoundsTyped, <2>1, <2>2, <2>3, <2>4, <2>5 DEF Init, TypeOK, PC
<1>2. Known
  BY PolicyTyped DEF Init, Known, TrippedByStreak, InTurn, RowKnown, At, Recording
<1>3. QED BY <1>1, <1>2 DEF BreakerInv

(* A database call that answers or does not. *)
LEMMA DatabaseTyped ==
  ASSUME TypeOK, NEW ok \in BOOLEAN, Database(ok)
  PROVE  faults' \in Nat /\ (~ok => faults' # 0) /\ (faults' = 0 => faults = 0)
BY DEF TypeOK, Database

LEMMA DispatchedTyped ==
  ASSUME BreakerAssumption, TypeOK, NEW s \in Servers, Dispatched(s)
  PROVE  calls' \in [Ages -> Nat]
<1>1. 0 \in Ages
  BY BoundsTyped DEF Ages
<1>2. calls \in [Ages -> Nat] /\ calls[0] + 1 \in Nat
  BY <1>1 DEF TypeOK
<1>3. QED BY <1>1, <1>2 DEF Dispatched

LEMMA LoggedTyped ==
  ASSUME BreakerAssumption, TypeOK
  PROVE  [logged EXCEPT ![0] = @ + 1] \in [Ages -> Nat]
<1>1. 0 \in Ages
  BY BoundsTyped DEF Ages
<1>2. logged \in [Ages -> Nat] /\ logged[0] + 1 \in Nat
  BY <1>1 DEF TypeOK
<1>3. QED BY <1>1, <1>2

-----------------------------------------------------------------------------
(* Types. *)
LEMMA NextTypeOK == BreakerAssumption /\ TypeOK /\ [Next]_vars => TypeOK'
<1> SUFFICES ASSUME BreakerAssumption, TypeOK, [Next]_vars PROVE TypeOK'
  OBVIOUS
<1> USE DEF TypeOK
<1>1. CASE Tick
  <2>1. \A f \in [Ages -> Nat] : Older(f) \in [Ages -> Nat]
    <3>1. ASSUME NEW f \in [Ages -> Nat], NEW a \in Ages
          PROVE  (IF a = 0 THEN 0 ELSE f[a - 1]) \in Nat
      <4>1. a # 0 => a - 1 \in Ages
        BY BoundsTyped, <3>1 DEF Ages
      <4>2. QED BY <3>1, <4>1
    <3>2. QED BY <3>1 DEF Older
  <2>2. \A a \in 0..MaxAge : Age(a) \in 0..MaxAge
    BY BoundsTyped DEF Age
  <2>3. QED BY <1>1, <2>1, <2>2 DEF Tick, request
<1>2. ASSUME NEW p \in Policies, UpsertPolicy(p) PROVE TypeOK'
  BY <1>2 DEF UpsertPolicy, row, request, history
<1>3. ASSUME NEW s \in Servers, NEW ok \in BOOLEAN, Begin(s, ok) PROVE TypeOK'
  <2>1. faults' \in Nat
    BY <1>3, DatabaseTyped DEF Begin
  <2>2. mine' \in [Servers -> Policies]
    BY <1>3, BoundsTyped DEF Begin
  <2>3. together' \in BOOLEAN
    BY <1>3 DEF Begin
  <2>4. QED BY <1>3, <2>1, <2>2, <2>3 DEF Begin, Goto, PC, row
<1>4. ASSUME NEW s \in Servers, NEW ok \in BOOLEAN, ReadState(s, ok) PROVE TypeOK'
  BY <1>4, DatabaseTyped DEF ReadState, Goto, PC, row, history
<1>5. ASSUME NEW s \in Servers, NEW ok \in BOOLEAN, ReadCount(s, ok) PROVE TypeOK'
  <2>1. faults' \in Nat
    BY <1>5, DatabaseTyped DEF ReadCount
  <2>2. pc' \in [Servers -> PC]
    BY <1>5 DEF ReadCount, Goto, PC
  <2>3. full' \in [Servers -> BOOLEAN]
    BY <1>5 DEF ReadCount, UsedUp
  <2>4. calls' \in [Ages -> Nat]
    <3>1. Dispatched(s) \/ UNCHANGED calls
      BY <1>5 DEF ReadCount
    <3>2. QED BY <3>1, DispatchedTyped
  <2>5. QED BY <1>5, <2>1, <2>2, <2>3, <2>4 DEF ReadCount, row
<1>6. ASSUME NEW s \in Servers, NEW ok \in BOOLEAN, RejectOpen(s, ok) PROVE TypeOK'
  BY <1>6, DatabaseTyped DEF RejectOpen, Goto, PC, Circuit, request, history, BreakerAssumption
<1>7. ASSUME NEW s \in Servers, NEW ok \in BOOLEAN, HalfOpen(s, ok) PROVE TypeOK'
  <2>1. calls' \in [Ages -> Nat]
    <3>1. Dispatched(s) \/ UNCHANGED calls
      BY <1>7 DEF HalfOpen
    <3>2. QED BY <3>1, DispatchedTyped
  <2>2. QED BY <1>7, <2>1, DatabaseTyped DEF HalfOpen, Goto, PC, Circuit, request
<1>8. ASSUME NEW s \in Servers, RejectRate(s) \/ CallSucceeds(s) \/ CallFails(s) \/ CallBreaks(s)
      PROVE  TypeOK'
  <2>1. CASE RejectRate(s)
    BY <2>1 DEF RejectRate, Goto, PC, row, request, history
  <2>2. CASE CallSucceeds(s)
    BY <2>2 DEF CallSucceeds, Goto, PC, row, request
  <2>3. CASE CallFails(s)
    BY <2>3 DEF CallFails, Goto, PC, row, request, BreakerAssumption
  <2>4. CASE CallBreaks(s)
    BY <2>4 DEF CallBreaks, Return, PC, row, BreakerAssumption, NoState, Circuit
  <2>5. QED BY <1>8, <2>1, <2>2, <2>3, <2>4
<1>9. ASSUME NEW s \in Servers, NEW ok \in BOOLEAN, RecordOk(s, ok) PROVE TypeOK'
  BY <1>9, DatabaseTyped DEF RecordOk, Closed, Goto, PC, Circuit, request, history
<1>10. ASSUME NEW s \in Servers, NEW ok \in BOOLEAN, ReadFailures(s, ok) PROVE TypeOK'
  BY <1>10, DatabaseTyped DEF ReadFailures, Goto, PC, Circuit, row, history, NoState
<1>11. ASSUME NEW s \in Servers, NEW ok \in BOOLEAN, RecordFailure(s, ok) PROVE TypeOK'
  <2>1. got[s].failures + 1 \in Nat
    OBVIOUS
  <2>2. NextState(got[s].failures + 1, got[s].circuit, mine[s]) \in Circuit
    BY DEF NextState, Circuit
  <2>3. 0 \in 0 .. MaxAge
    BY BoundsTyped
  <2>4. faults' \in Nat
    BY <1>11, DatabaseTyped DEF RecordFailure
  <2>5. circuit' \in Circuit /\ failures' \in Nat /\ openedAge' \in 0 .. MaxAge
    BY <1>11, <2>1, <2>2, <2>3 DEF RecordFailure, row
  <2>6. pc' \in [Servers -> PC]
    BY <1>11 DEF RecordFailure, Goto, PC
  <2>7. QED BY <1>11, <2>4, <2>5, <2>6 DEF RecordFailure, request, history
<1>12. ASSUME NEW s \in Servers, NEW ok \in BOOLEAN, Log(s, ok) PROVE TypeOK'
  <2>1. faults' \in Nat
    BY <1>12, DatabaseTyped DEF Log
  <2>2. logged' \in [Ages -> Nat]
    BY <1>12, LoggedTyped DEF Log
  <2>3. QED BY <1>12, <2>1, <2>2, BoundsTyped DEF Log, Return, PC, row, history, NoState, Circuit
<1>13. ASSUME NEW s \in Servers, Crash(s) PROVE TypeOK'
  BY <1>13, DatabaseTyped DEF Crash, Return, PC, row, history, BreakerAssumption, NoState, Circuit
<1>14. CASE UNCHANGED vars
  BY <1>14 DEF vars, row, request, history
<1>15. QED
  BY <1>1, <1>2, <1>3, <1>4, <1>5, <1>6, <1>7, <1>8, <1>9, <1>10, <1>11, <1>12, <1>13, <1>14
     DEF Next, ServerStep
-----------------------------------------------------------------------------
(* What is known stays known. *)

(* A calm state comes from a calm state, by calls that were answered. *)
LEMMA Answered ==
  ASSUME TypeOK, NEW ok \in BOOLEAN, Database(ok), Undisturbed'
  PROVE  ok = TRUE
BY DatabaseTyped DEF Undisturbed

LEMMA CalmBefore == TypeOK /\ [Next]_vars /\ Calm' => Calm
<1> SUFFICES ASSUME TypeOK, [Next]_vars, Calm' PROVE Calm
  OBVIOUS
<1>1. /\ \A ok \in BOOLEAN : Database(ok) => faults = 0
      /\ UNCHANGED faults => faults = 0
      /\ (together => together') => ~together
  BY DatabaseTyped DEF Calm, Undisturbed
<1>2. SameBreaker
  BY DEF Calm, SameBreaker
<1>3. CASE Tick \/ (\E p \in Policies : UpsertPolicy(p)) \/ UNCHANGED vars
  BY <1>1, <1>2, <1>3 DEF Calm, Undisturbed, Tick, UpsertPolicy, vars, history
<1>4. ASSUME NEW s \in Servers, NEW ok \in BOOLEAN, Begin(s, ok) \/ ReadState(s, ok) \/ ReadCount(s, ok)
      PROVE  Calm
  BY <1>1, <1>2, <1>4 DEF Calm, Undisturbed, Begin, ReadState, ReadCount, history
<1>5. ASSUME NEW s \in Servers, NEW ok \in BOOLEAN, RejectOpen(s, ok) \/ HalfOpen(s, ok) \/ Log(s, ok)
      PROVE  Calm
  BY <1>1, <1>2, <1>5 DEF Calm, Undisturbed, RejectOpen, HalfOpen, Log, history
<1>6. ASSUME NEW s \in Servers, NEW ok \in BOOLEAN,
             RecordOk(s, ok) \/ ReadFailures(s, ok) \/ RecordFailure(s, ok)
      PROVE  Calm
  BY <1>1, <1>2, <1>6 DEF Calm, Undisturbed, RecordOk, ReadFailures, RecordFailure, history
<1>7. ASSUME NEW s \in Servers, RejectRate(s) \/ CallSucceeds(s) \/ CallFails(s) \/ CallBreaks(s)
      PROVE  Calm
  BY <1>1, <1>2, <1>7
     DEF Calm, Undisturbed, RejectRate, CallSucceeds, CallFails, CallBreaks, history
<1>8. ASSUME NEW s \in Servers, Crash(s) PROVE Calm
  BY <1>1, <1>2, <1>8 DEF Calm, Undisturbed, Crash, history
<1>9. QED BY <1>3, <1>4, <1>5, <1>6, <1>7, <1>8 DEF Next, ServerStep

(* While one server is at work the others are idle. *)
LEMMA Turn ==
  ASSUME TypeOK, InTurn, NEW s \in Servers, pc[s] # "idle", NEW to, pc' = [pc EXCEPT ![s] = to]
  PROVE  /\ pc'[s] = to
         /\ \A o \in Servers \ {s} : pc[o] = "idle" /\ pc'[o] = "idle"
BY DEF TypeOK, InTurn

LEMMA Gathered ==
  ASSUME NEW s \in Servers, \A o \in Servers \ {s} : pc'[o] = "idle", TrippedByStreak', At(s)',
         pc'[s] \notin Recording => RowKnown'
  PROVE  Known'
<1>1. InTurn'
  BY DEF InTurn
<1>2. ASSUME NEW o \in Servers PROVE At(o)'
  BY <1>2 DEF At
<1>3. ASSUME \A o \in Servers : pc'[o] \notin Recording PROVE RowKnown'
  BY <1>3
<1>4. QED BY <1>1, <1>2, <1>3 DEF Known
(* What server s, at work, may rely on. *)
LEMMA AtWork ==
  ASSUME Known, NEW s \in Servers, pc[s] # "idle"
  PROVE  /\ TrippedByStreak /\ At(s) /\ InTurn
         /\ pc[s] \notin Recording => RowKnown
BY DEF Known, InTurn, Recording

-----------------------------------------------------------------------------
LEMMA KnownByTime ==
  ASSUME BreakerAssumption, TypeOK, Known, Tick
  PROVE  Known'
<1>1. sinceTrip' >= sinceTrip /\ (sinceTrip >= openedAge => sinceTrip' >= openedAge')
  BY BoundsTyped DEF TypeOK, Tick, Age
<1>2. UNCHANGED <<circuit, failures, pc, mine, route, got, streak, tripped>>
  BY DEF Tick, request
<1>3. RowKnown => RowKnown'
  <2>1. \A p \in Policies : sinceTrip >= p.cooldown => sinceTrip' >= p.cooldown
    BY PolicyTyped, BoundsTyped DEF TypeOK, Tick, Age
  <2>2. QED BY <1>1, <1>2, <2>1 DEF RowKnown
<1>4. ASSUME NEW s \in Servers, At(s) PROVE At(s)'
  <2>1. mine[s] \in Policies
    BY DEF TypeOK
  <2>2. sinceTrip >= mine[s].cooldown => sinceTrip' >= mine[s].cooldown
    BY <1>1, <2>1, PolicyTyped, BoundsTyped DEF TypeOK, Tick, Age
  <2>3. QED BY <1>2, <1>4, <2>2 DEF At
<1>5. QED BY <1>2, <1>3, <1>4 DEF Known, InTurn, TrippedByStreak

LEMMA KnownByBegin ==
  ASSUME TypeOK, Known, Undisturbed', NEW s \in Servers, NEW ok \in BOOLEAN, Begin(s, ok)
  PROVE  Known'
<1>1. \A o \in Servers : pc[o] = "idle"
  BY DEF Begin, Goto, Undisturbed
<1>2. pc'[s] = "read_state" /\ \A o \in Servers \ {s} : pc'[o] = "idle"
  BY <1>1 DEF Begin, Goto, TypeOK
<1>3. RowKnown /\ TrippedByStreak
  BY <1>1 DEF Known, Recording
<1>4. RowKnown' /\ TrippedByStreak'
  BY <1>3 DEF Begin, row, RowKnown, TrippedByStreak
<1>5. At(s)'
  BY <1>2 DEF At
<1>6. QED BY <1>2, <1>4, <1>5, Gathered

LEMMA KnownByReadState ==
  ASSUME BreakerAssumption, TypeOK, Known, NEW s \in Servers, NEW ok \in BOOLEAN, ok = TRUE, ReadState(s, ok)
  PROVE  Known'
<1>1. pc[s] = "read_state" /\ pc[s] # "idle" /\ pc' = [pc EXCEPT ![s] = "read_count"]
  BY DEF ReadState, Goto
<1>2. pc'[s] = "read_count" /\ \A o \in Servers \ {s} : pc'[o] = "idle"
  BY <1>1, AtWork, Turn
<1>3. RowKnown /\ TrippedByStreak
  BY <1>1, AtWork DEF Recording
<1>4. RowKnown' /\ TrippedByStreak'
  BY <1>3 DEF ReadState, row, history, RowKnown, TrippedByStreak
<1>5. At(s)'
  <2>1. UNCHANGED <<circuit, openedAge, sinceTrip, mine>> /\ mine[s] \in Policies
    BY DEF ReadState, row, history, TypeOK
  <2>2. route'[s] = IF ~mine[s].enabled \/ circuit # "open" THEN "pass"
                    ELSE IF Cooling(mine[s]) THEN "cooling" ELSE "cooled"
    BY DEF ReadState, TypeOK
  <2>3. ~Cooling(mine[s]) /\ circuit = "open" => sinceTrip >= mine[s].cooldown
    <3>1. mine[s].cooldown \in Nat /\ openedAge \in Nat /\ sinceTrip \in Nat
      BY <2>1, PolicyTyped DEF TypeOK
    <3>2. circuit = "open" => sinceTrip >= openedAge
      BY <1>3 DEF RowKnown
    <3>3. QED BY <3>1, <3>2 DEF Cooling
  <2>4. QED BY <1>2, <2>1, <2>2, <2>3 DEF At
<1>6. QED BY <1>2, <1>4, <1>5, Gathered

LEMMA KnownByReadCount ==
  ASSUME TypeOK, Known, NEW s \in Servers, NEW ok \in BOOLEAN, ReadCount(s, ok)
  PROVE  Known'
<1>1. pc[s] = "read_count" /\ pc[s] # "idle"
  BY DEF ReadCount, Goto
<1>2. PICK to \in {"reject_open", "half_open", "reject_rate", "calling"} :
        /\ pc' = [pc EXCEPT ![s] = to]
        /\ to = "half_open" => route[s] = "cooled"
        /\ to = "reject_open" => route[s] = "cooling"
  <2>1. CASE route[s] = "cooling"
    BY <2>1 DEF ReadCount, Goto
  <2>2. CASE route[s] = "cooled"
    BY <2>2 DEF ReadCount, Goto
  <2>3. CASE route[s] \notin {"cooling", "cooled"}
    BY <2>3 DEF ReadCount, Goto
  <2>4. QED BY <2>1, <2>2, <2>3
<1>3. pc'[s] = to /\ \A o \in Servers \ {s} : pc'[o] = "idle"
  BY <1>1, <1>2, AtWork, Turn
<1>4. RowKnown /\ TrippedByStreak /\ At(s)
  BY <1>1, AtWork DEF Recording
<1>5. RowKnown' /\ TrippedByStreak'
  BY <1>4 DEF ReadCount, row, RowKnown, TrippedByStreak
<1>6. At(s)'
  <2>1. UNCHANGED <<circuit, failures, streak, tripped, sinceTrip, mine, route, got>>
    BY DEF ReadCount, row
  <2>2. QED BY <1>1, <1>2, <1>3, <1>4, <2>1 DEF At
<1>7. QED BY <1>3, <1>5, <1>6, Gathered

LEMMA KnownByRejectOpen ==
  ASSUME BreakerAssumption, TypeOK, Known, NEW s \in Servers, NEW ok \in BOOLEAN, ok = TRUE,
         RejectOpen(s, ok)
  PROVE  Known'
<1>1. pc[s] = "reject_open" /\ pc[s] # "idle" /\ pc' = [pc EXCEPT ![s] = "log"]
  BY DEF RejectOpen, Goto
<1>2. pc'[s] = "log" /\ \A o \in Servers \ {s} : pc'[o] = "idle"
  BY <1>1, AtWork, Turn
<1>3. RowKnown /\ TrippedByStreak /\ circuit = "open"
  BY <1>1, AtWork DEF Recording, At
<1>4. RowKnown' /\ TrippedByStreak'
  BY <1>3 DEF RejectOpen, request, history, RowKnown, TrippedByStreak, TypeOK
<1>5. QED BY <1>2, <1>4, Gathered DEF At

LEMMA KnownByHalfOpen ==
  ASSUME TypeOK, SameBreaker, Known, NEW s \in Servers, NEW ok \in BOOLEAN, ok = TRUE,
         HalfOpen(s, ok)
  PROVE  Known'
<1>1. pc[s] = "half_open" /\ pc[s] # "idle"
  BY DEF HalfOpen, Goto
<1>2. PICK to \in {"reject_rate", "calling"} : pc' = [pc EXCEPT ![s] = to]
  BY DEF HalfOpen, Goto
<1>3. pc'[s] = to /\ \A o \in Servers \ {s} : pc'[o] = "idle"
  BY <1>1, <1>2, AtWork, Turn
<1>4. RowKnown /\ TrippedByStreak /\ circuit = "open" /\ sinceTrip >= mine[s].cooldown
  BY <1>1, AtWork DEF Recording, At
<1>5. \A p \in Policies : sinceTrip >= p.cooldown
  BY <1>4 DEF SameBreaker, TypeOK
<1>6. RowKnown' /\ TrippedByStreak'
  BY <1>4, <1>5 DEF HalfOpen, RowKnown, TrippedByStreak
<1>7. QED BY <1>2, <1>3, <1>6, Gathered DEF At

LEMMA KnownByCall ==
  ASSUME BreakerAssumption, TypeOK, SameBreaker, Known, NEW s \in Servers,
         CallSucceeds(s) \/ CallFails(s) \/ CallBreaks(s) \/ RejectRate(s)
  PROVE  Known'
<1>1. CASE CallSucceeds(s)
  <2>1. pc[s] = "calling" /\ pc[s] # "idle" /\ pc' = [pc EXCEPT ![s] = "record_ok"]
    BY <1>1 DEF CallSucceeds, Goto
  <2>2. pc'[s] = "record_ok" /\ \A o \in Servers \ {s} : pc'[o] = "idle"
    BY <2>1, AtWork, Turn
  <2>3. At(s)' /\ TrippedByStreak'
    BY <1>1, <2>2 DEF CallSucceeds, At, TrippedByStreak
  <2>4. QED BY <2>2, <2>3, Gathered DEF Recording
<1>2. CASE CallFails(s)
  <2>1. pc[s] = "calling" /\ pc[s] # "idle" /\ pc' = [pc EXCEPT ![s] = "read_failures"]
    BY <1>2 DEF CallFails, Goto
  <2>2. pc'[s] = "read_failures" /\ \A o \in Servers \ {s} : pc'[o] = "idle"
    BY <2>1, AtWork, Turn
  <2>3. RowKnown /\ TrippedByStreak
    BY <2>1, AtWork DEF Recording
  <2>4. /\ streak' = failures' + 1 /\ streak' = streak + 1 /\ circuit' = circuit
        /\ tripped' = (tripped \/ streak' >= mine[s].threshold)
        /\ streak \in Nat /\ mine[s] \in Policies /\ tripped \in BOOLEAN
    BY <1>2, <2>3 DEF CallFails, row, RowKnown, TypeOK
  <2>5. At(s)'
    BY <2>2, <2>3, <2>4 DEF At, RowKnown
  <2>6. TrippedByStreak'
    <3>1. ASSUME NEW p \in Policies PROVE tripped' <=> streak' > 0 /\ streak' >= p.threshold
      <4>1. p.threshold = mine[s].threshold /\ p.threshold \in Nat
        BY <2>4, <3>1, PolicyTyped DEF SameBreaker
      <4>2. tripped => streak >= p.threshold
        BY <2>3, <3>1 DEF TrippedByStreak
      <4>3. streak >= p.threshold => streak + 1 >= p.threshold
        BY <2>4, <4>1
      <4>4. streak + 1 > 0
        BY <2>4
      <4>5. QED BY <2>4, <4>1, <4>2, <4>3, <4>4
    <3>2. QED BY <3>1 DEF TrippedByStreak
  <2>7. QED BY <2>2, <2>5, <2>6, Gathered DEF Recording
<1>3. CASE CallBreaks(s) \/ RejectRate(s)
  <2>1. PICK to \in {"idle", "log"} : pc' = [pc EXCEPT ![s] = to]
    BY <1>3 DEF CallBreaks, RejectRate, Goto, Return
  <2>2. pc[s] \in {"calling", "reject_rate"} /\ pc[s] # "idle"
    BY <1>3 DEF CallBreaks, RejectRate, Goto
  <2>3. pc'[s] = to /\ \A o \in Servers \ {s} : pc'[o] = "idle"
    BY <2>1, <2>2, AtWork, Turn
  <2>4. RowKnown /\ TrippedByStreak
    BY <2>2, AtWork DEF Recording
  <2>5. RowKnown' /\ TrippedByStreak'
    BY <1>3, <2>4 DEF CallBreaks, RejectRate, row, history, RowKnown, TrippedByStreak
  <2>6. At(s)'
    BY <2>1, <2>3 DEF At
  <2>7. QED BY <2>3, <2>5, <2>6, Gathered
<1>4. QED BY <1>1, <1>2, <1>3

LEMMA KnownByRecordOk ==
  ASSUME BreakerAssumption, TypeOK, Known, NEW s \in Servers, NEW ok \in BOOLEAN, ok = TRUE,
         RecordOk(s, ok)
  PROVE  Known'
<1>1. pc[s] = "record_ok" /\ pc[s] # "idle" /\ pc' = [pc EXCEPT ![s] = "log"]
  BY DEF RecordOk, Goto
<1>2. pc'[s] = "log" /\ \A o \in Servers \ {s} : pc'[o] = "idle"
  BY <1>1, AtWork, Turn
<1>3. TrippedByStreak /\ streak = 0
  BY <1>1, AtWork DEF At
<1>4. ~tripped
  BY <1>3, BoundsTyped DEF TrippedByStreak
<1>5. RowKnown' /\ TrippedByStreak'
  BY <1>3, <1>4 DEF RecordOk, Closed, history, RowKnown, TrippedByStreak
<1>6. QED BY <1>2, <1>5, Gathered DEF At

LEMMA KnownByReadFailures ==
  ASSUME TypeOK, Known, NEW s \in Servers, NEW ok \in BOOLEAN, ok = TRUE, ReadFailures(s, ok)
  PROVE  Known'
<1>1. pc[s] = "read_failures" /\ pc[s] # "idle" /\ pc' = [pc EXCEPT ![s] = "record_failure"]
  BY DEF ReadFailures, Goto
<1>2. pc'[s] = "record_failure" /\ \A o \in Servers \ {s} : pc'[o] = "idle"
  BY <1>1, AtWork, Turn
<1>3. TrippedByStreak /\ At(s)
  BY <1>1, AtWork
<1>4. TrippedByStreak'
  BY <1>3 DEF ReadFailures, history, TrippedByStreak
<1>5. got'[s].failures = failures /\ got'[s].circuit = circuit
  BY DEF ReadFailures, TypeOK
<1>6. At(s)'
  BY <1>1, <1>2, <1>3, <1>5 DEF At, ReadFailures, row, history
<1>7. QED BY <1>2, <1>4, <1>6, Gathered DEF Recording

(* The failure recorded is the one that has tripped the streak, or not. *)
LEMMA KnownByRecordFailure ==
  ASSUME BreakerAssumption, TypeOK, Known, NEW s \in Servers, NEW ok \in BOOLEAN, ok = TRUE,
         RecordFailure(s, ok)
  PROVE  Known'
<1>1. pc[s] = "record_failure" /\ pc[s] # "idle" /\ pc' = [pc EXCEPT ![s] = "log"]
  BY DEF RecordFailure, Goto
<1>2. pc'[s] = "log" /\ \A o \in Servers \ {s} : pc'[o] = "idle"
  BY <1>1, AtWork, Turn
<1>3. TrippedByStreak /\ At(s)
  BY <1>1, AtWork
<1>4. /\ streak = got[s].failures + 1 /\ got[s].circuit = circuit
      /\ circuit # "closed" => tripped
  BY <1>1, <1>3 DEF At
<1>5. mine[s] \in Policies /\ streak \in Nat /\ streak > 0 /\ sinceTrip \in 0 .. MaxAge
  BY <1>4 DEF TypeOK
<1>6. tripped <=> streak >= mine[s].threshold
  BY <1>3, <1>5 DEF TrippedByStreak
<1>7. circuit' = NextState(streak, circuit, mine[s]) /\ failures' = streak
      /\ openedAge' = IF circuit' = "open" THEN 0 ELSE openedAge
  BY <1>4 DEF RecordFailure
<1>8. circuit' # "half_open" /\ (circuit' # "closed" <=> tripped)
  BY <1>4, <1>6, <1>7 DEF NextState
<1>9. RowKnown' /\ TrippedByStreak'
  BY <1>3, <1>5, <1>7, <1>8 DEF RecordFailure, history, RowKnown, TrippedByStreak
<1>10. QED BY <1>2, <1>9, Gathered DEF At

LEMMA KnownByLog ==
  ASSUME TypeOK, Known, NEW s \in Servers, NEW ok \in BOOLEAN, Log(s, ok)
  PROVE  Known'
<1>1. pc[s] = "log" /\ pc[s] # "idle" /\ pc' = [pc EXCEPT ![s] = "idle"]
  BY DEF Log, Return
<1>2. pc'[s] = "idle" /\ \A o \in Servers \ {s} : pc'[o] = "idle"
  BY <1>1, AtWork, Turn
<1>3. RowKnown /\ TrippedByStreak
  BY <1>1, AtWork DEF Recording
<1>4. RowKnown' /\ TrippedByStreak'
  BY <1>3 DEF Log, row, history, RowKnown, TrippedByStreak
<1>5. QED BY <1>2, <1>4, Gathered DEF At

-----------------------------------------------------------------------------
LEMMA NextInv == BreakerAssumption /\ BreakerInv /\ [Next]_vars => BreakerInv'
<1> SUFFICES ASSUME BreakerAssumption, BreakerInv, [Next]_vars PROVE BreakerInv'
  OBVIOUS
<1>1. TypeOK /\ TypeOK'
  BY NextTypeOK DEF BreakerInv
<1>2. ASSUME Calm' PROVE Known'
  <2>1. Known /\ SameBreaker /\ Undisturbed'
    BY <1>1, <1>2, CalmBefore DEF BreakerInv, Calm
  <2>2. CASE Tick
    BY <1>1, <2>1, <2>2, KnownByTime
  <2>3. CASE UNCHANGED vars
    BY <2>1, <2>3
       DEF vars, row, request, history, Known, InTurn, TrippedByStreak, RowKnown, At
  <2>4. ASSUME NEW p \in Policies, UpsertPolicy(p) PROVE Known'
    BY <2>1, <2>4
       DEF UpsertPolicy, row, request, history, Known, InTurn, TrippedByStreak, RowKnown, At
  <2>5. ASSUME NEW s \in Servers, NEW ok \in BOOLEAN,
               Begin(s, ok) \/ ReadState(s, ok) \/ ReadCount(s, ok) \/ RejectOpen(s, ok)
                 \/ HalfOpen(s, ok)
        PROVE  Known'
    <3>1. CASE Begin(s, ok)
      BY <1>1, <2>1, <3>1, KnownByBegin
    <3>2. CASE ReadCount(s, ok)
      BY <1>1, <2>1, <3>2, KnownByReadCount
    <3>3. CASE ReadState(s, ok) \/ RejectOpen(s, ok) \/ HalfOpen(s, ok)
      <4>1. ok = TRUE
        BY <1>1, <2>1, <3>3, Answered DEF ReadState, RejectOpen, HalfOpen
      <4>2. QED
        BY <1>1, <2>1, <3>3, <4>1, KnownByReadState, KnownByRejectOpen, KnownByHalfOpen
    <3>4. QED BY <2>5, <3>1, <3>2, <3>3
  <2>6. ASSUME NEW s \in Servers,
               CallSucceeds(s) \/ CallFails(s) \/ CallBreaks(s) \/ RejectRate(s)
        PROVE  Known'
    BY <1>1, <2>1, <2>6, KnownByCall
  <2>7. ASSUME NEW s \in Servers, NEW ok \in BOOLEAN,
               RecordOk(s, ok) \/ ReadFailures(s, ok) \/ RecordFailure(s, ok) \/ Log(s, ok)
        PROVE  Known'
    <3>1. ok = TRUE
      BY <1>1, <2>1, <2>7, Answered DEF RecordOk, ReadFailures, RecordFailure, Log
    <3>2. QED
      BY <1>1, <2>1, <2>7, <3>1, KnownByRecordOk, KnownByReadFailures, KnownByRecordFailure,
         KnownByLog
  <2>8. ASSUME NEW s \in Servers, Crash(s) PROVE Known'
    BY <1>1, <2>1, <2>8, Answered DEF Crash
  <2>9. QED BY <2>2, <2>3, <2>4, <2>5, <2>6, <2>7, <2>8 DEF Next, ServerStep
<1>3. QED BY <1>1, <1>2 DEF BreakerInv

(* A call starts from the count or from the half-open circuit. *)
LEMMA CalledFromCount ==
  ASSUME TypeOK, NEW s \in Servers, pc[s] = "read_count", pc'[s] = "calling",
         \E ok \in BOOLEAN : ReadCount(s, ok) \/ HalfOpen(s, ok)
  PROVE  route[s] = "pass"
<1>1. PICK ok \in BOOLEAN : ReadCount(s, ok)
  BY DEF HalfOpen, Goto
<1>2. route[s] \in {"pass", "cooling", "cooled"}
  BY DEF TypeOK
<1>3. CASE route[s] = "cooling"
  BY <1>1, <1>3 DEF ReadCount, Goto, TypeOK
<1>4. CASE route[s] = "cooled"
  BY <1>1, <1>4 DEF ReadCount, Goto, TypeOK
<1>5. QED BY <1>2, <1>3, <1>4

LEMMA OnlyCallers ==
  ASSUME TypeOK, [Next]_vars, NEW s \in Servers, pc[s] # "calling", pc'[s] = "calling"
  PROVE  \E ok \in BOOLEAN : ReadCount(s, ok) \/ HalfOpen(s, ok)
<1>1. CASE Tick \/ (\E p \in Policies : UpsertPolicy(p)) \/ UNCHANGED vars
  BY <1>1 DEF Tick, UpsertPolicy, vars
<1>2. ASSUME NEW o \in Servers, NEW to, to # "calling", pc' = [pc EXCEPT ![o] = to] PROVE FALSE
  BY <1>2 DEF TypeOK
<1>3. ASSUME NEW o \in Servers, NEW ok \in BOOLEAN,
             Begin(o, ok) \/ ReadState(o, ok) \/ RejectOpen(o, ok) \/ Log(o, ok)
      PROVE  FALSE
  BY <1>2, <1>3 DEF Begin, ReadState, RejectOpen, Log, Goto, Return
<1>4. ASSUME NEW o \in Servers, NEW ok \in BOOLEAN,
             RecordOk(o, ok) \/ ReadFailures(o, ok) \/ RecordFailure(o, ok)
      PROVE  FALSE
  BY <1>2, <1>4 DEF RecordOk, ReadFailures, RecordFailure, Goto
<1>5. ASSUME NEW o \in Servers,
             RejectRate(o) \/ CallSucceeds(o) \/ CallFails(o) \/ CallBreaks(o) \/ Crash(o)
      PROVE  FALSE
  BY <1>2, <1>5 DEF RejectRate, CallSucceeds, CallFails, CallBreaks, Crash, Goto, Return
<1>6. ASSUME NEW o \in Servers, NEW ok \in BOOLEAN, ReadCount(o, ok) \/ HalfOpen(o, ok)
      PROVE  o = s
  BY <1>6 DEF ReadCount, HalfOpen, Goto, TypeOK
<1>7. QED BY <1>1, <1>3, <1>4, <1>5, <1>6 DEF Next, ServerStep

THEOREM Invariant == Spec => []BreakerInv
<1>1. Init => BreakerInv
  BY InitInv, BreakerAssumption
<1>2. BreakerInv /\ [Next]_vars => BreakerInv'
  BY NextInv, BreakerAssumption
<1>3. QED BY <1>1, <1>2, PTL DEF Spec

(* Every variable keeps its type, whatever fails, breaks off or is changed *)
(* in between.                                                             *)
THEOREM BreakerTypeOK == Spec => []TypeOK
<1>1. BreakerInv => TypeOK
  BY DEF BreakerInv
<1>2. QED BY <1>1, Invariant, PTL

(* Between requests the row of connector_metrics tells the streak of       *)
(* failures and whether it has reached the threshold, for any threshold    *)
(* and any servers that take turns                                         *)
(* (main.py, _record_connector_runtime_outcome).                           *)
THEOREM BreakerKnows == Spec => []BreakerKnowsConnector
<1>1. BreakerInv => BreakerKnowsConnector
  BY DEF BreakerInv, Calm, Known, RowKnown, Recording, BreakerKnowsConnector
<1>2. QED BY <1>1, Invariant, PTL

(* No call is sent under an enabled policy before the cooldown since the   *)
(* last failure of a streak that reached the threshold is over, however    *)
(* long the cooldown (main.py, _enforce_connector_runtime_policy).         *)
THEOREM BreakerCooldown == Spec => CooldownHonoured
<1> DEFINE Waits(s) == pc[s] # "calling" /\ pc'[s] = "calling" /\ Undisturbed /\ SameBreaker
                         /\ mine[s].enabled => ~tripped \/ sinceTrip >= mine[s].cooldown
<1>1. ASSUME BreakerAssumption, BreakerInv, [Next]_vars PROVE \A s \in Servers : Waits(s)
  <2> SUFFICES ASSUME NEW s \in Servers, pc[s] # "calling", pc'[s] = "calling", Calm,
                      mine[s].enabled
               PROVE  ~tripped \/ sinceTrip >= mine[s].cooldown
    BY DEF Calm
  <2>1. TypeOK /\ Known
    BY <1>1 DEF BreakerInv
  <2>2. \E ok \in BOOLEAN : ReadCount(s, ok) \/ HalfOpen(s, ok)
    BY <1>1, <2>1, OnlyCallers
  <2>3. pc[s] \in {"read_count", "half_open"} /\ pc[s] # "idle"
    BY <2>2 DEF ReadCount, HalfOpen, Goto
  <2>4. RowKnown /\ At(s)
    BY <2>1, <2>3, AtWork DEF Recording
  <2>5. CASE pc[s] = "half_open"
    BY <2>4, <2>5 DEF At
  <2>6. CASE pc[s] = "read_count"
    <3>1. route[s] = "pass"
      BY <2>1, <2>2, <2>6, CalledFromCount
    <3>2. circuit # "open"
      BY <2>4, <2>6, <3>1 DEF At
    <3>3. QED BY <2>1, <2>4, <3>2 DEF RowKnown, TypeOK, Circuit
  <2>7. QED BY <2>3, <2>5, <2>6
<1>2. QED BY <1>1, Invariant, BreakerAssumption, PTL DEF Spec, CooldownHonoured

-----------------------------------------------------------------------------
(* The budget.  Every call has its row in the log, and one that is no      *)
(* older, unless its server has yet to write it, the statement was lost or *)
(* the call broke off (Matched); a server that has counted the rows and    *)
(* not yet sent its call has reserved it (Bounded).                        *)
UpTo(f, k) == UNION {{a} \X (1..f[a]) : a \in 0..k}
Counted(f, k) == Cardinality(UpTo(f, k))

Unlogged ==
  {s \in Servers :
     pc[s] \in {"calling", "record_ok", "read_failures", "record_failure", "log"}}
Reserved == {s \in Servers : pc[s] = "half_open" /\ ~full[s] /\ mine[s].enabled}
Others == IF together THEN Cardinality(Servers) - 1 ELSE 0

Matched ==
  \A k \in Ages :
    Counted(calls, k) <= Counted(logged, k) + Cardinality(Unlogged) + faults + broken
Bounded ==
  \E p \in Policies :
    Counted(calls, Window) + Cardinality(Reserved) <= p.budget + faults + broken + Others

BudgetInv == TypeOK /\ (~together => InTurn) /\ Matched /\ Bounded

(* What has been counted of some ages is finite. *)
LEMMA UpToFinite ==
  ASSUME BreakerAssumption, NEW f \in [Ages -> Nat], NEW k \in Ages
  PROVE  IsFiniteSet(UpTo(f, k)) /\ Counted(f, k) \in Nat
<1> DEFINE Parts == {{a} \X (1..f[a]) : a \in 0..k}
           g == [a \in 0..k |-> {a} \X (1..f[a])]
<1>1. k \in Nat /\ 0..k \subseteq Ages
  BY BoundsTyped DEF Ages
<1>2. g \in Surjection(0..k, Parts)
  BY DEF Surjection
<1>3. IsFiniteSet(Parts)
  <2> HIDE DEF g, Parts
  <2>1. 0 \in Int /\ k \in Int
    BY <1>1
  <2>2. IsFiniteSet(0..k)
    BY ONLY <2>1, FS_Interval
  <2>3. QED BY <1>2, <2>2, FS_Surjection
<1>4. \A part \in Parts : IsFiniteSet(part)
  <2>1. ASSUME NEW a \in 0..k PROVE IsFiniteSet({a} \X (1..f[a]))
    <3>1. f[a] \in Nat
      BY <1>1
    <3>2. IsFiniteSet({a})
      BY FS_Singleton
    <3>3. IsFiniteSet(1..f[a])
      <4>1. \A n \in Nat : IsFiniteSet(1..n)
        BY FS_Interval
      <4>2. QED BY <3>1, <4>1
    <3>4. QED BY <3>2, <3>3, FS_Product
  <2>2. QED BY <2>1
<1>5. IsFiniteSet(UpTo(f, k))
  <2>1. IsFiniteSet(UNION Parts)
    BY <1>3, <1>4, FS_UNION
  <2>2. QED BY <2>1 DEF UpTo
<1>6. QED BY <1>5, FS_CardinalityType DEF Counted

LEMMA UpToElements ==
  ASSUME NEW f, NEW k, NEW r
  PROVE  r \in UpTo(f, k) <=> \E a, i : a \in 0..k /\ i \in 1..f[a] /\ r = <<a, i>>
<1>1. \A a : r \in {a} \X (1..f[a]) <=> \E i \in 1..f[a] : r = <<a, i>>
  OBVIOUS
<1>2. r \in UpTo(f, k) <=> \E a \in 0..k : r \in {a} \X (1..f[a])
  BY DEF UpTo
<1>3. QED BY <1>1, <1>2

(* One more of now counts in every window. *)
LEMMA CountedMore ==
  ASSUME BreakerAssumption, NEW f \in [Ages -> Nat], NEW k \in Ages
  PROVE  Counted([f EXCEPT ![0] = @ + 1], k) = Counted(f, k) + 1
<1> DEFINE g == [f EXCEPT ![0] = @ + 1]
           new == <<0, f[0] + 1>>
<1>1. 0 \in Ages /\ 0 \in 0..k /\ 0..k \subseteq Ages /\ f[0] \in Nat
  BY BoundsTyped DEF Ages
<1>2. /\ g[0] = f[0] + 1
      /\ \A a \in 0..k : a # 0 => g[a] = f[a]
  BY <1>1
<1> HIDE DEF g
<1>3. UpTo(g, k) = UpTo(f, k) \cup {new}
  <2>1. ASSUME NEW r \in UpTo(g, k) PROVE r \in UpTo(f, k) \cup {new}
    <3>1. PICK a, i : a \in 0..k /\ i \in 1..g[a] /\ r = <<a, i>>
      BY UpToElements
    <3>2. CASE i \in 1..f[a]
      BY <3>1, <3>2, UpToElements
    <3>3. CASE i \notin 1..f[a]
      BY <1>1, <1>2, <3>1, <3>3
    <3>4. QED BY <3>2, <3>3
  <2>2. ASSUME NEW r \in UpTo(f, k) PROVE r \in UpTo(g, k)
    <3>1. PICK a, i : a \in 0..k /\ i \in 1..f[a] /\ r = <<a, i>>
      BY UpToElements
    <3>2. i \in 1..g[a]
      BY <1>1, <1>2, <3>1
    <3>3. QED BY <3>1, <3>2, UpToElements
  <2>3. new \in UpTo(g, k)
    <3>1. f[0] + 1 \in 1..g[0]
      BY <1>1, <1>2
    <3>2. QED BY <1>1, <3>1, UpToElements
  <2>4. QED BY <2>1, <2>2, <2>3
<1>4. new \notin UpTo(f, k)
  <2>1. \A i \in 1..f[0] : i # f[0] + 1
    BY <1>1
  <2>2. QED BY <2>1, UpToElements
<1>5. QED BY <1>3, <1>4, UpToFinite, FS_AddElement DEF Counted, g

(* A tick makes everything one older. *)
LEMMA CountedOlder ==
  ASSUME BreakerAssumption, NEW f \in [Ages -> Nat], NEW k \in Ages
  PROVE  Counted(Older(f), k) = IF k = 0 THEN 0 ELSE Counted(f, k - 1)
<1>1. k \in Nat /\ 0..k \subseteq Ages
  BY BoundsTyped DEF Ages
<1>2. \A a \in 0..k : Older(f)[a] = IF a = 0 THEN 0 ELSE f[a - 1]
  BY <1>1 DEF Older
<1>3. CASE k = 0
  <2>1. UpTo(Older(f), k) = {}
    <3>1. ASSUME NEW r \in UpTo(Older(f), k) PROVE FALSE
      <4>1. PICK a, i : a \in 0..k /\ i \in 1..Older(f)[a] /\ r = <<a, i>>
        BY UpToElements
      <4>2. QED BY <1>2, <1>3, <4>1
    <3>2. QED BY <3>1
  <2>2. QED BY <1>3, <2>1, FS_EmptySet DEF Counted
<1>4. CASE k # 0
  <2> DEFINE S == UpTo(f, k - 1)
             T == UpTo(Older(f), k)
             shift == [r \in S |-> <<r[1] + 1, r[2]>>]
  <2>1. k - 1 \in Ages /\ 0..(k - 1) \subseteq Nat
    BY <1>1, <1>4, BoundsTyped DEF Ages
  <2>2. ASSUME NEW r \in S
        PROVE  /\ r[1] \in 0..(k - 1) /\ r = <<r[1], r[2]>>
               /\ <<r[1] + 1, r[2]>> \in T
    <3>1. PICK a, i : a \in 0..(k - 1) /\ i \in 1..f[a] /\ r = <<a, i>>
      BY UpToElements
    <3>2. a + 1 \in 0..k /\ a + 1 # 0 /\ (a + 1) - 1 = a
      BY <1>1, <1>4, <3>1
    <3>3. Older(f)[a + 1] = f[a]
      BY <1>2, <3>2
    <3>4. <<a + 1, i>> \in T
      BY <3>1, <3>2, <3>3, UpToElements
    <3>5. QED BY <3>1, <3>4
  <2>3. ASSUME NEW r \in T PROVE \E q \in S : shift[q] = r
    <3>1. PICK a, i : a \in 0..k /\ i \in 1..Older(f)[a] /\ r = <<a, i>>
      BY UpToElements
    <3>2. a # 0
      BY <1>2, <3>1
    <3>3. a - 1 \in 0..(k - 1) /\ i \in 1..f[a - 1] /\ (a - 1) + 1 = a
      BY <1>1, <1>2, <3>1, <3>2
    <3>4. <<a - 1, i>> \in S
      BY <3>3, UpToElements
    <3>5. shift[<<a - 1, i>>] = r
      BY <3>1, <3>3, <3>4
    <3>6. QED BY <3>4, <3>5
  <2>4. \A q, r \in S : shift[q] = shift[r] => q = r
    <3>1. ASSUME NEW q \in S, NEW r \in S, shift[q] = shift[r] PROVE q = r
      <4>1. q[1] + 1 = r[1] + 1 /\ q[2] = r[2]
        BY <3>1
      <4>2. q[1] \in Nat /\ r[1] \in Nat
        BY <2>1, <2>2
      <4>3. q[1] = r[1]
        BY <4>1, <4>2
      <4>4. QED BY <2>2, <4>1, <4>3
    <3>2. QED BY <3>1
  <2>5. shift \in [S -> T]
    BY <2>2
  <2> HIDE DEF S, T, shift
  <2>6. shift \in Bijection(S, T)
    <3>1. shift \in Injection(S, T)
      BY <2>4, <2>5 DEF Injection, IsInjective
    <3>2. shift \in Surjection(S, T)
      BY <2>3, <2>5 DEF Surjection
    <3>3. QED BY <3>1, <3>2 DEF Bijection
  <2>7. IsFiniteSet(S)
    BY <2>1, UpToFinite DEF S
  <2>8. Cardinality(T) = Cardinality(S)
    BY <2>6, <2>7, FS_Bijection DEF ExistsBijection
  <2>9. QED BY <1>4, <2>8 DEF Counted, S, T
<1>5. QED BY <1>3, <1>4

(* A longer window counts more. *)
LEMMA CountedLonger ==
  ASSUME BreakerAssumption, NEW f \in [Ages -> Nat], NEW k \in Ages
  PROVE  Counted(f, k) <= Counted(f, Window)
<1>1. 0..k \subseteq 0..Window /\ Window \in Ages
  BY BoundsTyped DEF Ages
<1>2. UpTo(f, k) \subseteq UpTo(f, Window)
  BY <1>1 DEF UpTo
<1>3. QED BY <1>1, <1>2, UpToFinite, FS_Subset DEF Counted

(* The numbers of the budget. *)
LEMMA BudgetTyped ==
  ASSUME BreakerAssumption, TypeOK
  PROVE  /\ \A k \in Ages : Counted(calls, k) \in Nat /\ Counted(logged, k) \in Nat
         /\ Cardinality(Unlogged) \in Nat /\ Cardinality(Reserved) \in Nat
         /\ Cardinality(Servers) \in Nat /\ faults \in Nat /\ broken \in Nat
         /\ Window \in Ages
         /\ \A p \in Policies : p.budget \in Nat
<1>1. calls \in [Ages -> Nat] /\ logged \in [Ages -> Nat]
  BY DEF TypeOK
<1>2. IsFiniteSet(Servers) /\ Unlogged \subseteq Servers /\ Reserved \subseteq Servers
  BY DEF BreakerAssumption, Unlogged, Reserved
<1>3. /\ Cardinality(Unlogged) \in Nat /\ Cardinality(Reserved) \in Nat
      /\ Cardinality(Servers) \in Nat
  BY <1>2, FS_Subset, FS_CardinalityType
<1>4. Window \in Ages
  BY BoundsTyped DEF Ages
<1>5. QED BY <1>1, <1>3, <1>4, UpToFinite, PolicyTyped DEF TypeOK

(* A set of servers that differs in one of them at most. *)
LEMMA OneServer ==
  ASSUME IsFiniteSet(Servers), NEW S \in SUBSET Servers, NEW T \in SUBSET Servers,
         NEW s \in Servers, \A o \in Servers \ {s} : o \in S <=> o \in T
  PROVE  /\ (s \in S <=> s \in T) => Cardinality(T) = Cardinality(S)
         /\ s \in T /\ s \notin S => Cardinality(T) = Cardinality(S) + 1
         /\ s \in S /\ s \notin T => Cardinality(T) = Cardinality(S) - 1
<1>1. IsFiniteSet(S)
  BY FS_Subset
<1>2. CASE s \in S <=> s \in T
  BY <1>2, S = T
<1>3. CASE s \in T /\ s \notin S
  BY <1>1, <1>3, T = S \cup {s}, FS_AddElement
<1>4. CASE s \in S /\ s \notin T
  BY <1>1, <1>4, T = S \ {s}, FS_RemoveElement
<1>5. QED BY <1>2, <1>3, <1>4

(* A step of one server leaves the others where they are. *)
LEMMA OthersKept ==
  ASSUME TypeOK, NEW s \in Servers, ServerStep(s) \/ Crash(s)
  PROVE  \A o \in Servers \ {s} : pc'[o] = pc[o] /\ full'[o] = full[o] /\ mine'[o] = mine[o]
<1>1. CASE \E ok \in BOOLEAN : Begin(s, ok) \/ ReadState(s, ok)
  BY <1>1 DEF TypeOK, Begin, ReadState, Goto
<1>2. CASE \E ok \in BOOLEAN : ReadCount(s, ok) \/ RejectOpen(s, ok) \/ HalfOpen(s, ok)
  BY <1>2 DEF TypeOK, ReadCount, RejectOpen, HalfOpen, Goto, request
<1>3. CASE \E ok \in BOOLEAN : RecordOk(s, ok) \/ ReadFailures(s, ok) \/ RecordFailure(s, ok)
  BY <1>3 DEF TypeOK, RecordOk, ReadFailures, RecordFailure, Goto, request
<1>4. CASE RejectRate(s) \/ CallSucceeds(s) \/ CallFails(s)
  BY <1>4 DEF TypeOK, RejectRate, CallSucceeds, CallFails, Goto, request
<1>5. CASE (\E ok \in BOOLEAN : Log(s, ok)) \/ CallBreaks(s) \/ Crash(s)
  BY <1>5 DEF TypeOK, Log, CallBreaks, Crash, Return
<1>6. QED BY <1>1, <1>2, <1>3, <1>4, <1>5 DEF ServerStep

(* Steps that leave every call of every window with its row. *)
LEMMA MatchedKept ==
  ASSUME BreakerAssumption, TypeOK, TypeOK', Matched, NEW s \in Servers,
         \A o \in Servers \ {s} : pc'[o] = pc[o],
         faults' >= faults, broken' >= broken,
         \/ UNCHANGED <<calls, logged>> /\ (s \in Unlogged => s \in Unlogged')
         \/ /\ calls' \in {calls, [calls EXCEPT ![0] = @ + 1]} /\ UNCHANGED logged
            /\ s \notin Unlogged /\ s \in Unlogged'
         \/ UNCHANGED <<calls, logged>> /\ faults' + broken' > faults + broken
         \/ UNCHANGED calls /\ logged' = [logged EXCEPT ![0] = @ + 1]
  PROVE  Matched'
<1>1. /\ IsFiniteSet(Servers) /\ Unlogged \in SUBSET Servers /\ Unlogged' \in SUBSET Servers
      /\ \A o \in Servers \ {s} : o \in Unlogged <=> o \in Unlogged'
  BY DEF BreakerAssumption, Unlogged
<1>2. /\ (s \in Unlogged <=> s \in Unlogged') => Cardinality(Unlogged') = Cardinality(Unlogged)
      /\ s \in Unlogged' /\ s \notin Unlogged =>
           Cardinality(Unlogged') = Cardinality(Unlogged) + 1
      /\ s \in Unlogged /\ s \notin Unlogged' =>
           Cardinality(Unlogged') = Cardinality(Unlogged) - 1
  BY <1>1, OneServer
<1>3. /\ Cardinality(Unlogged) \in Nat /\ Cardinality(Unlogged') \in Nat
      /\ faults \in Nat /\ broken \in Nat /\ faults' \in Nat /\ broken' \in Nat
  <2>1. Cardinality(Unlogged) \in Nat
    BY BudgetTyped
  <2>2. Cardinality(Unlogged') \in Nat
    BY <1>2, <2>1, <1>1, FS_Subset, FS_CardinalityType
  <2>3. QED BY <2>1, <2>2 DEF TypeOK
<1>4. ASSUME NEW k \in Ages
      PROVE  Counted(calls', k) <= Counted(logged', k) + Cardinality(Unlogged') + faults' + broken'
  <2>1. /\ Counted(calls, k) \in Nat /\ Counted(logged, k) \in Nat
        /\ Counted(calls, k) <= Counted(logged, k) + Cardinality(Unlogged) + faults + broken
    BY BudgetTyped DEF Matched
  <2>2. /\ Counted([calls EXCEPT ![0] = @ + 1], k) = Counted(calls, k) + 1
        /\ Counted([logged EXCEPT ![0] = @ + 1], k) = Counted(logged, k) + 1
    BY CountedMore DEF TypeOK
  <2>3. CASE UNCHANGED <<calls, logged>> /\ (s \in Unlogged => s \in Unlogged')
    BY <1>2, <1>3, <2>1, <2>3
  <2>4. CASE /\ calls' \in {calls, [calls EXCEPT ![0] = @ + 1]} /\ UNCHANGED logged
             /\ s \notin Unlogged /\ s \in Unlogged'
    <3>1. Counted(calls', k) <= Counted(calls, k) + 1 /\ Counted(logged', k) = Counted(logged, k)
      BY <2>1, <2>2, <2>4
    <3>2. Cardinality(Unlogged') = Cardinality(Unlogged) + 1
      BY <1>2, <2>4
    <3>3. Counted(calls', k) \in Nat
      BY <2>1, <2>2, <2>4
    <3>4. QED BY <1>3, <2>1, <3>1, <3>2, <3>3
  <2>5. CASE UNCHANGED <<calls, logged>> /\ faults' + broken' > faults + broken
    <3>1. Cardinality(Unlogged') >= Cardinality(Unlogged) - 1
      BY <1>2, <1>3
    <3>2. Counted(calls', k) = Counted(calls, k) /\ Counted(logged', k) = Counted(logged, k)
      BY <2>5
    <3>3. faults' + broken' >= faults + broken + 1
      <4>1. \A f, b, g, d \in Nat : g + d > f + b => g + d >= f + b + 1
        OBVIOUS
      <4>2. QED BY ONLY <1>3, <2>5, <4>1
    <3>4. \A u, v, f, g, b, d, m, n \in Nat :
            n <= m + u + f + b /\ v >= u - 1 /\ g + d >= f + b + 1 => n <= m + v + g + d
      OBVIOUS
    <3>5. Counted(calls, k) <= Counted(logged, k) + Cardinality(Unlogged') + faults' + broken'
      BY <1>3, <2>1, <3>1, <3>3, <3>4
    <3>6. QED BY <3>2, <3>5
  <2>6. CASE UNCHANGED calls /\ logged' = [logged EXCEPT ![0] = @ + 1]
    <3>1. Counted(calls', k) = Counted(calls, k) /\ Counted(logged', k) = Counted(logged, k) + 1
      BY <2>2, <2>6
    <3>2. QED BY <1>2, <1>3, <2>1, <3>1
  <2>7. QED BY <2>3, <2>4, <2>5, <2>6
<1>5. QED BY <1>4 DEF Matched

(* Steps that send no call but those that are reserved. *)
LEMMA BoundedKept ==
  ASSUME BreakerAssumption, TypeOK, TypeOK', Bounded, NEW s \in Servers,
         \A o \in Servers \ {s} : pc'[o] = pc[o] /\ full'[o] = full[o] /\ mine'[o] = mine[o],
         faults' >= faults, broken' >= broken, together => together',
         \/ UNCHANGED calls /\ (s \in Reserved' => s \in Reserved)
         \/ calls' = [calls EXCEPT ![0] = @ + 1] /\ s \in Reserved /\ s \notin Reserved'
  PROVE  Bounded'
<1>1. /\ IsFiniteSet(Servers) /\ Reserved \in SUBSET Servers /\ Reserved' \in SUBSET Servers
      /\ \A o \in Servers \ {s} : o \in Reserved <=> o \in Reserved'
  BY DEF BreakerAssumption, Reserved
<1>2. /\ (s \in Reserved <=> s \in Reserved') => Cardinality(Reserved') = Cardinality(Reserved)
      /\ s \in Reserved /\ s \notin Reserved' =>
           Cardinality(Reserved') = Cardinality(Reserved) - 1
  BY <1>1, OneServer
<1>3. Others <= Others' /\ Others \in Nat /\ Others' \in Nat
  <2>1. Cardinality(Servers) \in Nat /\ Cardinality(Servers) >= 1
    <3>1. Cardinality(Servers) \in Nat /\ Cardinality({s}) = 1
      BY BudgetTyped, FS_Singleton
    <3>2. Cardinality({s}) <= Cardinality(Servers)
      BY <1>1, FS_Subset
    <3>3. QED BY <3>1, <3>2
  <2>2. QED BY <2>1 DEF Others
<1>4. /\ Cardinality(Reserved) \in Nat /\ Counted(calls, Window) \in Nat
      /\ faults \in Nat /\ broken \in Nat /\ faults' \in Nat /\ broken' \in Nat
  BY BudgetTyped DEF TypeOK
<1>5. PICK p \in Policies :
        Counted(calls, Window) + Cardinality(Reserved) <= p.budget + faults + broken + Others
  BY DEF Bounded
<1>6. p.budget \in Nat
  BY BudgetTyped
<1>7. Counted([calls EXCEPT ![0] = @ + 1], Window) = Counted(calls, Window) + 1
  BY BudgetTyped, CountedMore DEF TypeOK
<1>8. Counted(calls', Window) + Cardinality(Reserved') <= Counted(calls, Window) + Cardinality(Reserved)
  BY <1>2, <1>4, <1>7
<1>9. Cardinality(Reserved') \in Nat /\ Counted(calls', Window) \in Nat
  <2>1. Cardinality(Reserved') \in Nat
    BY <1>1, FS_Subset, FS_CardinalityType
  <2>2. QED BY <1>4, <1>7, <2>1
<1>10. Counted(calls', Window) + Cardinality(Reserved') <= p.budget + faults' + broken' + Others'
  BY <1>3, <1>4, <1>5, <1>6, <1>8, <1>9
<1>11. QED BY <1>10 DEF Bounded

(* A server that is already at work does not join the others. *)
LEMMA TurnsKept ==
  ASSUME ~together => InTurn, NEW s \in Servers, pc[s] # "idle",
         \A o \in Servers \ {s} : pc'[o] = pc[o], together' = together
  PROVE  ~together' => InTurn'
BY DEF InTurn

(* How many servers may have counted before one that counts now. *)
LEMMA OthersCounted ==
  ASSUME BreakerAssumption, TypeOK, ~together => InTurn, NEW s \in Servers,
         pc[s] = "read_count"
  PROVE  Cardinality(Unlogged) + Cardinality(Reserved) <= Others
<1>1. /\ IsFiniteSet(Unlogged) /\ IsFiniteSet(Reserved) /\ IsFiniteSet(Servers \ {s})
      /\ Cardinality(Servers \ {s}) = Cardinality(Servers) - 1
  <2>1. IsFiniteSet(Servers) /\ Unlogged \subseteq Servers /\ Reserved \subseteq Servers
    BY DEF BreakerAssumption, Unlogged, Reserved
  <2>2. QED BY <2>1, FS_Subset, FS_RemoveElement
<1>2. Unlogged \cup Reserved \subseteq Servers \ {s} /\ Unlogged \cap Reserved = {}
  BY DEF Unlogged, Reserved
<1>3. Cardinality(Unlogged \cup Reserved) = Cardinality(Unlogged) + Cardinality(Reserved)
  <2>1. /\ Cardinality(Unlogged \cup Reserved)
             = Cardinality(Unlogged) + Cardinality(Reserved) - Cardinality(Unlogged \cap Reserved)
        /\ Cardinality(Unlogged \cap Reserved) = 0
    BY <1>1, <1>2, FS_Union, FS_EmptySet
  <2>2. QED BY <2>1, BudgetTyped
<1>4. CASE together
  <2>1. Cardinality(Unlogged \cup Reserved) <= Cardinality(Servers \ {s})
    BY <1>1, <1>2, FS_Subset
  <2>2. QED BY <1>1, <1>3, <1>4, <2>1 DEF Others
<1>5. CASE ~together
  <2>1. Unlogged \cup Reserved = {}
    BY <1>2, <1>5 DEF InTurn, Unlogged, Reserved
  <2>2. Cardinality(Unlogged \cup Reserved) = 0
    BY <2>1, FS_EmptySet
  <2>3. QED BY <1>3, <1>5, <2>2 DEF Others
<1>6. QED BY <1>4, <1>5

(* The count: a server that finds room for its call is the only one to     *)
(* have counted so far but for the others at work.                         *)
LEMMA BoundedByCount ==
  ASSUME BreakerAssumption, BudgetInv, TypeOK', NEW s \in Servers, NEW ok \in BOOLEAN,
         ReadCount(s, ok)
  PROVE  Bounded'
<1> USE DEF BudgetInv
<1> DEFINE rows == IF ok THEN Cardinality(Recent(logged)) ELSE 0
<1>1. /\ pc[s] = "read_count" /\ UNCHANGED <<mine, broken, together>>
      /\ full'[s] = UsedUp(rows, mine[s])
      /\ faults' = IF ok THEN faults ELSE faults + 1
  BY DEF ReadCount, Goto, Database, TypeOK
<1>2. \A o \in Servers \ {s} : pc'[o] = pc[o] /\ full'[o] = full[o] /\ mine'[o] = mine[o]
  BY OthersKept DEF ServerStep
<1>3. /\ Cardinality(Reserved) \in Nat /\ Cardinality(Unlogged) \in Nat
      /\ Counted(calls, Window) \in Nat /\ Counted(logged, Window) \in Nat
      /\ faults \in Nat /\ broken \in Nat /\ Window \in Ages
      /\ mine[s] \in Policies /\ mine[s].budget \in Nat
  BY BudgetTyped DEF TypeOK
<1>4. Others' = Others /\ Others \in Nat
  <2>1. Cardinality(Servers) \in Nat /\ Cardinality(Servers) >= 1
    <3>1. Cardinality(Servers) \in Nat /\ Cardinality({s}) = 1
      BY BudgetTyped, FS_Singleton
    <3>2. Cardinality({s}) <= Cardinality(Servers)
      BY FS_Subset DEF BreakerAssumption
    <3>3. QED BY <3>1, <3>2
  <2>2. QED BY <1>1, <2>1 DEF Others
<1>5. /\ calls' \in {calls, [calls EXCEPT ![0] = @ + 1]}
      /\ s \in Reserved' => calls' = calls
      /\ calls' # calls \/ s \in Reserved' => ~full'[s] /\ mine[s].enabled
  <2>1. CASE route[s] = "cooling"
    BY <1>1, <2>1 DEF ReadCount, Goto, Reserved, TypeOK
  <2>2. CASE route[s] = "cooled"
    BY <1>1, <2>2 DEF ReadCount, Goto, Reserved, TypeOK
  <2>3. CASE route[s] = "pass"
    <3>1. pc'[s] \in {"reject_rate", "calling"} /\ (pc'[s] = "calling" => ~full'[s])
      BY <1>1, <2>3 DEF ReadCount, Goto, TypeOK
    <3>2. calls' # calls => pc'[s] = "calling" /\ mine[s].enabled
      BY <1>1, <2>3 DEF ReadCount, Goto, Dispatched, TypeOK
    <3>3. calls' \in {calls, [calls EXCEPT ![0] = @ + 1]}
      BY DEF ReadCount, Dispatched
    <3>4. QED BY <3>1, <3>2, <3>3 DEF Reserved
  <2>4. QED BY <2>1, <2>2, <2>3 DEF TypeOK
<1>6. CASE calls' = calls /\ s \notin Reserved'
  BY <1>1, <1>2, <1>3, <1>6, BoundedKept
<1>7. CASE calls' # calls \/ s \in Reserved'
  <2>1. Counted(calls', Window) + Cardinality(Reserved')
          = Counted(calls, Window) + Cardinality(Reserved) + 1
    <3>1. Counted([calls EXCEPT ![0] = @ + 1], Window) = Counted(calls, Window) + 1
      BY <1>3, CountedMore DEF TypeOK
    <3>2. /\ s \in Reserved' => Cardinality(Reserved') = Cardinality(Reserved) + 1
          /\ s \notin Reserved' => Cardinality(Reserved') = Cardinality(Reserved)
      <4>1. /\ IsFiniteSet(Servers) /\ Reserved \in SUBSET Servers /\ Reserved' \in SUBSET Servers
            /\ \A o \in Servers \ {s} : o \in Reserved <=> o \in Reserved'
            /\ s \notin Reserved
        BY <1>1, <1>2 DEF BreakerAssumption, Reserved
      <4>2. QED BY <4>1, OneServer
    <3>3. CASE s \in Reserved'
      BY <1>3, <1>5, <3>2, <3>3
    <3>4. CASE s \notin Reserved'
      BY <1>3, <1>5, <1>7, <3>1, <3>2, <3>4
    <3>5. QED BY <3>3, <3>4
  <2>2. CASE ok
    <3>1. Counted(logged, Window) < mine[s].budget
      <4>1. rows = Counted(logged, Window)
        BY <2>2 DEF Counted, UpTo, Recent, Ages
      <4>2. ~(rows >= mine[s].budget)
        BY <1>1, <1>5, <1>7 DEF UsedUp
      <4>3. QED BY <1>3, <4>1, <4>2
    <3>2. Counted(calls, Window) <= Counted(logged, Window) + Cardinality(Unlogged) + faults + broken
      BY <1>3 DEF Matched
    <3>3. Cardinality(Unlogged) + Cardinality(Reserved) <= Others
      BY <1>1, OthersCounted
    <3>4. Counted(calls, Window) + Cardinality(Reserved) + 1
            <= mine[s].budget + faults + broken + Others
      BY <1>3, <1>4, <3>1, <3>2, <3>3
    <3>5. QED BY <1>1, <1>3, <1>4, <2>1, <2>2, <3>4 DEF Bounded
  <2>3. CASE ~ok
    <3>1. PICK p \in Policies :
            Counted(calls, Window) + Cardinality(Reserved) <= p.budget + faults + broken + Others
      BY DEF Bounded
    <3>2. p.budget \in Nat
      BY BudgetTyped
    <3>3. Counted(calls, Window) + Cardinality(Reserved) + 1
            <= p.budget + (faults + 1) + broken + Others
      BY <1>3, <1>4, <3>1, <3>2
    <3>4. QED BY <1>1, <1>4, <2>1, <2>3, <3>3 DEF Bounded
  <2>4. QED BY <2>2, <2>3
<1>8. QED BY <1>6, <1>7

(* A statement that answers or raises, and the numbers that only grow. *)
LEMMA TroubleGrows ==
  ASSUME TypeOK, NEW s \in Servers, ServerStep(s) \/ Crash(s)
  PROVE  faults' >= faults /\ broken' >= broken /\ (together => together')
<1>1. \A ok \in BOOLEAN : Database(ok) => faults' >= faults
  BY DEF Database, TypeOK
<1>2. CASE \E ok \in BOOLEAN : Begin(s, ok) \/ ReadState(s, ok) \/ ReadCount(s, ok)
  BY <1>1, <1>2 DEF TypeOK, Begin, ReadState, ReadCount, history
<1>3. CASE \E ok \in BOOLEAN : RejectOpen(s, ok) \/ HalfOpen(s, ok) \/ Log(s, ok)
  BY <1>1, <1>3 DEF TypeOK, RejectOpen, HalfOpen, Log, history
<1>4. CASE \E ok \in BOOLEAN : RecordOk(s, ok) \/ ReadFailures(s, ok) \/ RecordFailure(s, ok)
  BY <1>1, <1>4 DEF TypeOK, RecordOk, ReadFailures, RecordFailure, history
<1>5. CASE RejectRate(s) \/ CallSucceeds(s) \/ CallFails(s) \/ CallBreaks(s)
  BY <1>5 DEF TypeOK, RejectRate, CallSucceeds, CallFails, CallBreaks, history
<1>6. CASE Crash(s)
  <2>1. Database(FALSE) /\ UNCHANGED history
    BY <1>6 DEF Crash
  <2>2. faults' >= faults
    BY <1>1, <2>1
  <2>3. broken' = broken /\ together' = together
    BY <2>1 DEF history
  <2>4. QED BY <2>2, <2>3 DEF TypeOK
<1>7. QED BY <1>2, <1>3, <1>4, <1>5, <1>6 DEF ServerStep

(* The steps of one server. *)
LEMMA BudgetByServer ==
  ASSUME BreakerAssumption, BudgetInv, TypeOK', NEW s \in Servers, ServerStep(s) \/ Crash(s)
  PROVE  BudgetInv'
<1> USE DEF BudgetInv
<1>1. \A o \in Servers \ {s} : pc'[o] = pc[o] /\ full'[o] = full[o] /\ mine'[o] = mine[o]
  BY OthersKept
<1>2. /\ faults' >= faults /\ broken' >= broken /\ (together => together')
      /\ faults \in Nat /\ broken \in Nat /\ faults' \in Nat /\ broken' \in Nat
  BY TroubleGrows DEF TypeOK
<1>3. CASE \E ok \in BOOLEAN : Begin(s, ok)
  <2> PICK ok \in BOOLEAN : Begin(s, ok)
    BY <1>3
  <2>1. /\ pc[s] = "idle" /\ pc'[s] = "read_state" /\ UNCHANGED <<calls, logged>>
        /\ together' = (together \/ \E o \in Servers \ {s} : pc[o] # "idle")
    BY DEF Begin, Goto, TypeOK
  <2>2. ~together' => InTurn'
    BY <1>1, <2>1 DEF InTurn
  <2>3. Matched'
    BY <1>1, <1>2, <2>1, MatchedKept DEF Unlogged
  <2>4. Bounded'
    BY <1>1, <1>2, <2>1, BoundedKept DEF Reserved
  <2>5. QED BY <2>2, <2>3, <2>4
<1>4. ASSUME UNCHANGED <<calls, logged, together>>, pc[s] # "idle",
             s \in Unlogged => s \in Unlogged', s \notin Reserved'
      PROVE  BudgetInv'
  <2>1. Matched' /\ Bounded'
    BY <1>1, <1>2, <1>4, MatchedKept, BoundedKept
  <2>2. QED BY <1>1, <1>4, <2>1, TurnsKept
<1>5. CASE \E ok \in BOOLEAN : ReadState(s, ok) \/ RejectOpen(s, ok)
  <2>1. /\ UNCHANGED <<calls, logged, together>>
        /\ pc[s] \in {"read_state", "reject_open"} /\ pc'[s] \in {"read_count", "log"}
    BY <1>5 DEF ReadState, RejectOpen, Goto, history, TypeOK
  <2>2. QED BY <1>4, <2>1 DEF Unlogged, Reserved
<1>6. CASE \E ok \in BOOLEAN : RecordOk(s, ok) \/ ReadFailures(s, ok) \/ RecordFailure(s, ok)
  <2>1. /\ UNCHANGED <<calls, logged, together>>
        /\ pc[s] # "idle" /\ pc'[s] \in {"record_failure", "log"}
    BY <1>6 DEF RecordOk, ReadFailures, RecordFailure, Goto, history, TypeOK
  <2>2. QED BY <1>4, <2>1 DEF Unlogged, Reserved
<1>7. CASE RejectRate(s) \/ CallSucceeds(s) \/ CallFails(s)
  <2>1. /\ UNCHANGED <<calls, logged, together>>
        /\ pc[s] # "idle" /\ pc'[s] \in {"log", "record_ok", "read_failures"}
    BY <1>7 DEF RejectRate, CallSucceeds, CallFails, Goto, history, TypeOK
  <2>2. QED BY <1>4, <2>1 DEF Unlogged, Reserved
<1>8. CASE \E ok \in BOOLEAN : ReadCount(s, ok)
  <2> PICK ok \in BOOLEAN : ReadCount(s, ok)
    BY <1>8
  <2>1. pc[s] = "read_count" /\ UNCHANGED <<logged, together>>
    BY DEF ReadCount, Goto
  <2>2. \/ UNCHANGED calls
        \/ calls' = [calls EXCEPT ![0] = @ + 1] /\ pc'[s] = "calling"
    BY DEF ReadCount, Goto, Dispatched, TypeOK
  <2>3. Matched'
    BY <1>1, <1>2, <2>1, <2>2, MatchedKept DEF Unlogged
  <2>4. QED BY <1>1, <2>1, <2>3, BoundedByCount, TurnsKept
<1>9. CASE \E ok \in BOOLEAN : HalfOpen(s, ok)
  <2> PICK ok \in BOOLEAN : HalfOpen(s, ok)
    BY <1>9
  <2>1. /\ pc[s] = "half_open" /\ UNCHANGED <<logged, together>>
        /\ pc'[s] \in {"reject_rate", "calling"}
    BY DEF HalfOpen, Goto, TypeOK
  <2>2. \/ UNCHANGED calls
        \/ calls' = [calls EXCEPT ![0] = @ + 1] /\ pc'[s] = "calling"
             /\ ~full[s] /\ mine[s].enabled
    BY DEF HalfOpen, Goto, Dispatched, TypeOK
  <2>3. Matched'
    BY <1>1, <1>2, <2>1, <2>2, MatchedKept DEF Unlogged
  <2>4. Bounded'
    BY <1>1, <1>2, <2>1, <2>2, BoundedKept DEF Reserved
  <2>5. QED BY <1>1, <2>1, <2>3, <2>4, TurnsKept
<1>10. CASE CallBreaks(s) \/ Crash(s)
  <2>1. /\ UNCHANGED <<calls, logged, together>> /\ pc[s] # "idle" /\ pc'[s] = "idle"
        /\ faults' + broken' > faults + broken
    BY <1>2, <1>10 DEF CallBreaks, Crash, Return, Database, history, TypeOK
  <2>2. Matched' /\ Bounded'
    BY <1>1, <1>2, <2>1, MatchedKept, BoundedKept DEF Reserved
  <2>3. QED BY <1>1, <2>1, <2>2, TurnsKept
<1>11. CASE \E ok \in BOOLEAN : Log(s, ok)
  <2> PICK ok \in BOOLEAN : Log(s, ok)
    BY <1>11
  <2>1. /\ UNCHANGED <<calls, together>> /\ pc[s] # "idle" /\ pc'[s] = "idle"
        /\ \/ logged' = [logged EXCEPT ![0] = @ + 1]
           \/ UNCHANGED logged /\ faults' + broken' > faults + broken
    BY <1>2 DEF Log, Return, Database, history, TypeOK
  <2>2. Matched' /\ Bounded'
    BY <1>1, <1>2, <2>1, MatchedKept, BoundedKept DEF Reserved
  <2>3. QED BY <1>1, <2>1, <2>2, TurnsKept
<1>12. QED
  BY <1>3, <1>5, <1>6, <1>7, <1>8, <1>9, <1>10, <1>11 DEF ServerStep

(* Time passes: what is too old to be counted takes its row with it. *)
LEMMA BudgetByTime ==
  ASSUME BreakerAssumption, BudgetInv, TypeOK', Tick
  PROVE  BudgetInv'
<1> USE DEF BudgetInv
<1>1. /\ calls' = Older(calls) /\ logged' = Older(logged)
      /\ UNCHANGED <<pc, full, mine, faults, broken, together>>
      /\ calls \in [Ages -> Nat] /\ logged \in [Ages -> Nat]
  BY DEF Tick, request, TypeOK
<1>2. /\ Unlogged' = Unlogged /\ Reserved' = Reserved /\ Others' = Others
      /\ (~together' => InTurn')
  BY <1>1 DEF Unlogged, Reserved, Others, InTurn
<1>3. \A k \in Ages : k # 0 => k - 1 \in Ages
  BY BoundsTyped DEF Ages
<1>4. ASSUME NEW k \in Ages
      PROVE  /\ Counted(calls', k) <= Counted(logged', k) + Cardinality(Unlogged) + faults + broken
             /\ Counted(calls', k) <= Counted(calls, Window)
             /\ Counted(calls', k) \in Nat
  <2>1. /\ Counted(calls', k) = IF k = 0 THEN 0 ELSE Counted(calls, k - 1)
        /\ Counted(logged', k) = IF k = 0 THEN 0 ELSE Counted(logged, k - 1)
    BY <1>1, CountedOlder
  <2>2. CASE k = 0
    BY <2>1, <2>2, BudgetTyped
  <2>3. CASE k # 0
    <3>1. /\ k - 1 \in Ages
          /\ Counted(calls, k - 1)
               <= Counted(logged, k - 1) + Cardinality(Unlogged) + faults + broken
      BY <1>3, <2>3 DEF Matched
    <3>2. Counted(calls, k - 1) <= Counted(calls, Window) /\ Counted(calls, k - 1) \in Nat
      BY <1>1, <3>1, CountedLonger, BudgetTyped
    <3>3. QED BY <2>1, <2>3, <3>1, <3>2
  <2>4. QED BY <2>2, <2>3
<1>5. Matched'
  BY <1>1, <1>2, <1>4 DEF Matched
<1>6. Bounded'
  <2>1. PICK p \in Policies :
          Counted(calls, Window) + Cardinality(Reserved) <= p.budget + faults + broken + Others
    BY DEF Bounded
  <2>2. /\ Counted(calls', Window) <= Counted(calls, Window) /\ Counted(calls', Window) \in Nat
        /\ Counted(calls, Window) \in Nat /\ Cardinality(Reserved) \in Nat
        /\ p.budget \in Nat /\ faults \in Nat /\ broken \in Nat
    BY <1>4, BudgetTyped
  <2>3. Counted(calls', Window) + Cardinality(Reserved)
          <= Counted(calls, Window) + Cardinality(Reserved)
    BY <2>2
  <2>4. Others \in Int
    BY BudgetTyped DEF Others
  <2>5. Counted(calls', Window) + Cardinality(Reserved) <= p.budget + faults + broken + Others
    BY <2>1, <2>2, <2>3, <2>4
  <2>6. QED BY <1>1, <1>2, <2>5 DEF Bounded
<1>7. QED BY <1>2, <1>5, <1>6

LEMMA BudgetNext == BreakerAssumption /\ BudgetInv /\ [Next]_vars => BudgetInv'
<1> SUFFICES ASSUME BreakerAssumption, BudgetInv, [Next]_vars PROVE BudgetInv'
  OBVIOUS
<1>1. TypeOK'
  BY NextTypeOK DEF BudgetInv
<1>2. CASE Tick
  BY <1>1, <1>2, BudgetByTime
<1>3. CASE (\E p \in Policies : UpsertPolicy(p)) \/ UNCHANGED vars
  <2>1. UNCHANGED <<calls, logged, pc, full, mine, faults, broken, together>>
    BY <1>3 DEF UpsertPolicy, vars, request, history
  <2>2. QED BY <1>1, <2>1 DEF BudgetInv, InTurn, Matched, Bounded, Unlogged, Reserved, Others
<1>4. ASSUME NEW s \in Servers, ServerStep(s) \/ Crash(s) PROVE BudgetInv'
  BY <1>1, <1>4, BudgetByServer
<1>5. QED BY <1>2, <1>3, <1>4 DEF Next

LEMMA BudgetInit == BreakerAssumption /\ Init => BudgetInv
<1> SUFFICES ASSUME BreakerAssumption, Init PROVE BudgetInv
  OBVIOUS
<1>1. TypeOK
  BY InitInv DEF BreakerInv
<1>2. Unlogged = {} /\ Reserved = {}
  BY DEF Init, Unlogged, Reserved
<1>3. ASSUME NEW k \in Ages PROVE Counted(NoRows, k) = 0
  <2>1. 0..k \subseteq Ages
    BY BoundsTyped DEF Ages
  <2>2. UpTo(NoRows, k) = {}
    <3>1. ASSUME NEW r \in UpTo(NoRows, k) PROVE FALSE
      <4>1. PICK a, i : a \in 0..k /\ i \in 1..NoRows[a] /\ r = <<a, i>>
        BY UpToElements
      <4>2. NoRows[a] = 0
        BY <2>1, <4>1 DEF NoRows
      <4>3. QED BY <4>1, <4>2
    <3>2. QED BY <3>1
  <2>3. QED BY <2>2, FS_EmptySet DEF Counted
<1>4. calls = NoRows /\ logged = NoRows /\ faults = 0 /\ broken = 0 /\ together = FALSE
      /\ \A s \in Servers : pc[s] = "idle"
  BY DEF Init
<1>5. Cardinality(Unlogged) = 0 /\ Cardinality(Reserved) = 0
  BY <1>2, FS_EmptySet
<1>6. Matched
  BY <1>3, <1>4, <1>5 DEF Matched
<1>7. Bounded
  <2>1. Counted(calls, Window) = 0
    BY <1>1, <1>3, <1>4, BudgetTyped
  <2>2. DefaultPolicy \in Policies /\ DefaultPolicy.budget \in Nat
    BY BoundsTyped, PolicyTyped
  <2>3. QED BY <1>4, <1>5, <2>1, <2>2 DEF Bounded, Others
<1>8. QED BY <1>1, <1>4, <1>6, <1>7 DEF BudgetInv, InTurn

(* Every call of a window has its row in the log, or an excuse, and a      *)
(* server that has counted has room for its own.                           *)
THEOREM BreakerBudgetInvariant == Spec => []BudgetInv
<1>1. BreakerAssumption
  BY BreakerAssumption
<1>2. QED BY <1>1, BudgetInit, BudgetNext, PTL DEF Spec

(* In no window of any length are more calls sent to the connector than    *)
(* requests_per_window and the other servers that counted at the same      *)
(* time, beyond the calls whose row was lost or that broke off             *)
(* (main.py, _enforce_connector_runtime_policy).                           *)
THEOREM BreakerBudget == Spec => []BudgetRespected
<1>1. ASSUME BreakerAssumption, BudgetInv PROVE BudgetRespected
  <2>1. Cardinality(Recent(calls)) = Counted(calls, Window)
    BY DEF Recent, Counted, UpTo, Ages
  <2>2. PICK p \in Policies :
          Counted(calls, Window) + Cardinality(Reserved) <= p.budget + faults + broken + Others
    BY <1>1 DEF BudgetInv, Bounded
  <2>3. /\ Counted(calls, Window) \in Nat /\ Cardinality(Reserved) \in Nat
        /\ p.budget \in Nat /\ faults \in Nat /\ broken \in Nat /\ Others \in Int
    BY <1>1, BudgetTyped DEF BudgetInv, Others
  <2>4. Counted(calls, Window) <= p.budget + faults + broken + Others
    BY <2>2, <2>3
  <2>5. QED BY <2>1, <2>4 DEF BudgetRespected, Others
<1>2. QED BY <1>1, BreakerBudgetInvariant, BreakerAssumption, PTL

-----------------------------------------------------------------------------
(* The reports of Rollout: what a request has passed over and found.       *)

Pass == {"pre", "man", "sync"} \cup Tables
CredentialView == [Services -> [missing : SUBSET Keys, present : SUBSET Keys]]
View == CredentialView \cup (SUBSET ImportFiles) \cup {"synced", "absent", "unknown", "enough", "short"}

RolloutTyped ==
  /\ RolloutTypeOK
  /\ todo \in [Callers -> SUBSET Services]
  /\ passes \in [Callers -> Seq(Pass)]
  /\ views \in [Callers -> Seq(View)]
  /\ answer = [c \in Callers |-> answer[c]]
  /\ IsFiniteSet(registry)

InPass(c) == place[c] \in {"missing", "present", "write"}

(* p is what remains of the passes of a after n of them. *)
Remains(p, a, n) ==
  /\ Len(p) + n = Len(Passes(a))
  /\ \A i \in 1..Len(p) : p[i] = Passes(a)[i + n]

(* A request has found as much as it has passed over; a persistence report *)
(* that could not tell whether a table exists has found nothing.           *)
Along(c) ==
  /\ place[c] = "idle" => views[c] = <<>>
  /\ place[c] = "next" =>
       \/ Remains(passes[c], asked[c], Len(views[c]))
       \/ asked[c].kind = "persistence" /\ passes[c] = <<>> /\ views[c] = <<>>
  /\ InPass(c) =>
       /\ views[c] # <<>> /\ Remains(passes[c], asked[c], Len(views[c]) - 1)
       /\ passes[c] # <<>> /\ Head(passes[c]) = "pre"
       /\ views[c][Len(views[c])] \in CredentialView
       /\ todo[c] \subseteq Chosen(asked[c])

Shape == RolloutTyped /\ \A c \in Callers : Along(c)

LEMMA FiniteSubset ==
  ASSUME NEW S, IsFiniteSet(S), NEW T, T \subseteq S
  PROVE  IsFiniteSet(T) /\ Cardinality(T) \in Nat
BY FS_Subset, FS_CardinalityType

LEMMA ServicesFinite == IsFiniteSet(Services) /\ Cardinality(Services) \in Nat
<1>1. Catalog \in Seq(Services) /\ Services = {Catalog[i] : i \in DOMAIN Catalog}
  BY RolloutAssumption DEF Services, ToSet
<1>2. Len(Catalog) \in Nat /\ DOMAIN Catalog = 1..Len(Catalog)
      /\ Catalog \in [1..Len(Catalog) -> Services]
  BY <1>1
<1>3. Catalog \in Surjection(1..Len(Catalog), Services)
  BY <1>1, <1>2 DEF Surjection
<1>4. IsFiniteSet(1..Len(Catalog))
  BY <1>2, FS_Interval
<1>5. IsFiniteSet(Services)
  BY <1>3, <1>4, FS_Surjection
<1>6. QED BY <1>5, FS_CardinalityType

(* The rows of one service and tenant. *)
RowsOf(t, s) == {r \in Rows : r[1] = t /\ r[2] = s}

LEMMA RowsFinite ==
  ASSUME NEW t, NEW s
  PROVE  IsFiniteSet(RowsOf(t, s))
<1> DEFINE all == {<<t, s, k>> : k \in Keys}
           f == [k \in Keys |-> <<t, s, k>>]
<1>1. f \in Surjection(Keys, all)
  BY DEF Surjection
<1>2. IsFiniteSet(all)
  <2> HIDE DEF f, all
  <2>1. IsFiniteSet(Keys)
    BY RolloutAssumption
  <2>2. QED BY <1>1, <2>1, FS_Surjection
<1>3. RowsOf(t, s) \subseteq all
  BY DEF RowsOf, Rows
<1>4. QED
  <2> HIDE DEF all
  <2>1. QED BY <1>2, <1>3, FiniteSubset

LEMMA ConstantsTyped ==
  /\ MaxRequests \in Nat /\ MaxTroubles \in Nat /\ Default \in Tenants /\ IsFiniteSet(Keys)
  /\ \A c \in Callers : Requests[c] \subseteq Request
  /\ \A s \in Services, found \in SUBSET Keys : Missing(s, found) \subseteq Keys
  /\ \A s, found : Present(s, found) \subseteq found
BY RolloutAssumption, MissingAssumption DEF Present

LEMMA PassesTyped ==
  ASSUME NEW a \in Request
  PROVE  /\ Passes(a) \in Seq(Pass)
         /\ a.kind = "persistence" => Passes(a) = TableOrder
         /\ a.kind = "bundle" => Passes(a) = <<"pre", "man", "pre", "man", "pre", "man">>
         /\ a.kind = "sync" => Passes(a) = <<"sync">>
         /\ ~(a.kind \in {"sync", "persistence"}) => Passes(a) # <<>> /\ Passes(a)[1] = "pre"
         /\ a.kind # "persistence" => \A i \in 1..Len(Passes(a)) : Passes(a)[i] \in {"pre", "man", "sync"}
<1>1. a.kind \in Kinds
  BY DEF Request
<1>2. \A i \in 1..5 : TableOrder[i] \in Tables
  BY DEF Tables, TableOrder, ToSet
<1>3. TableOrder \in Seq(Pass)
  BY <1>2 DEF TableOrder, Pass
<1>4. {"pre", "man", "sync"} \subseteq Pass
  BY DEF Pass
<1>5. CASE a.kind = "persistence"
  BY <1>3, <1>5 DEF Passes
<1>6. CASE a.kind \in {"validate", "preflight", "matrix"}
  BY <1>4, <1>6 DEF Passes
<1>7. CASE a.kind \in {"readiness", "deployment", "bundle", "sync"}
  BY <1>4, <1>7 DEF Passes
<1>8. QED BY <1>1, <1>5, <1>6, <1>7 DEF Kinds

LEMMA TablesListed ==
  /\ DOMAIN TableOrder = 1..5 /\ Len(TableOrder) = 5
  /\ \A i \in 1..5 : TableOrder[i] \in Tables
  /\ \A table \in Tables : \E i \in 1..5 : table = TableOrder[i]
  /\ Tables = {"connector_registry", "connector_credentials_meta", "connector_execution_log",
               "workflow_templates", "smoke_test_results"}
BY DEF Tables, TableOrder, ToSet

LEMMA ChosenTyped ==
  ASSUME NEW a \in Request
  PROVE  Chosen(a) \subseteq Services
BY DEF Chosen, Request

(* One pass less remains after one more. *)
LEMMA RemainsLess ==
  ASSUME NEW a \in Request, NEW p \in Seq(Pass), p # <<>>, NEW n \in Nat, Remains(p, a, n)
  PROVE  /\ Tail(p) \in Seq(Pass) /\ Remains(Tail(p), a, n + 1)
         /\ Head(p) = Passes(a)[n + 1] /\ Head(p) \in Pass /\ n + 1 \in 1..Len(Passes(a))
<1>1. Passes(a) \in Seq(Pass) /\ Len(Passes(a)) \in Nat /\ Len(p) \in Nat /\ Len(p) > 0
  BY PassesTyped
<1>2. Tail(p) \in Seq(Pass) /\ Len(Tail(p)) = Len(p) - 1
      /\ \A i \in 1..Len(Tail(p)) : Tail(p)[i] = p[i + 1]
  BY <1>1
<1>3. \A i \in 1..Len(Tail(p)) : Tail(p)[i] = Passes(a)[i + (n + 1)]
  <2> TAKE i \in 1..Len(Tail(p))
  <2>1. i + 1 \in 1..Len(p) /\ (i + 1) + n = i + (n + 1)
    BY <1>1, <1>2
  <2>2. QED BY <1>2, <2>1 DEF Remains
<1>4. Head(p) = p[1] /\ 1 \in 1..Len(p)
  BY <1>1
<1>5. 1 + n = n + 1 /\ n + 1 \in 1..Len(Passes(a))
  BY <1>1 DEF Remains
<1>6. QED BY <1>1, <1>2, <1>3, <1>4, <1>5 DEF Remains

LEMMA ShapeInit == RolloutInit => Shape
<1> SUFFICES ASSUME RolloutInit PROVE Shape
  OBVIOUS
<1>1. IsFiniteSet({Default} \X Services) /\ IsFiniteSet({})
  BY ServicesFinite, FS_Product, FS_Singleton, FS_EmptySet
<1>2. IsFiniteSet(registry) /\ registry \subseteq Tenants \X Services
  BY <1>1, ConstantsTyped DEF RolloutInit
<1>3. Nothing \in Request
  BY ConstantsTyped DEF Nothing, Request, Kinds
<1>4. secret \subseteq Keys /\ files \subseteq ImportFiles
  BY RolloutAssumption DEF RolloutInit
<1>5. migrated \subseteq Tables /\ filled \subseteq Tables
  BY TablesListed DEF RolloutInit
<1>6. RolloutTypeOK
  BY <1>2, <1>3, <1>4, <1>5, ConstantsTyped DEF RolloutInit, RolloutTypeOK
<1>7. RolloutTyped
  BY <1>2, <1>6 DEF RolloutInit, RolloutTyped
<1>8. QED BY <1>7 DEF RolloutInit, Shape, Along, InPass

(* What a step of another caller, or of the world, leaves of a request.    *)
LEMMA AlongKept ==
  ASSUME NEW d \in Callers, Along(d), place'[d] = place[d], asked'[d] = asked[d],
         passes'[d] = passes[d], todo'[d] = todo[d], views'[d] = views[d]
  PROVE  Along(d)'
BY DEF Along, InPass, Remains

LEMMA FailingTyped ==
  ASSUME RolloutTypeOK, NEW n \in Nat, Failing(n)
  PROVE  troubles' \in 0..MaxTroubles
BY ConstantsTyped DEF RolloutTypeOK, Failing

LEMMA CalmTyped ==
  ASSUME RolloutTypeOK, NEW c \in Callers, NEW lost, Disturb \/ Lose(c, lost) \/ UNCHANGED <<calm, told>>
  PROVE  calm' \in [Callers -> BOOLEAN] /\ told' \subseteq Tenants
BY DEF RolloutTypeOK, Disturb, Lose

LEMMA ShapeByBegin ==
  ASSUME Shape, NEW c \in Callers, NEW a \in Requests[c], BeginReport(c, a)
  PROVE  Shape'
<1> USE DEF Shape
<1>1. a \in Request /\ Passes(a) \in Seq(Pass)
  BY ConstantsTyped, PassesTyped
<1>2. RolloutTypeOK'
  BY <1>1, ConstantsTyped DEF BeginReport, RolloutTyped, RolloutTypeOK, world, database
<1>3. RolloutTyped'
  BY <1>1, <1>2 DEF BeginReport, RolloutTyped, RolloutTypeOK, database
<1>4. Along(c)'
  <2>1. place'[c] = "next" /\ asked'[c] = a /\ passes'[c] = Passes(a) /\ views'[c] = <<>>
    BY DEF BeginReport, RolloutTyped, RolloutTypeOK, Along
  <2>2. Remains(Passes(a), a, 0)
    BY <1>1 DEF Remains
  <2>3. QED BY <2>1, <2>2 DEF Along, InPass, Remains
<1>5. ASSUME NEW d \in Callers \ {c} PROVE Along(d)'
  BY <1>5, AlongKept DEF BeginReport, RolloutTyped, RolloutTypeOK
<1>6. QED BY <1>3, <1>4, <1>5

LEMMA ShapeByBeginPass ==
  ASSUME Shape, NEW c \in Callers, BeginPass(c)
  PROVE  Shape'
<1> USE DEF Shape
<1> DEFINE unread == [s \in Services |-> Unread]
<1>1. asked[c] \in Request /\ passes[c] \in Seq(Pass) /\ views[c] \in Seq(View)
  BY DEF RolloutTyped, RolloutTypeOK
<1>2. unread \in CredentialView /\ unread \in View
  BY DEF CredentialView, View, Unread
<1>3. RolloutTypeOK'
  BY DEF BeginPass, RolloutTyped, RolloutTypeOK, world, database
<1>4. views'[c] = Append(views[c], unread) /\ todo'[c] = Chosen(asked[c])
      /\ place'[c] = "missing" /\ passes'[c] = passes[c] /\ asked'[c] = asked[c]
  BY DEF BeginPass, RolloutTyped, RolloutTypeOK
<1>5. RolloutTyped'
  BY <1>1, <1>2, <1>3, ChosenTyped DEF BeginPass, RolloutTyped, database
<1>6. Along(c)'
  <2>1. Remains(passes[c], asked[c], Len(views[c])) /\ passes[c] # <<>> /\ Head(passes[c]) = "pre"
    BY DEF BeginPass, Along
  <2>2. views'[c] # <<>> /\ Len(views'[c]) - 1 = Len(views[c]) /\ views'[c][Len(views'[c])] = unread
    BY <1>1, <1>2, <1>4
  <2>3. QED BY <1>2, <1>4, <2>1, <2>2 DEF Along, InPass, Remains
<1>7. ASSUME NEW d \in Callers \ {c} PROVE Along(d)'
  BY <1>7, AlongKept DEF BeginPass, RolloutTyped, RolloutTypeOK
<1>8. QED BY <1>5, <1>6, <1>7

LEMMA ShapeByReadMissing ==
  ASSUME Shape, NEW c \in Callers, NEW s \in Services, NEW failing \in SUBSET Keys,
         ReadMissing(c, s, failing)
  PROVE  Shape'
<1> USE DEF Shape
<1>1. Missing(s, secret \ failing) \subseteq Keys
  BY ConstantsTyped DEF RolloutTyped, RolloutTypeOK
<1>2. troubles' \in 0..MaxTroubles
  BY FailingTyped, FiniteSubset, ConstantsTyped DEF ReadMissing, RolloutTyped
<1>3. calm' \in [Callers -> BOOLEAN] /\ told' \subseteq Tenants
  BY CalmTyped DEF ReadMissing, RolloutTyped
<1>4. RolloutTypeOK'
  BY <1>1, <1>2, <1>3 DEF ReadMissing, RolloutTyped, RolloutTypeOK, world, database
<1>5. RolloutTyped'
  BY <1>4 DEF ReadMissing, RolloutTyped, database
<1>6. Along(c)'
  BY DEF ReadMissing, RolloutTyped, RolloutTypeOK, Along, InPass, Remains
<1>7. ASSUME NEW d \in Callers \ {c} PROVE Along(d)'
  BY <1>7, AlongKept DEF ReadMissing, RolloutTyped, RolloutTypeOK
<1>8. QED BY <1>5, <1>6, <1>7

(* Going on after a service keeps a request in shape. *)
LEMMA ProceedAlong ==
  ASSUME Shape, NEW c \in Callers, NEW s \in Services, Proceed(c, s), InPass(c),
         asked' = asked, views'[c] \in Seq(View), Len(views'[c]) = Len(views[c]),
         views'[c][Len(views[c])] \in CredentialView
  PROVE  /\ todo' \in [Callers -> SUBSET Services] /\ passes' \in [Callers -> Seq(Pass)]
         /\ place' \in [Callers -> {"idle", "next", "missing", "present", "write"}]
         /\ Along(c)'
<1> USE DEF Shape
<1>1. asked[c] \in Request /\ passes[c] \in Seq(Pass) /\ views[c] \in Seq(View)
      /\ Len(views[c]) \in Nat /\ Len(views[c]) > 0
  BY DEF RolloutTyped, RolloutTypeOK, Along
<1>2. passes[c] # <<>> /\ Remains(passes[c], asked[c], Len(views[c]) - 1) /\ todo[c] \subseteq Chosen(asked[c])
  BY DEF Along
<1>3. Tail(passes[c]) \in Seq(Pass) /\ Remains(Tail(passes[c]), asked[c], Len(views[c]))
  <2>1. Len(views[c]) - 1 \in Nat /\ (Len(views[c]) - 1) + 1 = Len(views[c])
    BY <1>1
  <2>2. QED BY <1>1, <1>2, <2>1, RemainsLess
<1>4. todo' \in [Callers -> SUBSET Services] /\ passes' \in [Callers -> Seq(Pass)]
      /\ place' \in [Callers -> {"idle", "next", "missing", "present", "write"}]
  BY <1>3 DEF Proceed, RolloutTyped, RolloutTypeOK
<1>5. todo'[c] \subseteq todo[c] /\ views'[c] # <<>>
  BY <1>1 DEF Proceed, RolloutTyped
<1>6. CASE todo[c] # {s}
  <2>1. place'[c] = "missing" /\ passes'[c] = passes[c]
    BY <1>6 DEF Proceed, RolloutTyped, RolloutTypeOK
  <2>2. Head(passes[c]) = "pre"
    BY DEF Along
  <2>3. QED BY <1>2, <1>4, <1>5, <2>1, <2>2 DEF Along, InPass, Remains
<1>7. CASE todo[c] = {s}
  <2>1. place'[c] = "next" /\ passes'[c] = Tail(passes[c])
    BY <1>7 DEF Proceed, RolloutTyped, RolloutTypeOK
  <2>2. QED BY <1>3, <1>4, <2>1 DEF Along, InPass, Remains
<1>8. QED BY <1>4, <1>6, <1>7

(* What ReadPresent has found of the service. *)
Sees(c, s, found) ==
  views' = [views EXCEPT ![c][Len(views[c])][s] =
              [missing |-> missing[c], present |-> Present(s, found)]]

LEMMA SeenService ==
  ASSUME Shape, NEW c \in Callers, NEW s \in Services, NEW found \in SUBSET Keys, InPass(c),
         Sees(c, s, found)
  PROVE  /\ views' \in [Callers -> Seq(View)] /\ Len(views'[c]) = Len(views[c])
         /\ \A d \in Callers \ {c} : views'[d] = views[d]
         /\ \A i \in 1..Len(views[c]) : i # Len(views[c]) => views'[c][i] = views[c][i]
         /\ views'[c][Len(views[c])] \in CredentialView
         /\ views'[c][Len(views[c])][s] = [missing |-> missing[c], present |-> Present(s, found)]
         /\ \A q \in Services \ {s} : views'[c][Len(views[c])][q] = views[c][Len(views[c])][q]
<1> DEFINE v == views[c]
           n == Len(v)
           seen == [missing |-> missing[c], present |-> Present(s, found)]
           last == [v[n] EXCEPT ![s] = seen]
           new == [v EXCEPT ![n] = last]
<1>1. v \in Seq(View) /\ n \in Nat /\ n \in 1..n /\ v[n] \in CredentialView
  BY DEF Shape, RolloutTyped, Along
<1>2. seen \in [missing : SUBSET Keys, present : SUBSET Keys]
  BY ConstantsTyped DEF Shape, RolloutTyped, RolloutTypeOK
<1>3. last \in CredentialView /\ last[s] = seen /\ \A q \in Services \ {s} : last[q] = v[n][q]
  BY <1>1, <1>2 DEF CredentialView
<1>4. views' = [views EXCEPT ![c] = new]
  BY DEF Sees
<1>5. views'[c] = new /\ \A d \in Callers \ {c} : views'[d] = views[d]
  BY <1>4 DEF Shape, RolloutTyped
<1>6. last \in View
  BY <1>3 DEF View
<1>7. new \in Seq(View) /\ Len(new) = n /\ new[n] = last
      /\ \A i \in 1..n : i # n => new[i] = v[i]
  <2> HIDE DEF last
  <2>1. QED BY <1>1, <1>6
<1>8. views' \in [Callers -> Seq(View)]
  <2> HIDE DEF new
  <2>1. QED BY <1>4, <1>7 DEF Shape, RolloutTyped
<1>9. QED BY <1>3, <1>5, <1>7, <1>8

LEMMA ShapeByReadPresent ==
  ASSUME Shape, NEW c \in Callers, NEW s \in Services, NEW failing \in SUBSET Keys,
         ReadPresent(c, s, failing)
  PROVE  Shape'
<1> USE DEF Shape
<1>0. InPass(c) /\ secret \ failing \in SUBSET Keys
  BY DEF ReadPresent, InPass, RolloutTyped, RolloutTypeOK
<1>1. /\ views' \in [Callers -> Seq(View)] /\ Len(views'[c]) = Len(views[c])
      /\ \A d \in Callers \ {c} : views'[d] = views[d]
      /\ views'[c][Len(views[c])] \in CredentialView
  <2>1. Sees(c, s, secret \ failing)
    BY DEF ReadPresent, Sees
  <2> HIDE DEF Shape
  <2>2. QED BY <1>0, <2>1, SeenService
<1>2. troubles' \in 0..MaxTroubles
  BY FailingTyped, FiniteSubset, ConstantsTyped DEF ReadPresent, RolloutTyped
<1>3. calm' \in [Callers -> BOOLEAN] /\ told' \subseteq Tenants
  BY CalmTyped DEF ReadPresent, RolloutTyped
<1>4. asked' = asked /\ views'[c] \in Seq(View)
  BY <1>1 DEF ReadPresent
<1>5. /\ todo' \in [Callers -> SUBSET Services] /\ passes' \in [Callers -> Seq(Pass)]
      /\ place' \in [Callers -> {"idle", "next", "missing", "present", "write"}]
      /\ Along(c)'
  <2>1. CASE asked[c].persist
    <3>1. place' = [place EXCEPT ![c] = "write"] /\ passes' = passes /\ todo' = todo
      BY <2>1 DEF ReadPresent
    <3>2. views'[c] # <<>> /\ place'[c] = "write"
      BY <1>1, <3>1 DEF Along, InPass, ReadPresent, RolloutTyped, RolloutTypeOK
    <3>3. Along(c)'
      BY <1>0, <1>1, <1>4, <3>1, <3>2 DEF Along, InPass, Remains
    <3>4. QED BY <3>1, <3>3 DEF RolloutTyped, RolloutTypeOK
  <2>2. CASE ~asked[c].persist
    <3>1. Proceed(c, s)
      BY <2>2 DEF ReadPresent
    <3>2. QED BY <1>0, <1>1, <1>4, <3>1, ProceedAlong
  <2>3. QED BY <2>1, <2>2
<1>6. missing' \in [Callers -> SUBSET Keys]
  BY DEF ReadPresent, RolloutTyped, RolloutTypeOK
<1>7. RolloutTypeOK'
  BY <1>2, <1>3, <1>5, <1>6 DEF ReadPresent, RolloutTyped, RolloutTypeOK, world, database
<1>8. RolloutTyped'
  BY <1>1, <1>5, <1>7 DEF ReadPresent, RolloutTyped, database
<1>9. ASSUME NEW d \in Callers \ {c} PROVE Along(d)'
  <2>1. place'[d] = place[d] /\ passes'[d] = passes[d] /\ todo'[d] = todo[d]
    BY DEF ReadPresent, Proceed, RolloutTyped, RolloutTypeOK
  <2>2. QED BY <1>1, <1>4, <2>1, AlongKept
<1>10. QED BY <1>5, <1>8, <1>9

LEMMA ShapeByWriteMeta ==
  ASSUME Shape, NEW c \in Callers, NEW s \in Services, NEW lost \in SUBSET Rows, WriteMeta(c, s, lost)
  PROVE  Shape'
<1> USE DEF Shape
<1>1. InPass(c) /\ views'[c] \in Seq(View) /\ views' = views /\ asked' = asked
      /\ views'[c][Len(views[c])] \in CredentialView /\ Proceed(c, s)
  BY DEF WriteMeta, InPass, RolloutTyped, Along
<1>2. /\ todo' \in [Callers -> SUBSET Services] /\ passes' \in [Callers -> Seq(Pass)]
      /\ place' \in [Callers -> {"idle", "next", "missing", "present", "write"}]
      /\ Along(c)'
  BY <1>1, ProceedAlong
<1>3. troubles' \in 0..MaxTroubles
  <2>1. IsFiniteSet(RowsOf(asked[c].tenant, s))
    BY RowsFinite
  <2>2. lost \subseteq RowsOf(asked[c].tenant, s)
    BY DEF WriteMeta, RowsOf
  <2>3. Cardinality(lost) \in Nat
    BY <2>1, <2>2, FiniteSubset
  <2>4. QED BY <2>3, FailingTyped DEF WriteMeta, RolloutTyped
<1>4. calm' \in [Callers -> BOOLEAN] /\ told' \subseteq Tenants
  BY CalmTyped DEF WriteMeta, RolloutTyped
<1>5. meta' \in [Rows -> {"none", "yes", "no"}]
  BY DEF WriteMeta, Row, RolloutTyped, RolloutTypeOK
<1>6. RolloutTypeOK'
  BY <1>2, <1>3, <1>4, <1>5 DEF WriteMeta, RolloutTyped, RolloutTypeOK, world
<1>7. RolloutTyped'
  BY <1>2, <1>6 DEF WriteMeta, RolloutTyped
<1>8. ASSUME NEW d \in Callers \ {c} PROVE Along(d)'
  <2>1. place'[d] = place[d] /\ passes'[d] = passes[d] /\ todo'[d] = todo[d]
    BY <1>1 DEF Proceed, RolloutTyped, RolloutTypeOK
  <2>2. QED BY <1>1, <2>1, AlongKept
<1>9. QED BY <1>2, <1>7, <1>8

(* What a request at its next pass still has to do. *)
LEMMA NextPass ==
  ASSUME Shape, NEW c \in Callers, place[c] = "next", passes[c] # <<>>
  PROVE  /\ asked[c] \in Request /\ views[c] \in Seq(View) /\ Len(views[c]) \in Nat
         /\ Remains(passes[c], asked[c], Len(views[c]))
         /\ Head(passes[c]) = Passes(asked[c])[Len(views[c]) + 1]
         /\ Len(views[c]) + 1 \in 1..Len(Passes(asked[c]))
         /\ Tail(passes[c]) \in Seq(Pass) /\ Remains(Tail(passes[c]), asked[c], Len(views[c]) + 1)
         /\ Head(passes[c]) \in Tables =>
              asked[c].kind = "persistence" /\ Head(passes[c]) = TableOrder[Len(views[c]) + 1]
         /\ views[c] = <<>> /\ ~(asked[c].kind \in {"sync", "persistence"}) => Head(passes[c]) = "pre"
<1>1. asked[c] \in Request /\ passes[c] \in Seq(Pass) /\ views[c] \in Seq(View)
  BY DEF Shape, RolloutTyped, RolloutTypeOK
<1>2. Len(views[c]) \in Nat /\ Remains(passes[c], asked[c], Len(views[c]))
  BY <1>1 DEF Shape, Along
<1>3. /\ Tail(passes[c]) \in Seq(Pass) /\ Remains(Tail(passes[c]), asked[c], Len(views[c]) + 1)
      /\ Head(passes[c]) = Passes(asked[c])[Len(views[c]) + 1]
      /\ Len(views[c]) + 1 \in 1..Len(Passes(asked[c]))
  BY <1>1, <1>2, RemainsLess
<1>4. ASSUME asked[c].kind # "persistence" PROVE Head(passes[c]) \notin Tables
  <2>1. Head(passes[c]) \in {"pre", "man", "sync"}
    BY <1>1, <1>3, <1>4, PassesTyped
  <2>2. QED BY <2>1, TablesListed
<1>5. asked[c].kind = "persistence" => Head(passes[c]) = TableOrder[Len(views[c]) + 1]
  BY <1>1, <1>3, PassesTyped
<1>6. views[c] = <<>> => Len(views[c]) + 1 = 1
  OBVIOUS
<1>7. QED BY <1>1, <1>2, <1>3, <1>4, <1>5, <1>6, PassesTyped

LEMMA ShapeByEndPass ==
  ASSUME Shape, NEW c \in Callers, place[c] = "next", passes[c] # <<>>, NEW view \in View,
         EndPass(c, view)
  PROVE  /\ passes' \in [Callers -> Seq(Pass)] /\ views' \in [Callers -> Seq(View)]
         /\ views'[c] = Append(views[c], view)
         /\ \A d \in Callers : Along(d)'
<1> USE DEF Shape
<1>1. /\ views[c] \in Seq(View) /\ Len(views[c]) \in Nat
      /\ Tail(passes[c]) \in Seq(Pass) /\ Remains(Tail(passes[c]), asked[c], Len(views[c]) + 1)
  BY NextPass
<1>2. /\ passes'[c] = Tail(passes[c]) /\ views'[c] = Append(views[c], view)
      /\ place' = place /\ asked' = asked
  BY DEF EndPass, RolloutTyped
<1>3. passes' \in [Callers -> Seq(Pass)] /\ views' \in [Callers -> Seq(View)]
  BY <1>1 DEF EndPass, RolloutTyped
<1>4. Len(views'[c]) = Len(views[c]) + 1
  BY <1>1, <1>2
<1>5. Along(c)'
  BY <1>1, <1>2, <1>4 DEF Along, InPass, Remains
<1>6. ASSUME NEW d \in Callers \ {c} PROVE Along(d)'
  BY <1>6, AlongKept DEF EndPass, RolloutTyped, RolloutTypeOK
<1>7. QED BY <1>2, <1>3, <1>5, <1>6

LEMMA ShapeByManifest ==
  ASSUME Shape, NEW c \in Callers, Manifest(c)
  PROVE  Shape'
<1> USE DEF Shape
<1>1. files \in View
  BY DEF View, RolloutTyped, RolloutTypeOK
<1>2. /\ passes' \in [Callers -> Seq(Pass)] /\ views' \in [Callers -> Seq(View)]
      /\ \A d \in Callers : Along(d)'
  BY <1>1, ShapeByEndPass DEF Manifest
<1>3. RolloutTypeOK'
  BY DEF Manifest, EndPass, RolloutTyped, RolloutTypeOK, world, database
<1>4. QED BY <1>2, <1>3 DEF Manifest, EndPass, RolloutTyped, database

LEMMA ShapeBySync ==
  ASSUME Shape, NEW c \in Callers, NEW lost \in SUBSET Services, Sync(c, lost)
  PROVE  Shape'
<1> USE DEF Shape
<1>1. /\ passes' \in [Callers -> Seq(Pass)] /\ views' \in [Callers -> Seq(View)]
      /\ \A d \in Callers : Along(d)'
  <2>1. "synced" \in View
    BY DEF View
  <2>2. QED BY <2>1, ShapeByEndPass DEF Sync
<1>2. troubles' \in 0..MaxTroubles
  BY FailingTyped, FiniteSubset, ServicesFinite DEF Sync, RolloutTyped
<1>3. asked[c].tenant \in Tenants
  BY DEF RolloutTyped, RolloutTypeOK, Request
<1>4. registry' \subseteq Tenants \X Services /\ IsFiniteSet(registry')
  <2> DEFINE synced == {asked[c].tenant} \X (Services \ lost)
  <2>1. synced \subseteq Tenants \X Services
    BY <1>3
  <2>2. IsFiniteSet(Services \ lost) /\ IsFiniteSet({asked[c].tenant})
    BY ServicesFinite, FiniteSubset, FS_Singleton
  <2>3. IsFiniteSet(synced)
    BY <2>2, FS_Product
  <2>4. registry' \in {registry, registry \cup synced}
    BY DEF Sync
  <2> HIDE DEF synced
  <2>5. IsFiniteSet(registry \cup synced)
    BY <2>3, FS_Union DEF RolloutTyped
  <2>6. QED BY <2>1, <2>4, <2>5 DEF RolloutTyped, RolloutTypeOK
<1>5. RolloutTypeOK'
  BY <1>2, <1>4 DEF Sync, EndPass, RolloutTyped, RolloutTypeOK, world
<1>6. QED BY <1>1, <1>4, <1>5 DEF Sync, EndPass, RolloutTyped

LEMMA ShapeByReadTable ==
  ASSUME Shape, NEW c \in Callers, NEW outcome \in {"read", "count", "exists"}, ReadTable(c, outcome)
  PROVE  Shape'
<1> USE DEF Shape
<1> DEFINE table == Head(passes[c])
           view == IF table \notin migrated THEN "absent" ELSE IF outcome = "count" THEN "unknown"
                   ELSE IF Enough(table) THEN "enough" ELSE "short"
<1>1. /\ passes' \in [Callers -> Seq(Pass)] /\ views' \in [Callers -> Seq(View)]
      /\ \A d \in Callers : Along(d)'
  <2>1. CASE outcome = "exists"
    <3>1. asked[c].kind = "persistence" /\ place[c] = "next"
      BY NextPass DEF ReadTable
    <3>2. passes' = [passes EXCEPT ![c] = <<>>] /\ views' = [views EXCEPT ![c] = <<>>]
          /\ place' = place /\ asked' = asked /\ todo' = todo
      BY <2>1 DEF ReadTable
    <3>3. Along(c)'
      BY <3>1, <3>2 DEF Along, InPass, RolloutTyped
    <3>4. ASSUME NEW d \in Callers \ {c} PROVE Along(d)'
      BY <3>2, <3>4, AlongKept DEF RolloutTyped
    <3>5. QED BY <3>2, <3>3, <3>4 DEF RolloutTyped
  <2>2. CASE outcome # "exists"
    <3>1. view \in View
      BY DEF View
    <3>2. EndPass(c, view) /\ place[c] = "next" /\ passes[c] # <<>>
      BY <2>2 DEF ReadTable
    <3>3. QED BY <3>1, <3>2, ShapeByEndPass
  <2>3. QED BY <2>1, <2>2
<1>2. troubles' \in 0..MaxTroubles
  BY FailingTyped DEF ReadTable, RolloutTyped
<1>3. RolloutTypeOK' /\ answer' = answer /\ registry' = registry /\ todo' = todo
  BY <1>2 DEF ReadTable, EndPass, RolloutTyped, RolloutTypeOK, world, database
<1>4. QED BY <1>1, <1>3 DEF RolloutTyped

LEMMA ShapeByAnswer ==
  ASSUME Shape, NEW c \in Callers, NEW lost \in BOOLEAN, Answer(c, lost)
  PROVE  Shape'
<1> USE DEF Shape
<1>1. Nothing \in Request /\ asked[c].tenant \in Tenants
  BY ConstantsTyped DEF Nothing, Request, Kinds, RolloutTyped, RolloutTypeOK
<1>2. troubles' \in 0..MaxTroubles
  BY FailingTyped DEF Answer, RolloutTyped
<1>3. filled' \subseteq Tables
  BY TablesListed DEF Answer, Logged, RolloutTyped, RolloutTypeOK
<1>4. RolloutTypeOK'
  BY <1>1, <1>2, <1>3 DEF Answer, RolloutTyped, RolloutTypeOK, world
<1>5. RolloutTyped'
  <2>1. answer' = [answer EXCEPT ![c] = Report(c)] /\ views' = [views EXCEPT ![c] = <<>>]
        /\ passes' = passes /\ todo' = todo /\ registry' = registry
    BY DEF Answer
  <2>2. answer' = [d \in Callers |-> answer'[d]]
    BY <2>1 DEF RolloutTyped
  <2>3. QED BY <1>4, <2>1, <2>2 DEF RolloutTyped
<1>6. Along(c)'
  BY DEF Answer, RolloutTyped, RolloutTypeOK, Along, InPass
<1>7. ASSUME NEW d \in Callers \ {c} PROVE Along(d)'
  BY <1>7, AlongKept DEF Answer, RolloutTyped, RolloutTypeOK
<1>8. QED BY <1>5, <1>6, <1>7

(* What happens to the tables, the credentials and the files by itself. *)
Elsewhere ==
  \/ \E table \in {"workflow_templates", "smoke_test_results"} :
       \E lost \in SUBSET Tables : Exercise(table, lost)
  \/ \E k \in Keys : ChangeSecret(k)
  \/ \E f \in ImportFiles : ChangeFile(f)
  \/ Migrate
  \/ \E table \in Retained : CleanUp(table)

LEMMA ShapeByOthers ==
  ASSUME Shape, Elsewhere
  PROVE  Shape'
<1> USE DEF Shape
<1>1. UNCHANGED local /\ registry' = registry
  BY DEF Elsewhere, Exercise, ChangeSecret, ChangeFile, Migrate, CleanUp, Change
<1>2. troubles' \in 0..MaxTroubles
  <2>1. ASSUME NEW table, NEW lost, Exercise(table, lost)
        PROVE  troubles' \in 0..MaxTroubles
    <3>1. IsFiniteSet({table, "connector_execution_log"})
      <4>1. IsFiniteSet({table} \cup {"connector_execution_log"})
        BY FS_Singleton, FS_Union
      <4>2. {table} \cup {"connector_execution_log"} = {table, "connector_execution_log"}
        OBVIOUS
      <4>3. QED BY <4>1, <4>2
    <3>2. QED BY <2>1, <3>1, FiniteSubset, FailingTyped DEF Exercise, RolloutTyped
  <2>2. CASE Change
    BY <2>2, ConstantsTyped DEF Change, RolloutTyped, RolloutTypeOK
  <2>3. QED BY <2>1, <2>2 DEF Elsewhere, ChangeSecret, ChangeFile, Migrate, CleanUp
<1>3. requests' \in 0..MaxRequests
  BY ConstantsTyped DEF Elsewhere, Exercise, ChangeSecret, ChangeFile, Migrate, CleanUp, Change,
     RolloutTyped, RolloutTypeOK
<1>4. calm' \in [Callers -> BOOLEAN] /\ told' \subseteq Tenants /\ alone' = alone /\ meta' = meta
  BY DEF Elsewhere, Exercise, ChangeSecret, ChangeFile, Migrate, CleanUp, Change, Disturb,
     RolloutTyped, RolloutTypeOK
<1>10. cleaned' \in [Callers -> SUBSET Retained]
  BY DEF Elsewhere, Exercise, ChangeSecret, ChangeFile, Migrate, CleanUp, RolloutTyped, RolloutTypeOK
<1>5. /\ secret' \subseteq Keys /\ files' \subseteq ImportFiles
      /\ migrated' \subseteq Tables /\ filled' \subseteq Tables
  <2>1. CASE \E table \in {"workflow_templates", "smoke_test_results"} :
               \E lost \in SUBSET Tables : Exercise(table, lost)
    BY <2>1 DEF Exercise, world, RolloutTyped, RolloutTypeOK
  <2>2. CASE \E k \in Keys : ChangeSecret(k)
    BY <2>2 DEF ChangeSecret, RolloutTyped, RolloutTypeOK
  <2>3. CASE \E f \in ImportFiles : ChangeFile(f)
    BY <2>3 DEF ChangeFile, RolloutTyped, RolloutTypeOK
  <2>4. CASE Migrate \/ \E table \in Retained : CleanUp(table)
    BY <2>4 DEF Migrate, CleanUp, world, RolloutTyped, RolloutTypeOK
  <2>5. QED BY <2>1, <2>2, <2>3, <2>4 DEF Elsewhere
<1>6. RolloutTypeOK'
  BY <1>1, <1>2, <1>3, <1>4, <1>5, <1>10 DEF local, RolloutTyped, RolloutTypeOK
<1>7. RolloutTyped'
  BY <1>1, <1>6 DEF local, RolloutTyped
<1>8. ASSUME NEW d \in Callers PROVE Along(d)'
  BY <1>1, AlongKept DEF local
<1>9. QED BY <1>7, <1>8

CallerStep(c) ==
  \/ \E a \in Requests[c] : BeginReport(c, a)
  \/ BeginPass(c)
  \/ \E s \in Services, failing \in SUBSET Keys : ReadMissing(c, s, failing) \/ ReadPresent(c, s, failing)
  \/ \E s \in Services, lost \in SUBSET Rows : WriteMeta(c, s, lost)
  \/ Manifest(c)
  \/ \E lost \in SUBSET Services : Sync(c, lost)
  \/ \E outcome \in {"read", "count", "exists"} : ReadTable(c, outcome)
  \/ \E lost \in BOOLEAN : Answer(c, lost)

LEMMA StepsOfRollout ==
  ASSUME Shape, RolloutNext
  PROVE  Elsewhere \/ \E c \in Callers : CallerStep(c)
<1>1. ASSUME NEW c, NEW s, IsNext(c, s) PROVE s \in Services
  BY <1>1 DEF IsNext, Services, ToSet
<1>2. ASSUME NEW c \in Callers, NEW s \in todo[c], NEW failing \in SUBSET (KeysOf(s) \cap secret),
             ReadMissing(c, s, failing) \/ ReadPresent(c, s, failing)
      PROVE  CallerStep(c)
  <2>1. s \in Services /\ failing \in SUBSET Keys
    BY <1>1, <1>2 DEF ReadMissing, ReadPresent, Shape, RolloutTyped, RolloutTypeOK
  <2>2. QED BY <1>2, <2>1 DEF CallerStep
<1>3. ASSUME NEW c \in Callers, NEW s \in todo[c], NEW lost \in SUBSET {r \in Rows : r[2] = s},
             WriteMeta(c, s, lost)
      PROVE  CallerStep(c)
  <2>1. s \in Services /\ lost \in SUBSET Rows
    BY <1>1, <1>3 DEF WriteMeta
  <2>2. QED BY <1>3, <2>1 DEF CallerStep
<1>4. ASSUME NEW table \in {"workflow_templates", "smoke_test_results"},
             NEW lost \in SUBSET {table, "connector_execution_log"}, Exercise(table, lost)
      PROVE  Elsewhere
  <2>1. lost \in SUBSET Tables
    BY TablesListed
  <2>2. QED BY <1>4, <2>1 DEF Elsewhere
<1>5. QED BY <1>2, <1>3, <1>4 DEF RolloutNext, Elsewhere, CallerStep

LEMMA ShapeNext == Shape /\ [RolloutNext]_rolloutVars => Shape'
<1> SUFFICES ASSUME Shape, [RolloutNext]_rolloutVars PROVE Shape'
  OBVIOUS
<1>1. CASE UNCHANGED rolloutVars
  <2>1. UNCHANGED <<secret, files, migrated, meta, registry, filled, place, asked, passes, todo,
                    missing, views, answer, requests, troubles, calm, alone, told, cleaned>>
    BY <1>1 DEF rolloutVars, world, database, local
  <2>2. RolloutTyped'
    BY <2>1 DEF Shape, RolloutTyped, RolloutTypeOK
  <2>3. QED BY <2>1, <2>2, AlongKept DEF Shape
<1>2. CASE Elsewhere
  BY <1>2, ShapeByOthers
<1>3. ASSUME NEW c \in Callers, CallerStep(c) PROVE Shape'
  BY <1>3, ShapeByBegin, ShapeByBeginPass, ShapeByReadMissing, ShapeByReadPresent,
     ShapeByWriteMeta, ShapeByManifest, ShapeBySync, ShapeByReadTable, ShapeByAnswer DEF CallerStep
<1>4. QED BY <1>1, <1>2, <1>3, StepsOfRollout

-----------------------------------------------------------------------------
(* What a persistence report has found.                                    *)

(* What it took for enough is enough still, or was cleaned since.          *)
Filled(c, table) == table \in migrated /\ (Enough(table) \/ table \in cleaned[c])

FoundEnough ==
  \A c \in Callers : place[c] # "idle" /\ asked[c].kind = "persistence" =>
    \A i \in 1..Len(views[c]) : views[c][i] = "enough" => Filled(c, TableOrder[i])

(* Tables stay, and they keep their rows but for those that are cleaned.   *)
LEMMA TablesGrow ==
  ASSUME Shape, Shape', [RolloutNext]_rolloutVars
  PROVE  /\ migrated \subseteq migrated' /\ registry \subseteq registry'
         /\ \A c \in Callers : filled \subseteq filled' \cup cleaned'[c]
         /\ \A r \in Rows : meta[r] # "none" => meta'[r] # "none"
<1>1. CASE UNCHANGED rolloutVars
  BY <1>1 DEF rolloutVars, world, database
<1>2. CASE Elsewhere
  BY <1>2, TablesListed DEF Elsewhere, Exercise, ChangeSecret, ChangeFile, Migrate, CleanUp, Change, world,
     Shape, RolloutTyped, RolloutTypeOK
<1>3. ASSUME NEW c \in Callers,
             \/ \E a \in Requests[c] : BeginReport(c, a)
             \/ BeginPass(c)
             \/ Manifest(c)
             \/ \E outcome \in {"read", "count", "exists"} : ReadTable(c, outcome)
      PROVE  UNCHANGED <<migrated, registry, filled, meta>>
  BY <1>3 DEF BeginReport, BeginPass, Manifest, ReadTable, EndPass, world, database
<1>4. ASSUME NEW c \in Callers, NEW s \in Services, NEW failing \in SUBSET Keys,
             ReadMissing(c, s, failing) \/ ReadPresent(c, s, failing)
      PROVE  UNCHANGED <<migrated, registry, filled, meta>>
  BY <1>4 DEF ReadMissing, ReadPresent, world, database
<1>5. ASSUME NEW c \in Callers, NEW s \in Services, NEW lost \in SUBSET Rows, WriteMeta(c, s, lost)
      PROVE  /\ UNCHANGED <<migrated, registry, filled>>
             /\ \A r \in Rows : meta[r] # "none" => meta'[r] # "none"
  BY <1>5 DEF WriteMeta, Row, world
<1>6. ASSUME NEW c \in Callers, NEW lost \in SUBSET Services, Sync(c, lost)
      PROVE  UNCHANGED <<migrated, filled, meta>> /\ registry \subseteq registry'
  BY <1>6 DEF Sync, EndPass, world
<1>7. ASSUME NEW c \in Callers, NEW lost \in BOOLEAN, Answer(c, lost)
      PROVE  UNCHANGED <<migrated, registry, meta>> /\ filled \subseteq filled'
  BY <1>7 DEF Answer, Logged, world
<1>8. QED BY <1>1, <1>2, <1>3, <1>4, <1>5, <1>6, <1>7, StepsOfRollout DEF CallerStep, Elsewhere

(* What was cleaned since a request began is known until it begins anew.   *)
LEMMA CleanedGrows ==
  ASSUME Shape, [RolloutNext]_rolloutVars, NEW d \in Callers
  PROVE  cleaned[d] \subseteq cleaned'[d] \/ (views'[d] = <<>> /\ answer'[d] = NoAnswer)
<1>1. CASE UNCHANGED rolloutVars
  BY <1>1 DEF rolloutVars
<1>2. CASE Elsewhere
  BY <1>2 DEF Elsewhere, Exercise, ChangeSecret, ChangeFile, Migrate, CleanUp
<1>3. ASSUME NEW c \in Callers, NEW a \in Requests[c], BeginReport(c, a)
      PROVE  cleaned[d] \subseteq cleaned'[d] \/ (views'[d] = <<>> /\ answer'[d] = NoAnswer)
  <2>1. CASE d = c
    BY <1>3, <2>1 DEF BeginReport, Shape, RolloutTyped, Along
  <2>2. CASE d # c
    BY <1>3, <2>2 DEF BeginReport, Shape, RolloutTyped, RolloutTypeOK
  <2>3. QED BY <2>1, <2>2
<1>4. ASSUME NEW c \in Callers,
             \/ BeginPass(c)
             \/ \E s \in Services, failing \in SUBSET Keys : ReadMissing(c, s, failing) \/ ReadPresent(c, s, failing)
             \/ \E s \in Services, lost \in SUBSET Rows : WriteMeta(c, s, lost)
             \/ Manifest(c)
             \/ \E lost \in SUBSET Services : Sync(c, lost)
             \/ \E outcome \in {"read", "count", "exists"} : ReadTable(c, outcome)
             \/ \E lost \in BOOLEAN : Answer(c, lost)
      PROVE  UNCHANGED cleaned
  BY <1>4 DEF BeginPass, ReadMissing, ReadPresent, WriteMeta, Manifest, Sync, ReadTable, Answer
<1>5. QED BY <1>1, <1>2, <1>3, <1>4, StepsOfRollout DEF CallerStep

LEMMA EnoughStays ==
  ASSUME Shape, Shape', [RolloutNext]_rolloutVars, NEW table \in Tables, NEW d \in Callers,
         cleaned[d] \subseteq cleaned'[d]
  PROVE  Filled(d, table) => Filled(d, table)'
<1>0. SUFFICES ASSUME Enough(table) PROVE (Enough(table) \/ table \in cleaned[d])'
  BY TablesGrow DEF Filled
<1>1. CASE table = "connector_registry"
  <2>1. registry \subseteq registry' /\ IsFiniteSet(registry') /\ IsFiniteSet(registry)
    BY TablesGrow DEF Shape, RolloutTyped
  <2>2. Cardinality(registry) <= Cardinality(registry')
        /\ Cardinality(registry) \in Nat /\ Cardinality(registry') \in Nat
    BY <2>1, FS_Subset, FS_CardinalityType
  <2>3. QED BY <1>0, <1>1, <2>2, ServicesFinite DEF Enough
<1>2. CASE table = "connector_credentials_meta"
  BY <1>0, <1>2, TablesGrow DEF Enough
<1>3. CASE table \notin {"connector_registry", "connector_credentials_meta"}
  BY <1>0, <1>3, TablesGrow DEF Enough
<1>4. QED BY <1>1, <1>2, <1>3

(* A persistence report has only tables to pass over. *)
LEMMA OnlyTables ==
  ASSUME Shape, NEW c \in Callers, place[c] # "idle", asked[c].kind = "persistence"
  PROVE  /\ ~InPass(c) /\ Len(views[c]) <= 5
         /\ passes[c] # <<>> => Head(passes[c]) \in Tables
<1>1. asked[c] \in Request /\ passes[c] \in Seq(Pass) /\ views[c] \in Seq(View)
      /\ Len(views[c]) \in Nat /\ Len(passes[c]) \in Nat
  BY DEF Shape, RolloutTyped, RolloutTypeOK
<1>2. Passes(asked[c]) = TableOrder /\ Len(TableOrder) = 5
  BY <1>1, PassesTyped, TablesListed
<1>3. ASSUME NEW n \in Nat, Remains(passes[c], asked[c], n), passes[c] # <<>>
      PROVE  Head(passes[c]) \in Tables
  <2>1. Head(passes[c]) = TableOrder[n + 1] /\ n + 1 \in 1..5
    BY <1>1, <1>2, <1>3, RemainsLess
  <2>2. QED BY <2>1, TablesListed
<1>4. ~InPass(c)
  <2>1. SUFFICES ASSUME InPass(c) PROVE FALSE
    OBVIOUS
  <2>2. Remains(passes[c], asked[c], Len(views[c]) - 1) /\ passes[c] # <<>>
        /\ Head(passes[c]) = "pre" /\ Len(views[c]) - 1 \in Nat
    BY <1>1, <2>1 DEF Shape, Along
  <2>3. Head(passes[c]) \in Tables
    BY <1>3, <2>2
  <2>4. QED BY <2>2, <2>3, TablesListed
<1>5. place[c] = "next"
  BY <1>4 DEF Shape, RolloutTyped, RolloutTypeOK, InPass
<1>6. CASE passes[c] = <<>> /\ views[c] = <<>>
  BY <1>4, <1>6
<1>7. CASE Remains(passes[c], asked[c], Len(views[c]))
  <2>1. Len(passes[c]) + Len(views[c]) = 5
    BY <1>2, <1>7 DEF Remains
  <2>2. \A p, v \in Nat : p + v = 5 => v <= 5
    OBVIOUS
  <2>3. QED BY <1>1, <1>3, <1>4, <1>7, <2>1, <2>2
<1>8. QED BY <1>5, <1>6, <1>7 DEF Shape, Along

LEMMA FoundEnoughKept ==
  ASSUME Shape, Shape', [RolloutNext]_rolloutVars, FoundEnough, NEW d \in Callers,
         place[d] # "idle", asked[d].kind = "persistence", cleaned[d] \subseteq cleaned'[d],
         NEW i \in 1..Len(views[d]), views[d][i] = "enough"
  PROVE  Filled(d, TableOrder[i])'
<1>1. Len(views[d]) <= 5 /\ Len(views[d]) \in Nat
  BY OnlyTables DEF Shape, RolloutTyped
<1>2. i \in 1..5
  BY <1>1
<1>3. TableOrder[i] \in Tables
  BY <1>2, TablesListed
<1> DEFINE table == TableOrder[i]
<1>4. Filled(d, table)
  BY DEF FoundEnough
<1> HIDE DEF table
<1>5. table \in Tables
  BY <1>3 DEF table
<1>6. Filled(d, table)'
  BY <1>4, <1>5, EnoughStays
<1>7. TableOrder' = TableOrder
  BY DEF TableOrder
<1>8. QED BY <1>6, <1>7 DEF table, Filled

LEMMA FoundEnoughNext ==
  ASSUME Shape, Shape', [RolloutNext]_rolloutVars, FoundEnough
  PROVE  FoundEnough'
<1> SUFFICES ASSUME NEW d \in Callers, place'[d] # "idle", asked'[d].kind = "persistence",
                    NEW i \in 1..Len(views'[d]), views'[d][i] = "enough"
             PROVE  Filled(d, TableOrder[i])'
  BY DEF FoundEnough
<1>0. cleaned[d] \subseteq cleaned'[d]
  <2>1. views'[d] # <<>>
    BY DEF Shape, RolloutTyped
  <2>2. QED BY <2>1, CleanedGrows
<1> DEFINE Kept == place[d] # "idle" /\ asked'[d] = asked[d] /\ views'[d] = views[d]
<1>1. CASE Kept
  BY <1>0, <1>1, FoundEnoughKept
<1>2. CASE UNCHANGED rolloutVars
  <2>1. Kept
    BY <1>2 DEF rolloutVars, local
  <2>2. QED BY <1>1, <2>1
<1>3. CASE Elsewhere
  <2>1. UNCHANGED local
    BY <1>3 DEF Elsewhere, Exercise, ChangeSecret, ChangeFile, Migrate, CleanUp, Change
  <2>2. QED BY <1>1, <2>1 DEF local
<1>4. ASSUME NEW c \in Callers, NEW a \in Requests[c], BeginReport(c, a)
      PROVE  Kept
  <2>1. d # c
    <3>1. SUFFICES ASSUME d = c PROVE FALSE
      OBVIOUS
    <3>2. views'[d] = <<>>
      BY <1>4, <3>1 DEF BeginReport, Shape, Along
    <3>3. QED BY <3>2
  <2>2. QED BY <1>4, <2>1 DEF BeginReport, Shape, RolloutTyped, RolloutTypeOK
<1>5. ASSUME NEW c \in Callers, BeginPass(c) \/ Manifest(c) \/ \E lost \in SUBSET Services : Sync(c, lost)
      PROVE  Kept
  <2>1. place[c] = "next" /\ passes[c] # <<>> /\ Head(passes[c]) \in {"pre", "man", "sync"} /\ asked' = asked
    BY <1>5 DEF BeginPass, Manifest, Sync, EndPass
  <2>2. asked[c].kind # "persistence"
    BY <2>1, OnlyTables, TablesListed
  <2>3. d # c
    BY <2>1, <2>2
  <2>4. QED BY <1>5, <2>1, <2>3 DEF BeginPass, Manifest, Sync, EndPass, Shape, RolloutTyped, RolloutTypeOK
<1>6. ASSUME NEW c \in Callers, NEW s \in Services, NEW failing \in SUBSET Keys,
             ReadMissing(c, s, failing) \/ ReadPresent(c, s, failing)
      PROVE  Kept
  <2>1. place[c] # "idle" /\ InPass(c) /\ asked' = asked
    BY <1>6 DEF ReadMissing, ReadPresent, InPass
  <2>2. d # c
    BY <2>1, OnlyTables
  <2>3. views'[d] = views[d]
    BY <1>6, <2>2 DEF ReadMissing, ReadPresent, Shape, RolloutTyped
  <2>4. place'[d] = place[d]
    BY <1>6, <2>2 DEF ReadMissing, ReadPresent, Proceed, Shape, RolloutTyped, RolloutTypeOK
  <2>5. QED BY <2>1, <2>3, <2>4
<1>7. ASSUME NEW c \in Callers, NEW s \in Services, NEW lost \in SUBSET Rows, WriteMeta(c, s, lost)
      PROVE  Kept
  <2>1. place[c] # "idle" /\ InPass(c) /\ asked' = asked /\ views' = views
    BY <1>7 DEF WriteMeta, InPass
  <2>2. d # c
    BY <2>1, OnlyTables
  <2>3. place'[d] = place[d]
    BY <1>7, <2>2 DEF WriteMeta, Proceed, Shape, RolloutTyped, RolloutTypeOK
  <2>4. QED BY <2>1, <2>3
<1>8. ASSUME NEW c \in Callers, NEW lost \in BOOLEAN, Answer(c, lost)
      PROVE  Kept
  <2>1. d # c
    BY <1>8 DEF Answer, Shape, RolloutTyped, RolloutTypeOK
  <2>2. QED BY <1>8, <2>1 DEF Answer, Shape, RolloutTyped, RolloutTypeOK
<1>9. ASSUME NEW c \in Callers, NEW outcome \in {"read", "count", "exists"}, ReadTable(c, outcome)
      PROVE  Filled(d, TableOrder[i])'
  <2>1. CASE d # c
    <3>1. Kept
      BY <1>9, <2>1 DEF ReadTable, EndPass, Shape, RolloutTyped, RolloutTypeOK
    <3>2. QED BY <1>1, <3>1
  <2>2. CASE d = c /\ outcome = "exists"
    <3>1. views'[d] = <<>>
      BY <1>9, <2>2 DEF ReadTable, Shape, RolloutTyped
    <3>2. QED BY <3>1
  <2>3. CASE d = c /\ outcome # "exists"
    <3> DEFINE table == Head(passes[c])
               view == IF table \notin migrated THEN "absent" ELSE IF outcome = "count" THEN "unknown"
                       ELSE IF Enough(table) THEN "enough" ELSE "short"
    <3>1. /\ EndPass(c, view) /\ place[c] = "next" /\ passes[c] # <<>> /\ table \in Tables
          /\ asked' = asked /\ place' = place
      BY <1>9, <2>3 DEF ReadTable, EndPass
    <3>2. views'[c] = Append(views[c], view) /\ views[c] \in Seq(View) /\ Len(views[c]) \in Nat
      BY <3>1 DEF EndPass, Shape, RolloutTyped
    <3>3. table = TableOrder[Len(views[c]) + 1]
      BY <3>1, NextPass
    <3>4. CASE i <= Len(views[c])
      <4>1. i \in 1..Len(views[d]) /\ views[d][i] = "enough"
        BY <2>3, <3>2, <3>4
      <4>2. place[d] # "idle" /\ asked[d].kind = "persistence"
        BY <3>1
      <4>3. QED BY <1>0, <4>1, <4>2, FoundEnoughKept
    <3>5. CASE i > Len(views[c])
      <4>1. i = Len(views[c]) + 1 /\ views'[d][i] = view
        BY <2>3, <3>2, <3>5
      <4>2. TableOrder[i] = table /\ view = "enough"
        BY <3>3, <4>1
      <4>3. Filled(d, table)
        BY <4>2 DEF Filled
      <4> HIDE DEF table, view
      <4>4. ASSUME NEW t \in Tables, Filled(d, t) PROVE Filled(d, t)'
        BY <1>0, <4>4, EnoughStays
      <4>5. QED BY <3>1, <4>2, <4>3, <4>4
    <3>6. QED BY <3>2, <3>4, <3>5
  <2>4. QED BY <2>1, <2>2, <2>3
<1>10. QED BY <1>1, <1>2, <1>3, <1>4, <1>5, <1>6, <1>7, <1>8, <1>9, StepsOfRollout DEF CallerStep, Elsewhere

(* What is answered tells what was asked. *)
LEMMA ReportTyped ==
  ASSUME Shape, NEW c \in Callers
  PROVE  /\ asked[c].kind = "persistence" => Report(c) = Persistence(views[c])
         /\ asked[c].kind = "deployment" =>
              Report(c) = Plan(Chosen(asked[c]), views[c][1], views[c][2])
         /\ asked[c].kind = "bundle" => Report(c) = Bundle(Chosen(asked[c]), views[c])
         /\ \A kind \in {"persistence", "deployment", "bundle"} :
              Report(c).kind = kind => asked[c].kind = kind
<1>1. asked[c].kind \in Kinds
  BY DEF Shape, RolloutTyped, RolloutTypeOK, Request
<1>2. CASE asked[c].kind \in {"validate", "preflight"}
  <2>1. Report(c).kind = "preflight"
    BY <1>2 DEF Report, Preflight
  <2>2. QED BY <1>2, <2>1
<1>3. CASE asked[c].kind = "matrix"
  <2>1. Report(c).kind = "matrix"
    BY <1>3 DEF Report, CredentialMatrix
  <2>2. QED BY <1>3, <2>1
<1>4. CASE asked[c].kind = "readiness"
  <2>1. Report(c).kind = "readiness"
    BY <1>4 DEF Report, Readiness
  <2>2. QED BY <1>4, <2>1
<1>5. CASE asked[c].kind = "sync"
  <2>1. Report(c).kind = "none"
    BY <1>5 DEF Report, NoAnswer
  <2>2. QED BY <1>5, <2>1
<1>6. CASE asked[c].kind = "deployment"
  <2>1. Report(c) = Plan(Chosen(asked[c]), views[c][1], views[c][2])
    BY <1>6 DEF Report
  <2>2. Report(c).kind = "deployment"
    BY <2>1 DEF Plan
  <2>3. QED BY <1>6, <2>1, <2>2
<1>7. CASE asked[c].kind = "bundle"
  <2>1. Report(c) = Bundle(Chosen(asked[c]), views[c])
    BY <1>7 DEF Report
  <2>2. Report(c).kind = "bundle"
    BY <2>1 DEF Bundle
  <2>3. QED BY <1>7, <2>1, <2>2
<1>8. CASE asked[c].kind = "persistence"
  <2>1. Report(c) = Persistence(views[c])
    BY <1>8 DEF Report
  <2>2. Report(c).kind = "persistence"
    BY <2>1 DEF Persistence
  <2>3. QED BY <1>8, <2>1, <2>2
<1>9. QED BY <1>1, <1>2, <1>3, <1>4, <1>5, <1>6, <1>7, <1>8 DEF Kinds

(* An answer stays until the next request, and is what was found. *)
LEMMA AnswerGiven ==
  ASSUME Shape, [RolloutNext]_rolloutVars, NEW d \in Callers
  PROVE  \/ answer'[d] = answer[d]
         \/ answer'[d] = NoAnswer
         \/ /\ place[d] = "next" /\ passes[d] = <<>> /\ answer'[d] = Report(d)
            /\ secret' = secret /\ calm' = calm
<1>1. CASE UNCHANGED rolloutVars \/ Elsewhere
  BY <1>1 DEF rolloutVars, local, Elsewhere, Exercise, ChangeSecret, ChangeFile, Migrate, CleanUp, Change
<1>2. ASSUME NEW c \in Callers, NEW a \in Requests[c], BeginReport(c, a)
      PROVE  answer'[d] = answer[d] \/ answer'[d] = NoAnswer
  BY <1>2 DEF BeginReport, Shape, RolloutTyped
<1>3. ASSUME NEW c \in Callers, BeginPass(c) \/ Manifest(c)
      PROVE  answer'[d] = answer[d]
  BY <1>3 DEF BeginPass, Manifest, EndPass
<1>4. ASSUME NEW c \in Callers, NEW s \in Services, NEW failing \in SUBSET Keys,
             ReadMissing(c, s, failing) \/ ReadPresent(c, s, failing)
      PROVE  answer'[d] = answer[d]
  BY <1>4 DEF ReadMissing, ReadPresent
<1>5. ASSUME NEW c \in Callers,
             \/ \E s \in Services, lost \in SUBSET Rows : WriteMeta(c, s, lost)
             \/ \E lost \in SUBSET Services : Sync(c, lost)
             \/ \E outcome \in {"read", "count", "exists"} : ReadTable(c, outcome)
      PROVE  answer'[d] = answer[d]
  BY <1>5 DEF WriteMeta, Sync, ReadTable, EndPass
<1>6. ASSUME NEW c \in Callers, NEW lost \in BOOLEAN, Answer(c, lost)
      PROVE  \/ answer'[d] = answer[d]
             \/ /\ place[d] = "next" /\ passes[d] = <<>> /\ answer'[d] = Report(d)
                /\ secret' = secret /\ calm' = calm
  <2>1. /\ answer' = [answer EXCEPT ![c] = Report(c)] /\ place[c] = "next" /\ passes[c] = <<>>
        /\ secret' = secret /\ calm' = calm
    BY <1>6 DEF Answer, world
  <2>2. QED BY <2>1 DEF Shape, RolloutTyped
<1>7. QED BY <1>1, <1>2, <1>3, <1>4, <1>5, <1>6, StepsOfRollout DEF CallerStep, Elsewhere

LEMMA ProceedNext ==
  ASSUME Shape, Shape', [RolloutNext]_rolloutVars, FoundEnough, ProceedIsTrue
  PROVE  ProceedIsTrue'
<1> SUFFICES ASSUME NEW d \in Callers, answer'[d].kind = "persistence", answer'[d].advice = "proceed",
                    NEW table \in Tables
             PROVE  Filled(d, table)'
  BY DEF ProceedIsTrue, Filled
<1>0. cleaned[d] \subseteq cleaned'[d]
  BY CleanedGrows DEF NoAnswer
<1>1. SUFFICES Filled(d, table)
  BY <1>0, EnoughStays
<1>2. CASE answer'[d] = answer[d]
  BY <1>2 DEF ProceedIsTrue, Filled
<1>3. CASE answer'[d] = NoAnswer
  BY <1>3 DEF NoAnswer
<1>4. CASE place[d] = "next" /\ passes[d] = <<>> /\ answer'[d] = Report(d)
  <2>1. asked[d].kind = "persistence" /\ Report(d) = Persistence(views[d])
    BY <1>4, ReportTyped
  <2>2. views[d] \in Seq(View) /\ Len(views[d]) \in Nat /\ Len(views[d]) <= 5
    BY <1>4, <2>1, OnlyTables DEF Shape, RolloutTyped
  <2>3. ~(Len(views[d]) < 5) /\ \A i \in DOMAIN views[d] : Satisfied(views[d][i])
    BY <1>4, <2>1, TablesListed DEF Persistence
  <2>4. PICK i \in 1..5 : table = TableOrder[i]
    BY TablesListed
  <2>5. i \in 1..Len(views[d]) /\ views[d][i] = "enough"
    BY <2>2, <2>3 DEF Satisfied
  <2>6. QED BY <1>4, <2>1, <2>4, <2>5 DEF FoundEnough
<1>5. QED BY <1>2, <1>3, <1>4, AnswerGiven

-----------------------------------------------------------------------------
(* The steps of a deployment plan.                                         *)

LEMMA ElementOf ==
  ASSUME NEW p, NEW i \in DOMAIN p
  PROVE  p[i] \in ToSet(p)
BY DEF ToSet

LEMMA Joined ==
  ASSUME NEW S, NEW p \in Seq(S), NEW q \in Seq(S)
  PROVE  /\ p \o q \in Seq(S)
         /\ ToSet(p \o q) = ToSet(p) \cup ToSet(q)
         /\ p # <<>> => p \o q # <<>> /\ Head(p \o q) = Head(p)
<1>1. /\ p \o q \in Seq(S) /\ Len(p) \in Nat /\ Len(q) \in Nat
      /\ Len(p \o q) = Len(p) + Len(q)
      /\ \A i \in 1..Len(p) : (p \o q)[i] = p[i]
      /\ \A i \in 1..Len(q) : (p \o q)[i + Len(p)] = q[i]
  OBVIOUS
<1>2. ToSet(p \o q) \subseteq ToSet(p) \cup ToSet(q)
  <2> SUFFICES ASSUME NEW i \in 1..(Len(p) + Len(q)) PROVE (p \o q)[i] \in ToSet(p) \cup ToSet(q)
    BY <1>1 DEF ToSet
  <2>1. CASE i <= Len(p)
    <3>1. i \in 1..Len(p)
      BY <1>1, <2>1
    <3>2. QED BY <1>1, <3>1 DEF ToSet
  <2>2. CASE i > Len(p)
    <3>1. i - Len(p) \in 1..Len(q) /\ (i - Len(p)) + Len(p) = i
      BY <1>1, <2>2
    <3>2. QED BY <1>1, <3>1 DEF ToSet
  <2>3. QED BY <1>1, <2>1, <2>2
<1>3. ToSet(p) \subseteq ToSet(p \o q)
  <2> SUFFICES ASSUME NEW i \in 1..Len(p) PROVE p[i] \in ToSet(p \o q)
    BY <1>1 DEF ToSet
  <2>1. i \in 1..Len(p \o q)
    BY <1>1
  <2>2. QED BY <1>1, <2>1 DEF ToSet
<1>4. ToSet(q) \subseteq ToSet(p \o q)
  <2> SUFFICES ASSUME NEW i \in 1..Len(q) PROVE q[i] \in ToSet(p \o q)
    BY <1>1 DEF ToSet
  <2> DEFINE j == i + Len(p)
  <2>1. j \in DOMAIN (p \o q) /\ (p \o q)[j] = q[i]
    BY <1>1
  <2> HIDE DEF j
  <2>2. QED BY <2>1, ElementOf
<1>5. p # <<>> => p \o q # <<>> /\ Head(p \o q) = Head(p)
  <2> SUFFICES ASSUME p # <<>> PROVE p \o q # <<>> /\ Head(p \o q) = Head(p)
    OBVIOUS
  <2>1. 1 \in 1..Len(p) /\ Len(p \o q) > 0
    BY <1>1
  <2>2. QED BY <1>1, <2>1
<1>6. QED BY <1>1, <1>2, <1>3, <1>4, <1>5

Bridged(s) ==
  \/ Connector[s].status \in Bridges
  \/ Connector[s].mode \in {"manual_bridge", "file_bridge", "local_bridge"}

StepNames ==
  {"fill_credentials", "sync_registry", "import_workflow", "draft_workflow", "manual_bridge_review",
   "docs_only_review", "live_smoke_test", "smoke_after_setup"}

LEMMA OneStep ==
  ASSUME NEW name \in StepNames
  PROVE  <<name>> \in Seq(StepNames) /\ ToSet(<<name>>) = {name} /\ <<name>> # <<>> /\ Head(<<name>>) = name
<1>1. <<name>> \in Seq(StepNames) /\ DOMAIN <<name>> = {1} /\ <<name>>[1] = name
  OBVIOUS
<1>2. ToSet(<<name>>) = {name}
  BY <1>1 DEF ToSet
<1>3. QED BY <1>1, <1>2

LEMMA NoStep == <<>> \in Seq(StepNames) /\ ToSet(<<>>) = {}
<1>1. <<>> \in Seq(StepNames) /\ DOMAIN <<>> = {}
  OBVIOUS
<1>2. ToSet(<<>>) = {}
  BY <1>1 DEF ToSet
<1>3. QED BY <1>1, <1>2

LEMMA StepsTold ==
  ASSUME NEW s, NEW view, NEW found
  PROVE  /\ \A step :
              step \in ToSet(Steps(s, view, found)) <=>
                \/ step = "fill_credentials" /\ ~Configured(view)
                \/ step = "sync_registry"
                \/ step = "import_workflow" /\ Importable(s, found)
                \/ step = "draft_workflow" /\ ~Importable(s, found) /\ Connector[s].ops # {}
                \/ step = "manual_bridge_review" /\ Bridged(s)
                \/ step = "docs_only_review" /\ ~Bridged(s) /\ Connector[s].status = "docs_only"
                \/ step = "live_smoke_test" /\ LiveReady(s, view)
                \/ step = "smoke_after_setup" /\ ~LiveReady(s, view)
         /\ ~Configured(view) => Head(Steps(s, view, found)) = "fill_credentials"
<1> DEFINE When(condition, step) == IF condition THEN <<step>> ELSE <<>>
           p1 == When(~Configured(view), "fill_credentials")
           p2 == <<"sync_registry">>
           p3 == When(Importable(s, found), "import_workflow")
           p4 == When(~Importable(s, found) /\ Connector[s].ops # {}, "draft_workflow")
           p5 == When(Bridged(s), "manual_bridge_review")
           p6 == When(~Bridged(s) /\ Connector[s].status = "docs_only", "docs_only_review")
           p7 == <<IF LiveReady(s, view) THEN "live_smoke_test" ELSE "smoke_after_setup">>
<1>1. Steps(s, view, found) = p1 \o p2 \o p3 \o p4 \o p5 \o p6 \o p7
  BY DEF Steps, Bridged
<1>4. /\ p1 \in Seq(StepNames) /\ ToSet(p1) = IF Configured(view) THEN {} ELSE {"fill_credentials"}
      /\ ~Configured(view) => p1 # <<>> /\ Head(p1) = "fill_credentials"
  BY OneStep, NoStep DEF StepNames
<1>5. p2 \in Seq(StepNames) /\ ToSet(p2) = {"sync_registry"}
  BY OneStep DEF StepNames
<1>6. p3 \in Seq(StepNames) /\ ToSet(p3) = IF Importable(s, found) THEN {"import_workflow"} ELSE {}
  BY OneStep, NoStep DEF StepNames
<1>7. /\ p4 \in Seq(StepNames)
      /\ ToSet(p4) = IF ~Importable(s, found) /\ Connector[s].ops # {} THEN {"draft_workflow"} ELSE {}
  BY OneStep, NoStep DEF StepNames
<1>8. p5 \in Seq(StepNames) /\ ToSet(p5) = IF Bridged(s) THEN {"manual_bridge_review"} ELSE {}
  BY OneStep, NoStep DEF StepNames
<1>9. /\ p6 \in Seq(StepNames)
      /\ ToSet(p6) = IF ~Bridged(s) /\ Connector[s].status = "docs_only" THEN {"docs_only_review"} ELSE {}
  BY OneStep, NoStep DEF StepNames
<1>10. /\ p7 \in Seq(StepNames)
       /\ ToSet(p7) = IF LiveReady(s, view) THEN {"live_smoke_test"} ELSE {"smoke_after_setup"}
  BY OneStep DEF StepNames
<1> HIDE DEF When, p1, p2, p3, p4, p5, p6, p7
<1> DEFINE q2 == p1 \o p2
           q3 == q2 \o p3
           q4 == q3 \o p4
           q5 == q4 \o p5
           q6 == q5 \o p6
           q7 == q6 \o p7
<1>11. Steps(s, view, found) = q7
  BY <1>1
<1>12. /\ q2 \in Seq(StepNames) /\ ToSet(q2) = ToSet(p1) \cup ToSet(p2)
       /\ p1 # <<>> => q2 # <<>> /\ Head(q2) = Head(p1)
  BY <1>4, <1>5, Joined
<1> HIDE DEF q2
<1>13. /\ q3 \in Seq(StepNames) /\ ToSet(q3) = ToSet(q2) \cup ToSet(p3)
       /\ p1 # <<>> => q3 # <<>> /\ Head(q3) = Head(p1)
  BY <1>6, <1>12, Joined
<1> HIDE DEF q3
<1>14. /\ q4 \in Seq(StepNames) /\ ToSet(q4) = ToSet(q3) \cup ToSet(p4)
       /\ p1 # <<>> => q4 # <<>> /\ Head(q4) = Head(p1)
  BY <1>7, <1>13, Joined
<1> HIDE DEF q4
<1>15. /\ q5 \in Seq(StepNames) /\ ToSet(q5) = ToSet(q4) \cup ToSet(p5)
       /\ p1 # <<>> => q5 # <<>> /\ Head(q5) = Head(p1)
  BY <1>8, <1>14, Joined
<1> HIDE DEF q5
<1>16. /\ q6 \in Seq(StepNames) /\ ToSet(q6) = ToSet(q5) \cup ToSet(p6)
       /\ p1 # <<>> => q6 # <<>> /\ Head(q6) = Head(p1)
  BY <1>9, <1>15, Joined
<1> HIDE DEF q6
<1>17. /\ q7 \in Seq(StepNames) /\ ToSet(q7) = ToSet(q6) \cup ToSet(p7)
       /\ p1 # <<>> => q7 # <<>> /\ Head(q7) = Head(p1)
  BY <1>10, <1>16, Joined
<1> HIDE DEF q7
<1>18. ToSet(Steps(s, view, found)) = ToSet(p1) \cup ToSet(p2) \cup ToSet(p3) \cup ToSet(p4)
                                        \cup ToSet(p5) \cup ToSet(p6) \cup ToSet(p7)
  BY <1>11, <1>12, <1>13, <1>14, <1>15, <1>16, <1>17
<1>19. ~Configured(view) => Head(Steps(s, view, found)) = "fill_credentials"
  BY <1>4, <1>11, <1>17
<1>20. QED BY <1>4, <1>5, <1>6, <1>7, <1>8, <1>9, <1>10, <1>18, <1>19

(* Whatever was found, the plan of a service is coherent. *)
LEMMA ItemCoherent ==
  ASSUME NEW s \in Services, NEW view, NEW found
  PROVE  Coherent(PlanItem(s, view, found))
<1> DEFINE item == PlanItem(s, view, found)
           steps == ToSet(Steps(s, view, found))
<1>1. /\ item.configured = Configured(view) /\ item.live = LiveReady(s, view)
      /\ item.primary = PrimaryStep(s, view, found) /\ item.importable = Importable(s, found)
      /\ item.steps = Steps(s, view, found)
  BY DEF PlanItem
<1>2. Connector[s].ops # {}
  BY RolloutAssumption
<1>3. PrimaryStep(s, view, found) \in steps
  <2>1. CASE ~Configured(view)
    BY <2>1, StepsTold DEF PrimaryStep
  <2>2. CASE Configured(view) /\ Importable(s, found)
    <3>1. PrimaryStep(s, view, found) = "import_workflow"
      BY <2>2 DEF PrimaryStep, RecommendedAction, PRIMARY_STEP_BY_ACTION
    <3>2. QED BY <2>2, <3>1, StepsTold
  <2>3. CASE Configured(view) /\ ~Importable(s, found)
    <3>1. PrimaryStep(s, view, found) = "draft_workflow"
      BY <1>2, <2>3 DEF PrimaryStep, RecommendedAction, PRIMARY_STEP_BY_ACTION
    <3>2. QED BY <1>2, <2>3, <3>1, StepsTold
  <2>4. QED BY <2>1, <2>2, <2>3
<1>4. "fill_credentials" \in steps <=> ~Configured(view)
  BY StepsTold
<1>5. "live_smoke_test" \in steps <=> LiveReady(s, view)
  BY StepsTold
<1>6. "import_workflow" \in steps <=> Importable(s, found)
  BY StepsTold
<1>7. ~Configured(view) => /\ Head(Steps(s, view, found)) = "fill_credentials"
                           /\ PrimaryStep(s, view, found) = "fill_credentials"
  BY StepsTold DEF PrimaryStep
<1>8. LiveReady(s, view) => Configured(view)
  BY DEF LiveReady
<1> HIDE DEF item
<1>9. Coherent(item)
  BY <1>1, <1>3, <1>4, <1>5, <1>6, <1>7, <1>8 DEF Coherent
<1>10. QED BY <1>9 DEF item

PlansCoherent ==
  \A c \in Callers : answer[c].kind \in {"deployment", "bundle"} =>
    \A s \in DOMAIN answer[c].services : Coherent(answer[c].services[s])

LEMMA PlanCoherent ==
  ASSUME NEW chosen \in SUBSET Services, NEW pre, NEW man, NEW s \in DOMAIN Plan(chosen, pre, man).services
  PROVE  Coherent(Plan(chosen, pre, man).services[s])
<1>1. s \in chosen /\ Plan(chosen, pre, man).services[s] = PlanItem(s, pre[s], man)
  BY DEF Plan
<1>2. QED BY <1>1, ItemCoherent

LEMMA CoherentNext ==
  ASSUME Shape, [RolloutNext]_rolloutVars, PlansCoherent
  PROVE  PlansCoherent'
<1> SUFFICES ASSUME NEW d \in Callers, answer'[d].kind \in {"deployment", "bundle"},
                    NEW s \in DOMAIN answer'[d].services
             PROVE  Coherent(answer'[d].services[s])
  BY DEF PlansCoherent
<1>1. CASE answer'[d] = answer[d]
  BY <1>1 DEF PlansCoherent
<1>2. CASE answer'[d] = NoAnswer
  BY <1>2 DEF NoAnswer
<1>3. CASE answer'[d] = Report(d)
  <2>1. Chosen(asked[d]) \in SUBSET Services
    BY ChosenTyped DEF Shape, RolloutTyped, RolloutTypeOK
  <2>2. CASE asked[d].kind = "deployment"
    <3>1. answer'[d] = Plan(Chosen(asked[d]), views[d][1], views[d][2])
      BY <1>3, <2>2, ReportTyped
    <3>2. QED BY <2>1, <3>1, PlanCoherent
  <2>3. CASE asked[d].kind = "bundle"
    <3>1. answer'[d].services = Plan(Chosen(asked[d]), views[d][5], views[d][6]).services
      BY <1>3, <2>3, ReportTyped DEF Bundle
    <3>2. QED BY <2>1, <3>1, PlanCoherent
  <2>4. QED BY <1>3, <2>2, <2>3, ReportTyped
<1>4. QED BY <1>1, <1>2, <1>3, AnswerGiven

-----------------------------------------------------------------------------
(* What connector_credentials_meta tells.                                  *)

TrueView(s) == [missing |-> Missing(s, secret), present |-> Present(s, secret)]

(* What a caller has read of the service it is at holds. *)
Credible(c) ==
  \A s \in Services : IsNext(c, s) =>
    /\ place[c] = "present" => missing[c] = Missing(s, secret)
    /\ place[c] = "write" => views[c][Len(views[c])][s] = TrueView(s)

(* While a tenant has been told, or a calm request may come to tell one,   *)
(* nobody is about to write what no longer holds.                          *)
Trusted == told # {} \/ \E c \in Callers : place[c] # "idle" /\ calm[c] /\ alone[c]
Trustworthy == \A c \in Callers : place[c] # "idle" /\ (calm[c] \/ Trusted) => Credible(c)

TrueRow(r) == meta[r] = "yes" <=> r[3] \in Present(r[2], secret) \ Missing(r[2], secret)

(* The services whose rows a persisting request has written. *)
WrittenBy(c) ==
  IF views[c] = <<>> THEN {}
  ELSE IF InPass(c) /\ Len(views[c]) = 1 THEN Chosen(asked[c]) \ todo[c]
  ELSE Chosen(asked[c])
Writes(c) == asked[c].persist /\ ~(asked[c].kind \in {"sync", "persistence"})
WrittenIsTrue ==
  \A c \in Callers : place[c] # "idle" /\ calm[c] /\ alone[c] /\ Writes(c) =>
    \A r \in Rows : r[1] = asked[c].tenant /\ r[2] \in WrittenBy(c) => TrueRow(r)

LEMMA NextIsOne ==
  ASSUME NEW c \in Callers, NEW s, IsNext(c, s), NEW q, IsNext(c, q)
  PROVE  s = q
<1>1. Len(Catalog) \in Nat /\ DOMAIN Catalog = 1..Len(Catalog)
  BY RolloutAssumption
<1>2. PICK i \in DOMAIN Catalog : Catalog[i] = s /\ \A k \in 1..(i - 1) : Catalog[k] \notin todo[c]
  BY DEF IsNext
<1>3. PICK j \in DOMAIN Catalog : Catalog[j] = q /\ \A k \in 1..(j - 1) : Catalog[k] \notin todo[c]
  BY DEF IsNext
<1>4. s \in todo[c] /\ q \in todo[c]
  BY DEF IsNext
<1>5. ~(i < j) /\ ~(j < i)
  <2>1. i < j => i \in 1..(j - 1)
    BY <1>1
  <2>2. j < i => j \in 1..(i - 1)
    BY <1>1
  <2>3. QED BY <1>2, <1>3, <1>4, <2>1, <2>2
<1>6. i = j
  BY <1>1, <1>5
<1>7. QED BY <1>2, <1>3, <1>6

LEMMA CredibleKept ==
  ASSUME NEW d \in Callers, Credible(d), place'[d] = place[d], todo'[d] = todo[d],
         missing'[d] = missing[d], views'[d] = views[d], secret' = secret
  PROVE  Credible(d)'
BY DEF Credible, IsNext, TrueView

(* What the step of one caller leaves of the others. *)
LEMMA OtherCallers ==
  ASSUME Shape, NEW c \in Callers, CallerStep(c), NEW d \in Callers \ {c}
  PROVE  /\ place'[d] = place[d] /\ asked'[d] = asked[d] /\ passes'[d] = passes[d]
         /\ todo'[d] = todo[d] /\ missing'[d] = missing[d] /\ views'[d] = views[d]
         /\ alone'[d] = alone[d] /\ (calm'[d] => calm[d])
<1> USE DEF Shape, RolloutTyped, RolloutTypeOK
<1>1. CASE \E a \in Requests[c] : BeginReport(c, a)
  BY <1>1 DEF BeginReport
<1>2. CASE BeginPass(c)
  BY <1>2 DEF BeginPass
<1>3. ASSUME NEW s \in Services, NEW failing \in SUBSET Keys, ReadMissing(c, s, failing)
      PROVE  /\ place'[d] = place[d] /\ asked'[d] = asked[d] /\ passes'[d] = passes[d]
             /\ todo'[d] = todo[d] /\ missing'[d] = missing[d] /\ views'[d] = views[d]
             /\ alone'[d] = alone[d] /\ (calm'[d] => calm[d])
  BY <1>3 DEF ReadMissing, Disturb
<1>4. ASSUME NEW s \in Services, NEW failing \in SUBSET Keys, ReadPresent(c, s, failing)
      PROVE  /\ place'[d] = place[d] /\ asked'[d] = asked[d] /\ passes'[d] = passes[d]
             /\ todo'[d] = todo[d] /\ missing'[d] = missing[d] /\ views'[d] = views[d]
             /\ alone'[d] = alone[d] /\ (calm'[d] => calm[d])
  <2>1. place'[d] = place[d] /\ passes'[d] = passes[d] /\ todo'[d] = todo[d]
    BY <1>4 DEF ReadPresent, Proceed
  <2>2. missing'[d] = missing[d] /\ views'[d] = views[d]
    BY <1>4 DEF ReadPresent
  <2>3. asked'[d] = asked[d] /\ alone'[d] = alone[d] /\ (calm'[d] => calm[d])
    BY <1>4 DEF ReadPresent, Disturb
  <2>4. QED BY <2>1, <2>2, <2>3
<1>5. ASSUME NEW s \in Services, NEW lost \in SUBSET Rows, WriteMeta(c, s, lost)
      PROVE  /\ place'[d] = place[d] /\ asked'[d] = asked[d] /\ passes'[d] = passes[d]
             /\ todo'[d] = todo[d] /\ missing'[d] = missing[d] /\ views'[d] = views[d]
             /\ alone'[d] = alone[d] /\ (calm'[d] => calm[d])
  <2>1. place'[d] = place[d] /\ passes'[d] = passes[d] /\ todo'[d] = todo[d]
    BY <1>5 DEF WriteMeta, Proceed
  <2>2. QED BY <1>5, <2>1 DEF WriteMeta, Lose
<1>6. CASE Manifest(c) \/ \E lost \in SUBSET Services : Sync(c, lost)
  BY <1>6 DEF Manifest, Sync, EndPass
<1>7. CASE \E outcome \in {"read", "count", "exists"} : ReadTable(c, outcome)
  BY <1>7 DEF ReadTable, EndPass
<1>8. CASE \E lost \in BOOLEAN : Answer(c, lost)
  BY <1>8 DEF Answer
<1>9. QED BY <1>1, <1>2, <1>3, <1>4, <1>5, <1>6, <1>7, <1>8 DEF CallerStep

(* The credentials, and who is told of them, when a caller takes a step    *)
(* that does not hide one.                                                 *)
LEMMA QuietStep ==
  ASSUME Shape, NEW c \in Callers, CallerStep(c)
  PROVE  /\ secret' = secret /\ files' = files
         /\ \/ Disturb
            \/ told' = told /\ (~calm[c] /\ calm'[c] => \E a \in Requests[c] : BeginReport(c, a))
            \/ \E lost \in BOOLEAN : Answer(c, lost) /\ calm' = calm
<1> USE DEF Shape, RolloutTyped, RolloutTypeOK
<1>1. CASE \E a \in Requests[c] : BeginReport(c, a)
  BY <1>1 DEF BeginReport, world
<1>2. CASE BeginPass(c)
  BY <1>2 DEF BeginPass, world
<1>3. ASSUME NEW s \in Services, NEW failing \in SUBSET Keys,
             ReadMissing(c, s, failing) \/ ReadPresent(c, s, failing)
      PROVE  secret' = secret /\ files' = files /\ (Disturb \/ (told' = told /\ calm' = calm))
  BY <1>3 DEF ReadMissing, ReadPresent, world
<1>4. ASSUME NEW s \in Services, NEW lost \in SUBSET Rows, WriteMeta(c, s, lost)
      PROVE  secret' = secret /\ files' = files /\ told' = told /\ (calm'[c] => calm[c])
  BY <1>4 DEF WriteMeta, Lose, world
<1>5. CASE Manifest(c) \/ \E lost \in SUBSET Services : Sync(c, lost)
  BY <1>5 DEF Manifest, Sync, EndPass, world
<1>6. CASE \E outcome \in {"read", "count", "exists"} : ReadTable(c, outcome)
  BY <1>6 DEF ReadTable, EndPass, world
<1>7. CASE \E lost \in BOOLEAN : Answer(c, lost)
  BY <1>7 DEF Answer, world
<1>8. QED BY <1>1, <1>2, <1>3, <1>4, <1>5, <1>6, <1>7 DEF CallerStep

(* Once both reads of a service are through, with nothing failed. *)
LEMMA ReadThrough ==
  ASSUME Shape, NEW c \in Callers, NEW s \in Services, NEW failing \in SUBSET Keys,
         ReadPresent(c, s, failing), failing = {}
  PROVE  /\ Len(views'[c]) = Len(views[c])
         /\ \A i \in 1..Len(views[c]) : i # Len(views[c]) => views'[c][i] = views[c][i]
         /\ views'[c][Len(views[c])][s] = [missing |-> missing[c], present |-> Present(s, secret)]
         /\ \A q \in Services \ {s} : views'[c][Len(views[c])][q] = views[c][Len(views[c])][q]
<1> DEFINE found == secret \ failing
<1>1. InPass(c) /\ found \in SUBSET Keys /\ found = secret
  BY DEF ReadPresent, InPass, Shape, RolloutTyped, RolloutTypeOK
<1>2. Sees(c, s, found)
  BY DEF ReadPresent, Sees
<1> HIDE DEF found
<1>3. /\ views' \in [Callers -> Seq(View)] /\ Len(views'[c]) = Len(views[c])
      /\ \A d \in Callers \ {c} : views'[d] = views[d]
      /\ \A i \in 1..Len(views[c]) : i # Len(views[c]) => views'[c][i] = views[c][i]
      /\ views'[c][Len(views[c])] \in CredentialView
      /\ views'[c][Len(views[c])][s] = [missing |-> missing[c], present |-> Present(s, found)]
      /\ \A q \in Services \ {s} : views'[c][Len(views[c])][q] = views[c][Len(views[c])][q]
  BY <1>1, <1>2, SeenService
<1>4. QED BY <1>1, <1>3

(* What a caller finds or writes next is credible if it was so far. *)
LEMMA OwnStepCredible ==
  ASSUME Shape, NEW c \in Callers, CallerStep(c), ~Disturb, place[c] # "idle" => Credible(c)
  PROVE  Credible(c)'
<1> USE DEF Shape, RolloutTyped, RolloutTypeOK
<1>1. CASE place'[c] \notin {"present", "write"}
  BY <1>1 DEF Credible
<1>2. ASSUME NEW s \in Services, NEW failing \in SUBSET Keys, ReadMissing(c, s, failing)
      PROVE  Credible(c)'
  <2>1. failing = {} /\ secret' = secret /\ place'[c] = "present" /\ todo' = todo /\ IsNext(c, s)
    BY <1>2 DEF ReadMissing, world
  <2>2. missing'[c] = Missing(s, secret)
    <3>1. secret \ failing = secret
      BY <2>1
    <3>2. QED BY <1>2, <3>1 DEF ReadMissing
  <2>3. ASSUME NEW q \in Services, IsNext(c, q)' PROVE q = s
    <3>1. IsNext(c, q)
      BY <2>1, <2>3 DEF IsNext
    <3>2. QED BY <2>1, <3>1, NextIsOne
  <2>4. QED BY <2>1, <2>2, <2>3 DEF Credible
<1>3. ASSUME NEW s \in Services, NEW failing \in SUBSET Keys, ReadPresent(c, s, failing),
             place'[c] \in {"present", "write"}
      PROVE  Credible(c)'
  <2>1. failing = {} /\ secret' = secret /\ IsNext(c, s) /\ InPass(c) /\ place[c] = "present"
    BY <1>3 DEF ReadPresent, world, InPass
  <2>2. place'[c] = "write" /\ todo' = todo
    BY <1>3 DEF ReadPresent, Proceed
  <2>3. Len(views'[c]) = Len(views[c])
        /\ views'[c][Len(views[c])][s] = [missing |-> missing[c], present |-> Present(s, secret)]
    <3> HIDE DEF Shape, RolloutTyped, RolloutTypeOK
    <3>1. QED BY <1>3, <2>1, ReadThrough
  <2>4. missing[c] = Missing(s, secret)
    BY <2>1 DEF Credible
  <2>5. ASSUME NEW q \in Services, IsNext(c, q)' PROVE q = s
    <3>1. IsNext(c, q)
      BY <2>2, <2>5 DEF IsNext
    <3>2. QED BY <2>1, <3>1, NextIsOne
  <2>6. QED BY <2>1, <2>2, <2>3, <2>4, <2>5 DEF Credible, TrueView
<1>4. ASSUME NEW s \in Services, NEW lost \in SUBSET Rows, WriteMeta(c, s, lost)
      PROVE  place'[c] \notin {"present", "write"}
  BY <1>4 DEF WriteMeta, Proceed
<1>5. ASSUME \/ \E a \in Requests[c] : BeginReport(c, a)
             \/ BeginPass(c)
             \/ Manifest(c)
             \/ \E lost \in SUBSET Services : Sync(c, lost)
             \/ \E outcome \in {"read", "count", "exists"} : ReadTable(c, outcome)
             \/ \E lost \in BOOLEAN : Answer(c, lost)
      PROVE  place'[c] \notin {"present", "write"}
  BY <1>5 DEF BeginReport, BeginPass, Manifest, Sync, ReadTable, Answer, EndPass
<1>6. QED BY <1>1, <1>2, <1>3, <1>4, <1>5 DEF CallerStep

(* How far a caller is calm, alone and believed in after a step of its own. *)
LEMMA OwnPlace ==
  ASSUME Shape, NEW c \in Callers, CallerStep(c), ~Disturb
  PROVE  \/ /\ place[c] = "idle" /\ (\E a \in Requests[c] : BeginReport(c, a))
            /\ told' = told /\ views'[c] = <<>>
            /\ alone'[c] => \A d \in Callers \ {c} : place[d] = "idle" \/ calm[d]
         \/ /\ place[c] # "idle" /\ (calm'[c] => calm[c]) /\ (alone'[c] => alone[c])
            /\ told' # told => calm[c] /\ alone[c]
<1> USE DEF RolloutTyped, RolloutTypeOK
<1>1. ASSUME NEW a \in Requests[c], BeginReport(c, a)
      PROVE  /\ place[c] = "idle" /\ told' = told /\ views'[c] = <<>>
             /\ alone'[c] => \A d \in Callers \ {c} : place[d] = "idle" \/ calm[d]
  BY <1>1 DEF BeginReport, Shape, Along
<1>2. CASE BeginPass(c) \/ Manifest(c) \/ \E lost \in SUBSET Services : Sync(c, lost)
  BY <1>2 DEF BeginPass, Manifest, Sync, EndPass
<1>3. ASSUME NEW s \in Services, NEW failing \in SUBSET Keys,
             ReadMissing(c, s, failing) \/ ReadPresent(c, s, failing)
      PROVE  place[c] # "idle" /\ told' = told /\ calm' = calm /\ alone' = alone
  BY <1>3 DEF ReadMissing, ReadPresent
<1>4. ASSUME NEW s \in Services, NEW lost \in SUBSET Rows, WriteMeta(c, s, lost)
      PROVE  place[c] # "idle" /\ told' = told /\ (calm'[c] => calm[c]) /\ alone' = alone
  BY <1>4 DEF WriteMeta, Lose, Shape
<1>5. CASE \E outcome \in {"read", "count", "exists"} : ReadTable(c, outcome)
  BY <1>5 DEF ReadTable, EndPass
<1>6. CASE \E lost \in BOOLEAN : Answer(c, lost)
  BY <1>6 DEF Answer, Shape
<1>7. QED BY <1>1, <1>2, <1>3, <1>4, <1>5, <1>6 DEF CallerStep

LEMMA TrustedKept ==
  ASSUME Shape, NEW c \in Callers, CallerStep(c), ~Disturb, Trusted'
  PROVE  \/ Trusted
         \/ /\ place[c] = "idle"
            /\ \A d \in Callers \ {c} : place[d] = "idle" \/ calm[d]
<1>1. CASE told' # {}
  BY <1>1, OwnPlace DEF Trusted
<1>2. ASSUME NEW e \in Callers, place'[e] # "idle", calm'[e], alone'[e], told' = {}
      PROVE  \/ Trusted
             \/ /\ place[c] = "idle"
                /\ \A d \in Callers \ {c} : place[d] = "idle" \/ calm[d]
  <2>1. CASE e = c
    BY <1>2, <2>1, OwnPlace DEF Trusted
  <2>2. CASE e # c
    BY <1>2, <2>2, OtherCallers DEF Trusted
  <2>3. QED BY <2>1, <2>2
<1>3. QED BY <1>1, <1>2 DEF Trusted

LEMMA TrustworthyNext ==
  ASSUME Shape, [RolloutNext]_rolloutVars, Trustworthy
  PROVE  Trustworthy'
<1>1. CASE Disturb
  BY <1>1 DEF Disturb, Trustworthy, Trusted
<1>2. CASE UNCHANGED rolloutVars
  <2>1. ASSUME NEW d \in Callers, Credible(d) PROVE Credible(d)'
    BY <1>2, <2>1, CredibleKept DEF rolloutVars, world, local
  <2>2. Trusted' => Trusted
    BY <1>2 DEF rolloutVars, local, Trusted
  <2>3. QED BY <1>2, <2>1, <2>2 DEF Trustworthy, rolloutVars, local
<1>3. CASE Elsewhere /\ ~Disturb
  <2>1. UNCHANGED local /\ secret' = secret /\ told' = told /\ alone' = alone
        /\ \A d \in Callers : calm'[d] => calm[d]
    BY <1>3 DEF Elsewhere, Exercise, ChangeSecret, ChangeFile, Migrate, CleanUp, Change, world
  <2>2. ASSUME NEW d \in Callers, Credible(d) PROVE Credible(d)'
    BY <2>1, <2>2, CredibleKept DEF local
  <2>3. Trusted' => Trusted
    BY <2>1 DEF local, Trusted
  <2>4. QED BY <2>1, <2>2, <2>3 DEF Trustworthy, local
<1>4. ASSUME NEW c \in Callers, CallerStep(c), ~Disturb PROVE Trustworthy'
  <2> SUFFICES ASSUME NEW d \in Callers, place'[d] # "idle", calm'[d] \/ Trusted'
               PROVE  Credible(d)'
    BY DEF Trustworthy
  <2>1. secret' = secret
    BY <1>4, QuietStep
  <2>2. CASE d = c
    <3>1. place[c] # "idle" => calm[c] \/ Trusted
      BY <1>4, <2>2, OwnPlace, TrustedKept
    <3>2. QED BY <1>4, <2>2, <3>1, OwnStepCredible DEF Trustworthy
  <2>3. CASE d # c
    <3>1. /\ place'[d] = place[d] /\ todo'[d] = todo[d] /\ missing'[d] = missing[d]
          /\ views'[d] = views[d] /\ (calm'[d] => calm[d])
      BY <1>4, <2>3, OtherCallers
    <3>2. calm[d] \/ Trusted
      BY <1>4, <2>3, <3>1, TrustedKept
    <3>3. Credible(d)
      BY <3>1, <3>2 DEF Trustworthy
    <3>4. QED BY <2>1, <3>1, <3>3, CredibleKept
  <2>4. QED BY <2>2, <2>3
<1>5. QED BY <1>1, <1>2, <1>3, <1>4, StepsOfRollout

(* While somebody is trusted, rows that tell the truth go on telling it.   *)
LEMMA RowsWritten ==
  ASSUME Shape, NEW c \in Callers, NEW s \in Services, NEW lost \in SUBSET Rows,
         WriteMeta(c, s, lost), Credible(c)
  PROVE  /\ \A r \in Rows : TrueRow(r) => TrueRow(r)'
         /\ calm'[c] => \A r \in Rows : r[1] = asked[c].tenant /\ r[2] = s => TrueRow(r)'
<1> DEFINE view == views[c][Len(views[c])][s]
           own == {r \in Rows : r[1] = asked[c].tenant /\ r[2] = s}
           written == IF "connector_credentials_meta" \in migrated THEN own \ lost ELSE {}
<1>1. view = TrueView(s)
  BY DEF WriteMeta, Credible
<1>2. meta' = [r \in Rows |-> IF r \in written THEN Row(r, view) ELSE meta[r]]
      /\ secret' = secret
  BY DEF WriteMeta, world
<1>3. calm'[c] => written = own
  BY DEF WriteMeta, Lose, Shape, RolloutTyped, RolloutTypeOK
<1>4. written \subseteq own
  OBVIOUS
<1> HIDE DEF written, view
<1>5. ASSUME NEW r \in written PROVE TrueRow(r)'
  <2>1. r \in Rows /\ r[2] = s
    BY <1>4
  <2>2. meta'[r] = Row(r, TrueView(s))
    BY <1>1, <1>2, <2>1
  <2>3. Row(r, TrueView(s)) = "yes" <=> r[3] \in Present(s, secret) \ Missing(s, secret)
    BY DEF Row, TrueView
  <2>4. QED BY <1>2, <2>1, <2>2, <2>3 DEF TrueRow
<1>6. ASSUME NEW r \in Rows, r \notin written, TrueRow(r) PROVE TrueRow(r)'
  <2>1. meta'[r] = meta[r]
    BY <1>2, <1>6
  <2>2. QED BY <1>2, <1>6, <2>1 DEF TrueRow
<1>7. QED BY <1>3, <1>5, <1>6

LEMMA RowsStayTrue ==
  ASSUME Shape, [RolloutNext]_rolloutVars, Trustworthy, Trusted, ~Disturb
  PROVE  secret' = secret /\ \A r \in Rows : TrueRow(r) => TrueRow(r)'
<1>1. ASSUME secret' = secret, meta' = meta
      PROVE  \A r \in Rows : TrueRow(r) => TrueRow(r)'
  BY <1>1 DEF TrueRow
<1>2. CASE UNCHANGED rolloutVars
  BY <1>1, <1>2 DEF rolloutVars, world, database
<1>3. CASE Elsewhere
  BY <1>1, <1>3 DEF Elsewhere, Exercise, ChangeSecret, ChangeFile, Migrate, CleanUp, Change, world
<1>4. ASSUME NEW c \in Callers, CallerStep(c)
      PROVE  secret' = secret /\ \A r \in Rows : TrueRow(r) => TrueRow(r)'
  <2>1. secret' = secret
    BY <1>4, QuietStep
  <2>2. ASSUME NEW s \in Services, NEW lost \in SUBSET Rows, WriteMeta(c, s, lost)
        PROVE  \A r \in Rows : TrueRow(r) => TrueRow(r)'
    <3>1. place[c] # "idle"
      BY <2>2 DEF WriteMeta
    <3>2. QED BY <2>2, <3>1, RowsWritten DEF Trustworthy
  <2>3. ASSUME NEW s \in Services, NEW failing \in SUBSET Keys,
               ReadMissing(c, s, failing) \/ ReadPresent(c, s, failing)
        PROVE  meta' = meta
    BY <2>3 DEF ReadMissing, ReadPresent, database
  <2>4. CASE \/ \E a \in Requests[c] : BeginReport(c, a)
             \/ BeginPass(c)
             \/ Manifest(c)
             \/ \E lost \in SUBSET Services : Sync(c, lost)
             \/ \E outcome \in {"read", "count", "exists"} : ReadTable(c, outcome)
             \/ \E lost \in BOOLEAN : Answer(c, lost)
    <3>1. meta' = meta
      BY <2>4 DEF BeginReport, BeginPass, Manifest, Sync, ReadTable, Answer, database
    <3>2. QED BY <1>1, <2>1, <3>1
  <2>5. QED BY <1>1, <1>4, <2>1, <2>2, <2>3, <2>4 DEF CallerStep
<1>5. QED BY <1>2, <1>3, <1>4, StepsOfRollout

(* A service is new among those whose rows a calm request has written only *)
(* once the request wrote its rows.                                        *)
LEMMA WrittenGrows ==
  ASSUME Shape, NEW d \in Callers, CallerStep(d), place[d] # "idle", place'[d] # "idle",
         Writes(d), NEW s \in WrittenBy(d)' \ WrittenBy(d)
  PROVE  \E lost \in SUBSET Rows : WriteMeta(d, s, lost)
<1>0. /\ asked[d] \in Request /\ views[d] \in Seq(View) /\ Len(views[d]) \in Nat
      /\ todo[d] \subseteq Services
      /\ asked[d].persist /\ ~(asked[d].kind \in {"sync", "persistence"})
  BY DEF Shape, RolloutTyped, RolloutTypeOK, Writes
<1>1. ASSUME NEW a \in Requests[d], BeginReport(d, a) PROVE FALSE
  BY <1>1 DEF BeginReport
<1>2. ASSUME BeginPass(d) PROVE FALSE
  <2>1. /\ place[d] = "next" /\ place'[d] = "missing" /\ todo'[d] = Chosen(asked[d])
        /\ asked' = asked /\ views'[d] = Append(views[d], [q \in Services |-> Unread])
    BY <1>2 DEF BeginPass, Shape, RolloutTyped, RolloutTypeOK
  <2>2. [q \in Services |-> Unread] \in View
    BY DEF View, CredentialView, Unread
  <2>3. Len(views'[d]) = Len(views[d]) + 1 /\ views'[d] # <<>>
    BY <1>0, <2>1, <2>2
  <2>4. CASE views[d] = <<>>
    <3>1. Len(views'[d]) = 1
      BY <2>3, <2>4
    <3>2. QED BY <2>1, <2>3, <3>1 DEF WrittenBy, InPass
  <2>5. CASE views[d] # <<>>
    BY <2>1, <2>3, <2>5 DEF WrittenBy, InPass
  <2>6. QED BY <2>4, <2>5
<1>3. ASSUME NEW q \in Services, NEW failing \in SUBSET Keys, ReadMissing(d, q, failing) PROVE FALSE
  <2>1. /\ place[d] = "missing" /\ place'[d] = "present"
        /\ todo' = todo /\ views' = views /\ asked' = asked
    BY <1>3 DEF ReadMissing, Shape, RolloutTyped, RolloutTypeOK
  <2>2. QED BY <2>1 DEF WrittenBy, InPass
<1>4. ASSUME NEW q \in Services, NEW failing \in SUBSET Keys, ReadPresent(d, q, failing) PROVE FALSE
  <2>1. /\ place[d] = "present" /\ place'[d] = "write" /\ todo' = todo /\ asked' = asked
    BY <1>0, <1>4 DEF ReadPresent, Shape, RolloutTyped, RolloutTypeOK
  <2>2. InPass(d) /\ secret \ failing \in SUBSET Keys /\ Sees(d, q, secret \ failing)
    BY <1>4 DEF ReadPresent, InPass, Shape, RolloutTyped, RolloutTypeOK, Sees
  <2>3. Len(views'[d]) = Len(views[d])
    BY <2>2, SeenService
  <2>4. views[d] # <<>>
    BY <2>2 DEF Shape, Along
  <2>5. QED BY <2>1, <2>3, <2>4 DEF WrittenBy, InPass
<1>5. ASSUME Manifest(d) \/ \E lost \in SUBSET Services : Sync(d, lost) PROVE FALSE
  <2>1. place[d] = "next" /\ passes[d] # <<>> /\ Head(passes[d]) # "pre" /\ asked' = asked
    BY <1>5 DEF Manifest, Sync, EndPass
  <2>2. views[d] # <<>>
    BY <1>0, <2>1, NextPass
  <2>3. WrittenBy(d) = Chosen(asked[d])
    BY <2>1, <2>2 DEF WrittenBy, InPass
  <2>4. QED BY <2>1, <2>3 DEF WrittenBy
<1>6. ASSUME NEW outcome \in {"read", "count", "exists"}, ReadTable(d, outcome) PROVE FALSE
  <2>1. place[d] = "next" /\ passes[d] # <<>> /\ Head(passes[d]) \in Tables
    BY <1>6 DEF ReadTable
  <2>2. QED BY <1>0, <2>1, NextPass
<1>7. ASSUME NEW lost \in BOOLEAN, Answer(d, lost) PROVE FALSE
  BY <1>7 DEF Answer, Shape, RolloutTyped, RolloutTypeOK
<1>8. ASSUME NEW q \in Services, NEW lost \in SUBSET Rows, WriteMeta(d, q, lost) PROVE s = q
  <2>1. /\ place[d] = "write" /\ views' = views /\ asked' = asked /\ Proceed(d, q)
    BY <1>8 DEF WriteMeta
  <2>2. /\ todo'[d] = todo[d] \ {q}
        /\ place'[d] = IF todo[d] # {q} THEN "missing" ELSE "next"
    BY <2>1 DEF Proceed, Shape, RolloutTyped, RolloutTypeOK
  <2>3. views[d] # <<>>
    BY <2>1 DEF Shape, Along, InPass
  <2>4. CASE Len(views[d]) = 1
    <3>1. WrittenBy(d) = Chosen(asked[d]) \ todo[d]
      BY <2>1, <2>3, <2>4 DEF WrittenBy, InPass
    <3>2. WrittenBy(d)' \subseteq (Chosen(asked[d]) \ todo[d]) \cup {q}
      BY <2>1, <2>2, <2>3, <2>4 DEF WrittenBy, InPass
    <3>3. QED BY <3>1, <3>2
  <2>5. CASE Len(views[d]) # 1
    BY <2>1, <2>3, <2>5 DEF WrittenBy, InPass
  <2>6. QED BY <2>4, <2>5
<1>9. QED BY <1>1, <1>2, <1>3, <1>4, <1>5, <1>6, <1>7, <1>8 DEF CallerStep

LEMMA WrittenIsTrueNext ==
  ASSUME Shape, [RolloutNext]_rolloutVars, Trustworthy, WrittenIsTrue
  PROVE  WrittenIsTrue'
<1> SUFFICES ASSUME NEW d \in Callers, place'[d] # "idle", calm'[d], alone'[d], Writes(d)',
                    NEW r \in Rows, r[1] = asked'[d].tenant, r[2] \in WrittenBy(d)'
             PROVE  TrueRow(r)'
  BY DEF WrittenIsTrue
<1>1. ~Disturb
  BY DEF Disturb
<1>2. ASSUME place[d] # "idle", calm[d], alone[d], asked'[d] = asked[d], r[2] \in WrittenBy(d)
      PROVE  TrueRow(r)'
  <2>1. Trusted
    BY <1>2 DEF Trusted
  <2>2. Writes(d)
    BY <1>2 DEF Writes
  <2>3. TrueRow(r)
    BY <1>2, <2>2 DEF WrittenIsTrue
  <2>4. QED BY <1>1, <2>1, <2>3, RowsStayTrue
<1>3. CASE UNCHANGED rolloutVars
  <2>1. UNCHANGED <<place, asked, todo, views, calm, alone>>
    BY <1>3 DEF rolloutVars, local
  <2>2. WrittenBy(d)' = WrittenBy(d)
    BY <2>1 DEF WrittenBy, InPass
  <2>3. QED BY <1>2, <2>1, <2>2
<1>4. CASE Elsewhere
  <2>1. UNCHANGED <<place, asked, todo, views, alone>> /\ (calm'[d] => calm[d])
    BY <1>4 DEF Elsewhere, Exercise, ChangeSecret, ChangeFile, Migrate, CleanUp, Change, local, Disturb
  <2>2. WrittenBy(d)' = WrittenBy(d)
    BY <2>1 DEF WrittenBy, InPass
  <2>3. QED BY <1>2, <2>1, <2>2
<1>5. ASSUME NEW c \in Callers \ {d}, CallerStep(c) PROVE TrueRow(r)'
  <2>1. /\ place'[d] = place[d] /\ asked'[d] = asked[d] /\ todo'[d] = todo[d]
        /\ views'[d] = views[d] /\ alone'[d] = alone[d] /\ (calm'[d] => calm[d])
    BY <1>5, OtherCallers
  <2>2. WrittenBy(d)' = WrittenBy(d)
    BY <2>1 DEF WrittenBy, InPass
  <2>3. QED BY <1>2, <2>1, <2>2
<1>6. ASSUME CallerStep(d) PROVE TrueRow(r)'
  <2>1. CASE place[d] = "idle"
    <3>1. views'[d] = <<>>
      BY <1>1, <1>6, <2>1, OwnPlace
    <3>2. QED BY <3>1 DEF WrittenBy
  <2>2. CASE place[d] # "idle"
    <3>1. calm[d] /\ alone[d]
      BY <1>1, <1>6, <2>2, OwnPlace
    <3>2. asked'[d] = asked[d]
      <4>1. ASSUME NEW a \in Requests[d], BeginReport(d, a) PROVE FALSE
        BY <2>2, <4>1 DEF BeginReport
      <4>2. ASSUME NEW lost \in BOOLEAN, Answer(d, lost) PROVE FALSE
        BY <4>2 DEF Answer, Shape, RolloutTyped, RolloutTypeOK
      <4>3. ASSUME NEW s \in Services, NEW failing \in SUBSET Keys,
                   ReadMissing(d, s, failing) \/ ReadPresent(d, s, failing)
            PROVE  asked' = asked
        BY <4>3 DEF ReadMissing, ReadPresent
      <4>4. CASE \/ BeginPass(d)
                 \/ \E s \in Services, lost \in SUBSET Rows : WriteMeta(d, s, lost)
                 \/ Manifest(d)
                 \/ \E lost \in SUBSET Services : Sync(d, lost)
                 \/ \E outcome \in {"read", "count", "exists"} : ReadTable(d, outcome)
        BY <4>4 DEF BeginPass, WriteMeta, Manifest, Sync, ReadTable, EndPass
      <4>5. QED BY <1>6, <4>1, <4>2, <4>3, <4>4 DEF CallerStep
    <3>3. CASE r[2] \in WrittenBy(d)
      BY <1>2, <2>2, <3>1, <3>2, <3>3
    <3>4. CASE r[2] \notin WrittenBy(d)
      <4>1. Writes(d)
        BY <3>2 DEF Writes
      <4>2. PICK lost \in SUBSET Rows : WriteMeta(d, r[2], lost)
        BY <1>6, <2>2, <3>4, <4>1, WrittenGrows
      <4>3. r[2] \in Services
        BY DEF Rows
      <4>4. Credible(d)
        BY <2>2, <3>1 DEF Trustworthy
      <4>5. QED BY <3>2, <4>2, <4>3, <4>4, RowsWritten
    <3>5. QED BY <3>3, <3>4
  <2>3. QED BY <2>1, <2>2
<1>7. QED BY <1>3, <1>4, <1>5, <1>6, StepsOfRollout

LEMMA MetaTellsNext ==
  ASSUME Shape, [RolloutNext]_rolloutVars, Trustworthy, WrittenIsTrue, MetaTellsCredentials
  PROVE  MetaTellsCredentials'
<1> SUFFICES ASSUME NEW r \in Rows, r[1] \in told' PROVE TrueRow(r)'
  BY DEF MetaTellsCredentials, TrueRow
<1>1. ~Disturb
  BY DEF Disturb
<1>2. CASE r[1] \in told
  <2>1. Trusted /\ TrueRow(r)
    BY <1>2 DEF Trusted, MetaTellsCredentials, TrueRow
  <2>2. QED BY <1>1, <2>1, RowsStayTrue
<1>3. CASE r[1] \notin told
  <2>1. told' # told /\ ~(told' \subseteq told)
    BY <1>3
  <2>2. PICK c \in Callers : CallerStep(c)
    BY <2>1, StepsOfRollout DEF rolloutVars, Elsewhere, Exercise, ChangeSecret, ChangeFile, Migrate,
       CleanUp, Change, Disturb
  <2>3. PICK lost \in BOOLEAN : Answer(c, lost)
    BY <1>1, <2>1, <2>2, QuietStep DEF BeginReport
  <2>4. /\ place[c] = "next" /\ passes[c] = <<>> /\ calm[c] /\ alone[c]
        /\ asked[c].persist /\ Chosen(asked[c]) = Services
        /\ ~(asked[c].kind \in {"sync", "persistence"}) /\ r[1] = asked[c].tenant
    BY <1>3, <2>3 DEF Answer
  <2>5. asked[c] \in Request /\ views[c] \in Seq(View) /\ Len(views[c]) \in Nat
    BY DEF Shape, RolloutTyped, RolloutTypeOK
  <2>6. Remains(passes[c], asked[c], Len(views[c]))
    BY <2>4 DEF Shape, Along
  <2>7. Len(Passes(asked[c])) = Len(views[c])
    BY <2>4, <2>5, <2>6 DEF Remains
  <2>8. views[c] # <<>>
    BY <2>4, <2>5, <2>7, PassesTyped
  <2>9. WrittenBy(c) = Services /\ Writes(c)
    BY <2>4, <2>8 DEF WrittenBy, InPass, Writes
  <2>10. r[2] \in Services
    BY DEF Rows
  <2>11. TrueRow(r) /\ Trusted
    BY <2>4, <2>9, <2>10 DEF WrittenIsTrue, Trusted
  <2>12. QED BY <1>1, <2>11, RowsStayTrue
<1>4. QED BY <1>2, <1>3

-----------------------------------------------------------------------------
(* What a request finds while nothing changes and nothing fails.           *)

Over(c, i, s) == (InPass(c) /\ i = Len(views[c])) => s \notin todo[c]

SeesTrue(c, i) ==
  /\ Passes(asked[c])[i] = "pre" =>
       \A s \in Chosen(asked[c]) : Over(c, i, s) => views[c][i][s] = TrueView(s)
  /\ Passes(asked[c])[i] = "man" => views[c][i] = files

CalmSees ==
  \A c \in Callers : place[c] # "idle" /\ calm[c] => \A i \in 1..Len(views[c]) : SeesTrue(c, i)

(* A request stays calm only if nothing changed. *)
LEMMA CalmKeeps ==
  ASSUME Shape, [RolloutNext]_rolloutVars, NEW d \in Callers, calm'[d]
  PROVE  secret' = secret /\ files' = files /\ ~Disturb
<1>1. ~Disturb
  BY DEF Disturb
<1>2. CASE UNCHANGED rolloutVars
  BY <1>1, <1>2 DEF rolloutVars, world
<1>3. CASE Elsewhere
  BY <1>1, <1>3 DEF Elsewhere, Exercise, ChangeSecret, ChangeFile, Migrate, CleanUp, Change, world
<1>4. QED BY <1>1, <1>2, <1>3, QuietStep, StepsOfRollout

LEMMA SeenKept ==
  ASSUME NEW d \in Callers, NEW i, SeesTrue(d, i), asked'[d] = asked[d], views'[d] = views[d],
         secret' = secret, files' = files, InPass(d) => InPass(d)' /\ todo'[d] = todo[d]
  PROVE  SeesTrue(d, i)'
BY DEF SeesTrue, Over, TrueView

(* A new pass leaves what the earlier ones found. *)
LEMMA SeenBefore ==
  ASSUME Shape, NEW d \in Callers, NEW view \in View, place[d] = "next",
         NEW i \in 1..Len(views[d]), SeesTrue(d, i), asked'[d] = asked[d],
         views'[d] = Append(views[d], view), secret' = secret, files' = files
  PROVE  SeesTrue(d, i)'
<1>1. views[d] \in Seq(View) /\ Len(views[d]) \in Nat
  BY DEF Shape, RolloutTyped
<1>2. views'[d][i] = views[d][i] /\ Len(views'[d]) = Len(views[d]) + 1
  BY <1>1
<1>3. \A s : Over(d, i, s)
  BY DEF Over, InPass
<1>4. QED BY <1>2, <1>3 DEF SeesTrue, TrueView

LEMMA SeesByPass ==
  ASSUME Shape, NEW d \in Callers, NEW view \in View, place[d] = "next", passes[d] # <<>>,
         \A i \in 1..Len(views[d]) : SeesTrue(d, i), asked'[d] = asked[d],
         views'[d] = Append(views[d], view), secret' = secret, files' = files,
         Head(passes[d]) = "pre" => InPass(d)' /\ todo'[d] = Chosen(asked[d]),
         Head(passes[d]) = "man" => view = files
  PROVE  \A i \in 1..Len(views'[d]) : SeesTrue(d, i)'
<1> SUFFICES ASSUME NEW i \in 1..Len(views'[d]) PROVE SeesTrue(d, i)'
  OBVIOUS
<1>1. /\ views[d] \in Seq(View) /\ Len(views[d]) \in Nat
      /\ Head(passes[d]) = Passes(asked[d])[Len(views[d]) + 1]
  BY NextPass
<1>2. Len(views'[d]) = Len(views[d]) + 1 /\ views'[d][Len(views[d]) + 1] = view
  BY <1>1
<1>3. CASE i \in 1..Len(views[d])
  BY <1>3, SeenBefore
<1>4. CASE i = Len(views[d]) + 1
  <2>1. Passes(asked'[d])[i] = Head(passes[d]) /\ views'[d][i] = view
    BY <1>1, <1>2, <1>4
  <2>2. Head(passes[d]) = "pre" => \A s \in Chosen(asked'[d]) : ~Over(d, i, s)'
    BY <1>2, <1>4 DEF Over
  <2>3. QED BY <2>1, <2>2 DEF SeesTrue
<1>5. QED BY <1>1, <1>2, <1>3, <1>4

(* The service is through. *)
LEMMA SeesOneMore ==
  ASSUME Shape, NEW d \in Callers, InPass(d), NEW s \in Services, NEW i \in 1..Len(views[d]), SeesTrue(d, i),
         asked'[d] = asked[d], secret' = secret, files' = files,
         Len(views'[d]) = Len(views[d]),
         \A j \in 1..Len(views[d]) : j # Len(views[d]) => views'[d][j] = views[d][j],
         \A q \in Services \ {s} : views'[d][Len(views[d])][q] = views[d][Len(views[d])][q],
         \/ views'[d][Len(views[d])][s] = TrueView(s) /\ (InPass(d)' => todo[d] \ {s} \subseteq todo'[d])
                                                      /\ (~InPass(d)' => todo[d] = {s})
         \/ InPass(d)' /\ todo'[d] = todo[d] /\ s \in todo[d]
  PROVE  SeesTrue(d, i)'
<1>1. /\ views[d] \in Seq(View) /\ Len(views[d]) \in Nat /\ asked[d] \in Request
      /\ Chosen(asked[d]) \subseteq Services
  BY ChosenTyped DEF Shape, RolloutTyped, RolloutTypeOK
<1>2. CASE i # Len(views[d])
  <2>1. views'[d][i] = views[d][i] /\ \A q : Over(d, i, q)
    BY <1>2 DEF Over
  <2>2. QED BY <2>1 DEF SeesTrue, TrueView
<1>3. CASE i = Len(views[d])
  <2>1. Passes(asked[d])[i] = "pre"
    <3>1. /\ passes[d] \in Seq(Pass) /\ passes[d] # <<>> /\ Head(passes[d]) = "pre"
          /\ Remains(passes[d], asked[d], Len(views[d]) - 1) /\ Len(views[d]) - 1 \in Nat
      BY <1>1, <1>3 DEF Shape, RolloutTyped, Along
    <3>2. Head(passes[d]) = Passes(asked[d])[(Len(views[d]) - 1) + 1]
      BY <1>1, <3>1, RemainsLess
    <3>3. (Len(views[d]) - 1) + 1 = i
      BY <1>1, <1>3
    <3>4. QED BY <3>1, <3>2, <3>3
  <2>2. ASSUME NEW q \in Chosen(asked[d]), Over(d, i, q)' PROVE views'[d][i][q] = TrueView(q)
    <3>1. q \in Services
      BY <1>1
    <3>2. CASE q = s /\ views'[d][Len(views[d])][s] = TrueView(s)
      BY <1>3, <3>2
    <3>3. CASE q = s /\ InPass(d)' /\ todo'[d] = todo[d] /\ s \in todo[d]
      BY <1>3, <2>2, <3>3 DEF Over
    <3>4. CASE q # s
      <4>1. Over(d, i, q)
        BY <1>3, <2>2, <3>4 DEF Over
      <4>2. views[d][i][q] = TrueView(q)
        BY <2>1, <2>2, <4>1 DEF SeesTrue
      <4>3. QED BY <1>3, <3>1, <3>4, <4>2
    <3>5. QED BY <3>2, <3>3, <3>4
  <2>3. QED BY <2>1, <2>2 DEF SeesTrue, TrueView
<1>4. QED BY <1>2, <1>3

LEMMA CalmSeesOwn ==
  ASSUME Shape, Trustworthy, NEW d \in Callers, CallerStep(d), place[d] # "idle", place'[d] # "idle",
         calm[d], ~Disturb, secret' = secret, files' = files,
         \A i \in 1..Len(views[d]) : SeesTrue(d, i)
  PROVE  \A i \in 1..Len(views'[d]) : SeesTrue(d, i)'
<1>0. Credible(d)
  BY DEF Trustworthy
<1>1. ASSUME NEW a \in Requests[d], BeginReport(d, a) PROVE FALSE
  BY <1>1 DEF BeginReport
<1>2. CASE BeginPass(d)
  <2> DEFINE unread == [q \in Services |-> Unread]
  <2>1. /\ place[d] = "next" /\ passes[d] # <<>> /\ Head(passes[d]) = "pre"
        /\ asked' = asked /\ place'[d] = "missing" /\ todo'[d] = Chosen(asked[d])
        /\ views'[d] = Append(views[d], unread)
    BY <1>2 DEF BeginPass, Shape, RolloutTyped, RolloutTypeOK
  <2>2. unread \in View
    BY DEF View, CredentialView, Unread
  <2>3. InPass(d)'
    BY <2>1 DEF InPass
  <2> HIDE DEF unread
  <2>4. QED BY <2>1, <2>2, <2>3, SeesByPass
<1>3. ASSUME NEW s \in Services, NEW failing \in SUBSET Keys, ReadMissing(d, s, failing)
      PROVE  \A i \in 1..Len(views'[d]) : SeesTrue(d, i)'
  <2>1. views' = views /\ todo' = todo /\ asked' = asked /\ place'[d] = "present"
    BY <1>3 DEF ReadMissing, Shape, RolloutTyped, RolloutTypeOK
  <2>2. InPass(d)'
    BY <2>1 DEF InPass
  <2>3. QED BY <2>1, <2>2, SeenKept
<1>4. ASSUME NEW s \in Services, NEW failing \in SUBSET Keys, ReadPresent(d, s, failing)
      PROVE  \A i \in 1..Len(views'[d]) : SeesTrue(d, i)'
  <2>1. failing = {} /\ IsNext(d, s) /\ s \in todo[d] /\ place[d] = "present" /\ asked' = asked /\ InPass(d)
    BY <1>4 DEF ReadPresent, IsNext, InPass
  <2>2. /\ Len(views'[d]) = Len(views[d])
        /\ \A j \in 1..Len(views[d]) : j # Len(views[d]) => views'[d][j] = views[d][j]
        /\ views'[d][Len(views[d])][s] = TrueView(s)
        /\ \A q \in Services \ {s} : views'[d][Len(views[d])][q] = views[d][Len(views[d])][q]
    BY <1>0, <1>4, <2>1, ReadThrough DEF Credible, TrueView
  <2>3. CASE asked[d].persist
    <3>1. place'[d] = "write" /\ todo' = todo
      BY <1>4, <2>3 DEF ReadPresent, Shape, RolloutTyped, RolloutTypeOK
    <3>2. InPass(d)'
      BY <3>1 DEF InPass
    <3>3. QED BY <2>1, <2>2, <3>1, <3>2, SeesOneMore
  <2>4. CASE ~asked[d].persist
    <3>1. /\ todo'[d] = todo[d] \ {s}
          /\ place'[d] = IF todo[d] # {s} THEN "missing" ELSE "next"
      BY <1>4, <2>4 DEF ReadPresent, Proceed, Shape, RolloutTyped, RolloutTypeOK
    <3>2. ~InPass(d)' => todo[d] = {s}
      BY <3>1 DEF InPass
    <3>3. QED BY <2>1, <2>2, <3>1, <3>2, SeesOneMore
  <2>5. QED BY <2>3, <2>4
<1>5. ASSUME NEW s \in Services, NEW lost \in SUBSET Rows, WriteMeta(d, s, lost)
      PROVE  \A i \in 1..Len(views'[d]) : SeesTrue(d, i)'
  <2>1. /\ IsNext(d, s) /\ place[d] = "write" /\ asked' = asked /\ views' = views
        /\ Proceed(d, s) /\ InPass(d)
    BY <1>5 DEF WriteMeta, InPass
  <2>2. views'[d][Len(views[d])][s] = TrueView(s)
    BY <1>0, <2>1 DEF Credible
  <2>3. /\ todo'[d] = todo[d] \ {s}
        /\ place'[d] = IF todo[d] # {s} THEN "missing" ELSE "next"
    BY <2>1 DEF Proceed, Shape, RolloutTyped, RolloutTypeOK
  <2>4. ~InPass(d)' => todo[d] = {s}
    BY <2>3 DEF InPass
  <2>5. QED BY <2>1, <2>2, <2>3, <2>4, SeesOneMore
<1>6. CASE Manifest(d)
  <2>1. /\ place[d] = "next" /\ passes[d] # <<>> /\ Head(passes[d]) = "man"
        /\ asked' = asked /\ views'[d] = Append(views[d], files)
    BY <1>6 DEF Manifest, EndPass, Shape, RolloutTyped
  <2>2. files \in View
    BY DEF View, Shape, RolloutTyped, RolloutTypeOK
  <2>3. QED BY <2>1, <2>2, SeesByPass
<1>7. ASSUME NEW lost \in SUBSET Services, Sync(d, lost)
      PROVE  \A i \in 1..Len(views'[d]) : SeesTrue(d, i)'
  <2>1. /\ place[d] = "next" /\ passes[d] # <<>> /\ Head(passes[d]) = "sync"
        /\ asked' = asked /\ views'[d] = Append(views[d], "synced")
    BY <1>7 DEF Sync, EndPass, Shape, RolloutTyped
  <2>2. "synced" \in View
    BY DEF View
  <2>3. QED BY <2>1, <2>2, SeesByPass
<1>8. ASSUME NEW outcome \in {"read", "count", "exists"}, ReadTable(d, outcome)
      PROVE  \A i \in 1..Len(views'[d]) : SeesTrue(d, i)'
  <2>1. CASE outcome = "exists"
    <3>1. views'[d] = <<>>
      BY <1>8, <2>1 DEF ReadTable, Shape, RolloutTyped
    <3>2. QED BY <3>1
  <2>2. CASE outcome # "exists"
    <3> DEFINE table == Head(passes[d])
               view == IF table \notin migrated THEN "absent" ELSE IF outcome = "count" THEN "unknown"
                       ELSE IF Enough(table) THEN "enough" ELSE "short"
    <3>1. /\ place[d] = "next" /\ passes[d] # <<>> /\ table \in Tables
          /\ asked' = asked /\ views'[d] = Append(views[d], view)
      BY <1>8, <2>2 DEF ReadTable, EndPass, Shape, RolloutTyped
    <3>2. view \in View
      BY DEF View
    <3>3. table # "pre" /\ table # "man"
      BY <3>1, TablesListed
    <3> HIDE DEF view
    <3>4. QED BY <3>1, <3>2, <3>3, SeesByPass
  <2>3. QED BY <2>1, <2>2
<1>9. ASSUME NEW lost \in BOOLEAN, Answer(d, lost) PROVE FALSE
  BY <1>9 DEF Answer, Shape, RolloutTyped, RolloutTypeOK
<1>10. QED BY <1>1, <1>2, <1>3, <1>4, <1>5, <1>6, <1>7, <1>8, <1>9 DEF CallerStep

LEMMA CalmSeesNext ==
  ASSUME Shape, [RolloutNext]_rolloutVars, Trustworthy, CalmSees
  PROVE  CalmSees'
<1> SUFFICES ASSUME NEW d \in Callers, place'[d] # "idle", calm'[d]
             PROVE  \A i \in 1..Len(views'[d]) : SeesTrue(d, i)'
  BY DEF CalmSees
<1>1. secret' = secret /\ files' = files /\ ~Disturb
  BY CalmKeeps
<1>2. ASSUME place'[d] = place[d], asked'[d] = asked[d], views'[d] = views[d], todo'[d] = todo[d], calm[d]
      PROVE  \A i \in 1..Len(views'[d]) : SeesTrue(d, i)'
  <2>1. \A i \in 1..Len(views[d]) : SeesTrue(d, i)
    BY <1>2 DEF CalmSees
  <2>2. InPass(d) => InPass(d)'
    BY <1>2 DEF InPass
  <2>3. QED BY <1>1, <1>2, <2>1, <2>2, SeenKept
<1>3. CASE UNCHANGED rolloutVars
  BY <1>2, <1>3 DEF rolloutVars, local
<1>4. CASE Elsewhere
  <2>1. UNCHANGED local /\ (calm'[d] => calm[d])
    BY <1>4 DEF Elsewhere, Exercise, ChangeSecret, ChangeFile, Migrate, CleanUp, Change, Disturb
  <2>2. QED BY <1>2, <2>1 DEF local
<1>5. ASSUME NEW c \in Callers \ {d}, CallerStep(c)
      PROVE  \A i \in 1..Len(views'[d]) : SeesTrue(d, i)'
  BY <1>2, <1>5, OtherCallers
<1>6. ASSUME CallerStep(d)
      PROVE  \A i \in 1..Len(views'[d]) : SeesTrue(d, i)'
  <2>1. CASE place[d] = "idle"
    <3>1. views'[d] = <<>>
      BY <1>1, <1>6, <2>1, OwnPlace
    <3>2. QED BY <3>1
  <2>2. CASE place[d] # "idle"
    <3>1. calm[d]
      BY <1>1, <1>6, <2>2, OwnPlace
    <3>2. QED BY <1>1, <1>6, <2>2, <3>1, CalmSeesOwn DEF CalmSees
  <2>3. QED BY <2>1, <2>2
<1>7. QED BY <1>3, <1>4, <1>5, <1>6, StepsOfRollout

(* A bundle of views that are all true is of one piece. *)
LEMMA BundleTold ==
  ASSUME NEW chosen \in SUBSET Services, NEW v,
         \A i \in {1, 3, 5}, s \in chosen : v[i][s] = TrueView(s),
         v[2] = v[6]
  PROVE  OneStory(Bundle(chosen, v))
<1> DEFINE a == Bundle(chosen, v)
           yes == {s \in chosen : Configured(TrueView(s))}
           no == {s \in chosen : ~Configured(TrueView(s))}
           live == {s \in chosen : LiveReady(s, TrueView(s))}
<1>1. /\ a.configured = ConfiguredCount(chosen, v[3]) /\ a.live = LiveCount(chosen, v[3])
      /\ a.preflight.configured = ConfiguredCount(chosen, v[1])
      /\ a.preflight.live = LiveCount(chosen, v[1])
      /\ a.requires = Cardinality({s \in chosen : ~Configured(v[5][s])})
      /\ a.services = [s \in chosen |-> PlanItem(s, v[5][s], v[6])]
      /\ a.present = [s \in chosen |-> v[1][s].present]
      /\ a.packaged = [s \in chosen |-> PackagedOps(s, v[2])]
  BY DEF Bundle, Plan, Readiness, Preflight
<1>2. \A s \in chosen : v[1][s] = TrueView(s) /\ v[3][s] = TrueView(s) /\ v[5][s] = TrueView(s)
  OBVIOUS
<1> HIDE DEF a
<1>3. /\ {s \in chosen : Configured(v[1][s])} = yes /\ {s \in chosen : Configured(v[3][s])} = yes
      /\ {s \in chosen : ~Configured(v[5][s])} = no
      /\ {s \in chosen : LiveReady(s, v[1][s])} = live /\ {s \in chosen : LiveReady(s, v[3][s])} = live
  BY <1>2
<1>4. /\ a.configured = Cardinality(yes) /\ a.preflight.configured = Cardinality(yes)
      /\ a.live = Cardinality(live) /\ a.preflight.live = Cardinality(live)
      /\ a.requires = Cardinality(no)
  BY <1>1, <1>3 DEF ConfiguredCount, LiveCount
<1>5. DOMAIN a.services = chosen /\ \A s \in chosen : a.services[s] = PlanItem(s, TrueView(s), v[6])
  BY <1>1, <1>2
<1>6. \A s \in chosen : /\ a.services[s].configured = Configured(TrueView(s))
                        /\ a.services[s].live = LiveReady(s, TrueView(s))
                        /\ a.services[s].importable = Importable(s, v[6])
  <2> HIDE DEF yes, no, live
  <2>1. ASSUME NEW s \in chosen
        PROVE  /\ a.services[s].configured = Configured(TrueView(s))
               /\ a.services[s].live = LiveReady(s, TrueView(s))
               /\ a.services[s].importable = Importable(s, v[6])
    <3>1. a.services[s] = PlanItem(s, TrueView(s), v[6])
      BY <1>5
    <3> DEFINE item == PlanItem(s, TrueView(s), v[6])
    <3>2. /\ item.configured = Configured(TrueView(s)) /\ item.live = LiveReady(s, TrueView(s))
          /\ item.importable = Importable(s, v[6])
      BY DEF PlanItem
    <3> HIDE DEF item
    <3>3. a.services[s] = item
      BY <3>1 DEF item
    <3>4. QED BY <3>2, <3>3
  <2>2. QED BY <2>1
<1>7. {s \in chosen : a.services[s].configured} = yes /\ {s \in chosen : a.services[s].live} = live
  BY <1>6
<1>8. a.requires + a.configured = Cardinality(chosen)
  <2>1. IsFiniteSet(chosen)
    BY ServicesFinite, FiniteSubset
  <2>2. no = chosen \ yes /\ chosen \cap yes = yes /\ yes \subseteq chosen
    OBVIOUS
  <2> HIDE DEF yes, no
  <2>3. Cardinality(no) = Cardinality(chosen) - Cardinality(yes)
    <3>1. Cardinality(chosen \ yes) = Cardinality(chosen) - Cardinality(chosen \cap yes)
      BY ONLY <2>1, FS_Difference
    <3>2. QED BY ONLY <2>2, <3>1
  <2>4. Cardinality(chosen) \in Nat /\ Cardinality(yes) \in Nat
    BY <2>1, <2>2, FiniteSubset
  <2>5. \A n, y, o \in Int : o = n - y => o + y = n
    OBVIOUS
  <2>6. QED BY <1>4, <2>3, <2>4, <2>5
<1>9. ASSUME NEW s \in chosen
      PROVE  /\ a.services[s].configured <=> Missing(s, secret) = {}
             /\ a.present[s] = Present(s, secret)
             /\ a.packaged[s] # {} => a.services[s].importable
  <2>1. Configured(TrueView(s)) <=> Missing(s, secret) = {}
    BY DEF Configured, TrueView
  <2>2. a.present[s] = Present(s, secret)
    <3>1. TrueView(s).present = Present(s, secret)
      BY DEF TrueView
    <3>2. QED BY <1>1, <1>2, <3>1
  <2>3. a.packaged[s] # {} => Importable(s, v[6])
    BY <1>1 DEF PackagedOps, Importable
  <2>4. QED BY <1>6, <2>1, <2>2, <2>3
<1> HIDE DEF yes, no, live
<1>10. OneStory(a)
  BY <1>4, <1>5, <1>7, <1>8, <1>9 DEF OneStory
<1>11. QED BY <1>10 DEF a

BundlesTrue == \A c \in Callers : answer[c].kind = "bundle" /\ calm[c] => OneStory(answer[c])

LEMMA BundlesTrueNext ==
  ASSUME Shape, [RolloutNext]_rolloutVars, CalmSees, BundlesTrue
  PROVE  BundlesTrue'
<1> SUFFICES ASSUME NEW d \in Callers, NEW tale, tale = answer'[d], tale.kind = "bundle", calm'[d]
             PROVE  OneStory(tale)'
  BY DEF BundlesTrue, OneStory
<1>1. secret' = secret /\ ~Disturb
  BY CalmKeeps
<1>2. OneStory(tale) => OneStory(tale)'
  BY <1>1 DEF OneStory
<1>3. CASE answer'[d] = answer[d]
  <2>1. calm[d]
    <3>1. CASE UNCHANGED rolloutVars \/ Elsewhere
      BY <3>1 DEF rolloutVars, Elsewhere, Exercise, ChangeSecret, ChangeFile, Migrate, CleanUp, Disturb
    <3>2. ASSUME NEW c \in Callers \ {d}, CallerStep(c) PROVE calm[d]
      BY <3>2, OtherCallers
    <3>3. ASSUME NEW a \in Requests[d], BeginReport(d, a) PROVE FALSE
      <4>1. answer'[d] = NoAnswer
        BY <3>3 DEF BeginReport, Shape, RolloutTyped
      <4>2. QED BY <4>1 DEF NoAnswer
    <3>4. QED BY <1>1, <3>1, <3>2, <3>3, OwnPlace, StepsOfRollout
  <2>2. OneStory(answer[d])
    BY <1>3, <2>1 DEF BundlesTrue
  <2>3. OneStory(tale)
    BY <1>3, <2>2
  <2>4. QED BY <1>2, <2>3
<1>4. CASE answer'[d] = NoAnswer
  BY <1>4 DEF NoAnswer
<1>5. CASE place[d] = "next" /\ passes[d] = <<>> /\ answer'[d] = Report(d) /\ calm' = calm
  <2> DEFINE chosen == Chosen(asked[d])
  <2>1. asked[d].kind = "bundle" /\ Report(d) = Bundle(chosen, views[d])
    BY <1>5, ReportTyped
  <2>2. asked[d] \in Request /\ views[d] \in Seq(View) /\ Len(views[d]) \in Nat /\ chosen \in SUBSET Services
    BY ChosenTyped DEF Shape, RolloutTyped, RolloutTypeOK
  <2>3. Passes(asked[d]) = <<"pre", "man", "pre", "man", "pre", "man">>
    BY <2>1, <2>2, PassesTyped
  <2>4. Len(views[d]) = 6
    <3>1. Len(passes[d]) = 0 /\ Len(Passes(asked[d])) = 6
      BY <1>5, <2>3
    <3>2. Len(passes[d]) + Len(views[d]) = Len(Passes(asked[d]))
      BY <1>5, <2>1 DEF Shape, Along, Remains
    <3>3. QED BY <2>2, <3>1, <3>2
  <2>5. \A i \in 1..6 : SeesTrue(d, i)
    BY <1>5, <2>4 DEF CalmSees
  <2>6. \A i \in {1, 3, 5}, s \in chosen : views[d][i][s] = TrueView(s)
    <3>1. \A i \in {1, 3, 5} : i \in 1..6 /\ Passes(asked[d])[i] = "pre"
      BY <2>3
    <3>2. \A i, s : Over(d, i, s)
      BY <1>5 DEF Over, InPass
    <3>3. QED BY <2>5, <3>1, <3>2 DEF SeesTrue
  <2>7. views[d][2] = files /\ views[d][6] = files
    BY <2>3, <2>5 DEF SeesTrue
  <2> HIDE DEF chosen
  <2>8. OneStory(Bundle(chosen, views[d]))
    BY <2>2, <2>6, <2>7, BundleTold
  <2>9. tale = Bundle(chosen, views[d])
    BY <1>5, <2>1
  <2>10. QED BY <1>2, <2>8, <2>9
<1>6. QED BY <1>3, <1>4, <1>5, AnswerGiven

-----------------------------------------------------------------------------
RolloutInv ==
  /\ Shape /\ FoundEnough /\ Trustworthy /\ WrittenIsTrue /\ CalmSees
  /\ ProceedIsTrue /\ PlansCoherent /\ BundlesTrue /\ MetaTellsCredentials

LEMMA RolloutInvInit == RolloutInit => RolloutInv
<1> SUFFICES ASSUME RolloutInit PROVE RolloutInv
  OBVIOUS
<1>1. Shape
  BY ShapeInit
<1>2. \A c \in Callers : place[c] = "idle" /\ answer[c] = NoAnswer
  BY DEF RolloutInit
<1>3. told = {}
  BY DEF RolloutInit
<1>4. FoundEnough /\ Trustworthy /\ WrittenIsTrue /\ CalmSees
  BY <1>2 DEF FoundEnough, Trustworthy, WrittenIsTrue, CalmSees
<1>5. ProceedIsTrue /\ PlansCoherent /\ BundlesTrue
  BY <1>2 DEF ProceedIsTrue, PlansCoherent, BundlesTrue, NoAnswer
<1>6. MetaTellsCredentials
  BY <1>3 DEF MetaTellsCredentials
<1>7. QED BY <1>1, <1>4, <1>5, <1>6 DEF RolloutInv

LEMMA RolloutInvNext == RolloutInv /\ [RolloutNext]_rolloutVars => RolloutInv'
<1> SUFFICES ASSUME RolloutInv, [RolloutNext]_rolloutVars PROVE RolloutInv'
  OBVIOUS
<1>0. /\ Shape /\ FoundEnough /\ Trustworthy /\ WrittenIsTrue /\ CalmSees
      /\ ProceedIsTrue /\ PlansCoherent /\ BundlesTrue /\ MetaTellsCredentials
  BY DEF RolloutInv
<1>1. Shape'
  BY <1>0, ShapeNext
<1>2. FoundEnough' /\ ProceedIsTrue'
  BY <1>0, <1>1, FoundEnoughNext, ProceedNext
<1>3. Trustworthy' /\ WrittenIsTrue' /\ CalmSees'
  BY <1>0, TrustworthyNext, WrittenIsTrueNext, CalmSeesNext
<1>4. PlansCoherent' /\ BundlesTrue' /\ MetaTellsCredentials'
  BY <1>0, CoherentNext, BundlesTrueNext, MetaTellsNext
<1>5. QED BY <1>1, <1>2, <1>3, <1>4 DEF RolloutInv

(* The inductive invariant of the reports: what a request still passes     *)
(* over, and what it has found, are two parts of what its kind of report   *)
(* passes over (Shape); what it took for enough is enough, or was cleaned  *)
(* since it began; what it is about to write is the truth as long as       *)
(* anybody relies on it; and what a calm request has found, or written, is *)
(* the truth.                                                              *)
THEOREM RolloutInvariant == RolloutSpec => []RolloutInv
<1>1. RolloutInit => RolloutInv
  BY RolloutInvInit
<1>2. RolloutInv /\ [RolloutNext]_rolloutVars => RolloutInv'
  BY RolloutInvNext
<1>3. QED BY <1>1, <1>2, PTL DEF RolloutSpec

(* Every variable of the reports, and of the tables they fill, keeps its   *)
(* type.                                                                   *)
THEOREM RolloutTypes == RolloutSpec => []RolloutTypeOK
<1>1. RolloutInv => RolloutTypeOK
  BY DEF RolloutInv, Shape, RolloutTyped
<1>2. QED BY <1>1, RolloutInvariant, PTL

(* Whatever changes while it is made, a deployment plan is coherent for    *)
(* every service, and a rollout bundle whose passes nothing disturbed      *)
(* tells one story of the credentials and the files                        *)
(* (_build_connector_deployment_plan, _build_connector_rollout_bundle).    *)
THEOREM RolloutPlansAgree == RolloutSpec => []PlansAgree
<1>1. RolloutInv => PlansAgree
  BY DEF RolloutInv, PlansCoherent, BundlesTrue, PlansAgree
<1>2. QED BY <1>1, RolloutInvariant, PTL

(* After a persisting report on all services that nothing disturbed, the   *)
(* rows of connector_credentials_meta tell the credentials of its tenant,  *)
(* whatever the requests that run at the same time write                   *)
(* (_upsert_credential_metadata).                                          *)
THEOREM RolloutMetaTells == RolloutSpec => []MetaTellsCredentials
<1>1. RolloutInv => MetaTellsCredentials
  BY DEF RolloutInv
<1>2. QED BY <1>1, RolloutInvariant, PTL

(* A persistence report that says to proceed to live use found every       *)
(* table, and enough in it; that is still so when it is read, but for what *)
(* the cleanup has emptied since the request began                         *)
(* (_build_connector_persistence_report).                                  *)
THEOREM RolloutProceedIsTrue == RolloutSpec => []ProceedIsTrue
<1>1. RolloutInv => ProceedIsTrue
  BY DEF RolloutInv
<1>2. QED BY <1>1, RolloutInvariant, PTL
=============================================================================
