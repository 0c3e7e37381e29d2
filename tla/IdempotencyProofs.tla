------------------------- MODULE IdempotencyProofs -------------------------
(* Proofs about Idempotency and JobIntake, for any set of requests, any    *)
(* bodies and keys and any number of failing database calls.               *)
EXTENDS JobIntake, FiniteSetTheorems, TLAPS

(***************************************************************************)
(* Type correctness.                                                       *)
(***************************************************************************)

LEMMA NextTypeOK == TypeOK /\ [Next]_vars => TypeOK'
<1> SUFFICES ASSUME TypeOK, [Next]_vars PROVE TypeOK'
  OBVIOUS
<1> USE IdempotencyAssumption
<1>1. ASSUME NEW r \in Requests, Replay(r) PROVE TypeOK'
  BY <1>1 DEF TypeOK, PC, Replay, Goto, Replays, Arrive
<1>2. ASSUME NEW r \in Requests, Miss(r) PROVE TypeOK'
  BY <1>2 DEF TypeOK, PC, Miss, Goto, Arrive, Fault
<1>3. ASSUME NEW r \in Requests, Execute(r) PROVE TypeOK'
  BY <1>3 DEF TypeOK, PC, Execute, Goto
<1>4. ASSUME NEW r \in Requests, Store(r) PROVE TypeOK'
  BY <1>4 DEF TypeOK, PC, Store, Goto, Inserted, Fault
<1>5. ASSUME NEW r \in Requests, Break(r) PROVE TypeOK'
  BY <1>5 DEF TypeOK, PC, Break, Inserted
<1>6. CASE UNCHANGED vars
  BY <1>6 DEF TypeOK, vars
<1> QED
  BY <1>1, <1>2, <1>3, <1>4, <1>5, <1>6 DEF Next

(* Every variable of the cache keeps its type, and a request has an answer *)
(* exactly when it has left the middleware of request_context_and_auth     *)
(* with one.                                                               *)
THEOREM IdempotencyTypeOK == Spec => []TypeOK
<1>1. Init => TypeOK
  BY IdempotencyAssumption DEF Init, TypeOK, PC
<1> QED
  BY <1>1, NextTypeOK, PTL DEF Spec

(***************************************************************************)
(* Replays agree.  The property says of answers given what has to be said  *)
(* of the row they are taken from, and of the request about to write it:   *)
(* both are of handlers that have run.                                     *)
(***************************************************************************)

StoredIsExecuted == stored # Nothing => stored \in executed
StoringIsExecuted == \A r \in Requests : pc[r] = "store" => r \in executed

Inv == TypeOK /\ StoredIsExecuted /\ StoringIsExecuted /\ ReplaysAgree

(* A row, once inserted, is not replaced, and one inserted is the own      *)
(* answer of a request that has run its handler.                           *)
LEMMA RowIsKept ==
  ASSUME Inv, NEW r \in Requests, pc[r] = "store"
  PROVE  /\ Inserted(r) \in executed
         /\ stored # Nothing => Inserted(r) = stored
BY DEF Inv, StoredIsExecuted, StoringIsExecuted, Inserted

LEMMA NextInv == Inv /\ [Next]_vars => Inv'
<1> SUFFICES ASSUME Inv, [Next]_vars
             PROVE  (StoredIsExecuted /\ StoringIsExecuted /\ ReplaysAgree)'
  BY NextTypeOK DEF Inv
<1> USE IdempotencyAssumption DEF Inv, StoredIsExecuted, StoringIsExecuted
<1>1. ASSUME NEW r \in Requests, Replay(r)
      PROVE  (StoredIsExecuted /\ StoringIsExecuted /\ ReplaysAgree)'
  <2>1. /\ stored \in executed
        /\ BodyOf[stored] = BodyOf[r]
        /\ answer' = [answer EXCEPT ![r] = stored]
        /\ UNCHANGED <<stored, executed>>
    BY <1>1 DEF Replay, Replays
  <2>2. (StoredIsExecuted /\ StoringIsExecuted)'
    BY <1>1, <2>1 DEF Replay, Goto, TypeOK
  <2>3. ReplaysAgree'
    BY <2>1 DEF ReplaysAgree, TypeOK
  <2> QED BY <2>2, <2>3
<1>2. ASSUME NEW r \in Requests, Miss(r)
      PROVE  (StoredIsExecuted /\ StoringIsExecuted /\ ReplaysAgree)'
  BY <1>2 DEF Miss, Goto, ReplaysAgree, TypeOK
<1>3. ASSUME NEW r \in Requests, Execute(r)
      PROVE  (StoredIsExecuted /\ StoringIsExecuted /\ ReplaysAgree)'
  BY <1>3 DEF Execute, Goto, ReplaysAgree, TypeOK
<1>4. ASSUME NEW r \in Requests, Store(r)
      PROVE  (StoredIsExecuted /\ StoringIsExecuted /\ ReplaysAgree)'
  <2>1. /\ stored' \in {stored, Inserted(r)}
        /\ answer' = [answer EXCEPT ![r] = r]
        /\ UNCHANGED executed
        /\ pc[r] = "store"
    BY <1>4 DEF Store, Goto
  <2>2. (StoredIsExecuted /\ StoringIsExecuted)'
    BY <1>4, <2>1, RowIsKept DEF Store, Goto, TypeOK
  <2>3. ReplaysAgree'
    BY <2>1, RowIsKept DEF ReplaysAgree, TypeOK
  <2> QED BY <2>2, <2>3
<1>5. ASSUME NEW r \in Requests, Break(r)
      PROVE  (StoredIsExecuted /\ StoringIsExecuted /\ ReplaysAgree)'
  <2>1. /\ stored' # stored => pc[r] = "store" /\ stored' = Inserted(r)
        /\ UNCHANGED <<answer, executed>>
    BY <1>5 DEF Break
  <2>2. (StoredIsExecuted /\ StoringIsExecuted)'
    BY <1>5, <2>1, RowIsKept DEF Break, TypeOK
  <2>3. ReplaysAgree'
    BY <2>1, RowIsKept DEF ReplaysAgree, TypeOK
  <2> QED BY <2>2, <2>3
<1>6. CASE UNCHANGED vars
  BY <1>6 DEF vars, ReplaysAgree
<1> QED
  BY <1>1, <1>2, <1>3, <1>4, <1>5, <1>6 DEF Next

(* Whatever requests overlap, break off or lose their INSERT, a client is  *)
(* told the outcome of its own request or the one outcome stored, of a     *)
(* request with the same body (request_context_and_auth).                  *)
THEOREM IdempotencyReplaysAgree == Spec => []ReplaysAgree
<1>1. Init => Inv
  BY IdempotencyAssumption
  DEF Init, Inv, TypeOK, PC, StoredIsExecuted, StoringIsExecuted, ReplaysAgree
<1>2. Inv => ReplaysAgree
  BY DEF Inv
<1> QED
  BY <1>1, <1>2, NextInv, PTL DEF Spec

(***************************************************************************)
(* A retry does not run again.  Every run too many is the mark of a fault: *)
(* the lookup of the request raised, or the answer of an earlier request   *)
(* was not stored.  Two sets of requests, A of the failed lookups and S of *)
(* the failed INSERTs, keep the account, and are no larger together than   *)
(* the faults that happened.                                               *)
(***************************************************************************)

NotYetRun == \A r \in Requests : pc[r] \in {"new", "execute"} => r \notin executed

(* A request that was answered before r arrived did not keep r from its    *)
(* handler: its answer was not stored, or the row is for another body.     *)
Running(r) == pc[r] \in {"execute", "store"} \/ r \in executed
OtherBody(r) == stored # Nothing /\ BodyOf[stored] # BodyOf[r]

Unstored(S) == stored = Nothing => \A q \in Requests : pc[q] = "answered" => q \in S
Excused(A, S) == \A r \in Requests \ A : Running(r) =>
                   \A q \in before[r] : q \in S \/ OtherBody(r)
Accounted(A, S) == Unstored(S) /\ Excused(A, S)

FaultsExcuse ==
  \E A, S \in SUBSET Requests :
    Accounted(A, S) /\ Cardinality(A) + Cardinality(S) <= faults

RunInv == Inv /\ NotYetRun /\ FaultsExcuse

(* An account that survives a step with the same sets, or with one request *)
(* more in one of them and one fault more.                                 *)
LEMMA RequestSets ==
  ASSUME NEW A \in SUBSET Requests
  PROVE  /\ IsFiniteSet(A) /\ Cardinality(A) \in Nat
         /\ \A r \in Requests :
              /\ A \cup {r} \in SUBSET Requests
              /\ Cardinality(A \cup {r}) \in Nat
              /\ Cardinality(A \cup {r}) <= Cardinality(A) + 1
<1> USE IdempotencyAssumption
<1>1. IsFiniteSet(A) /\ Cardinality(A) \in Nat
  BY FS_Subset, FS_CardinalityType
<1>2. ASSUME NEW r \in Requests
      PROVE  /\ A \cup {r} \in SUBSET Requests
             /\ Cardinality(A \cup {r}) \in Nat
             /\ Cardinality(A \cup {r}) <= Cardinality(A) + 1
  <2>1. A \cup {r} \in SUBSET Requests
    OBVIOUS
  <2>2. IsFiniteSet(A \cup {r})
        /\ Cardinality(A \cup {r}) = (IF r \in A THEN Cardinality(A) ELSE Cardinality(A) + 1)
    BY <1>1, FS_AddElement
  <2> QED BY <1>1, <2>1, <2>2
<1> QED BY <1>1, <1>2

LEMMA AccountKept ==
  ASSUME TypeOK, TypeOK', faults' >= faults,
         NEW A \in SUBSET Requests, NEW S \in SUBSET Requests,
         Cardinality(A) + Cardinality(S) <= faults,
         Accounted(A, S)'
  PROVE  FaultsExcuse'
<1>1. faults \in Nat /\ faults' \in Nat
  BY IdempotencyAssumption DEF TypeOK
<1>2. Cardinality(A) \in Nat /\ Cardinality(S) \in Nat
  BY RequestSets
<1>3. Cardinality(A) + Cardinality(S) <= faults'
  BY <1>1, <1>2
<1> QED BY <1>3 DEF FaultsExcuse

LEMMA AccountCharged ==
  ASSUME TypeOK, TypeOK', faults' = faults + 1, NEW r \in Requests,
         NEW A \in SUBSET Requests, NEW S \in SUBSET Requests,
         Cardinality(A) + Cardinality(S) <= faults,
         Accounted(A \cup {r}, S)' \/ Accounted(A, S \cup {r})'
  PROVE  FaultsExcuse'
<1>1. faults \in Nat /\ faults' \in Nat
  BY IdempotencyAssumption DEF TypeOK
<1>2. /\ Cardinality(A) \in Nat /\ Cardinality(S) \in Nat
      /\ A \cup {r} \in SUBSET Requests /\ Cardinality(A \cup {r}) \in Nat
      /\ S \cup {r} \in SUBSET Requests /\ Cardinality(S \cup {r}) \in Nat
      /\ Cardinality(A \cup {r}) <= Cardinality(A) + 1
      /\ Cardinality(S \cup {r}) <= Cardinality(S) + 1
  BY RequestSets
<1>3. /\ Cardinality(A \cup {r}) + Cardinality(S) <= faults'
      /\ Cardinality(A) + Cardinality(S \cup {r}) <= faults'
  BY <1>1, <1>2
<1> QED BY <1>2, <1>3 DEF FaultsExcuse

(* The row, if it changes, takes the answer of the first request to store  *)
(* one, and an account that held with no row holds with any.               *)
LEMMA AccountOfRow ==
  ASSUME TypeOK, NEW A \in SUBSET Requests, NEW S \in SUBSET Requests,
         Accounted(A, S), NEW r \in Requests,
         \/ stored' = stored /\ (stored = Nothing => pc'[r] # "answered")
         \/ stored' = Inserted(r),
         pc[r] \in {"execute", "store"},
         \A q \in Requests \ {r} : pc'[q] = pc[q],
         UNCHANGED <<executed, before>>
  PROVE  Accounted(A, S)'
<1> USE IdempotencyAssumption DEF Accounted, TypeOK
<1>1. Unstored(S)'
  BY DEF Unstored, Inserted
<1>2. \A q \in Requests : Running(q)' => Running(q)
  <2>1. Running(r)
    BY DEF Running
  <2>2. ASSUME NEW q \in Requests \ {r} PROVE Running(q)' => Running(q)
    BY <2>2 DEF Running
  <2> QED BY <2>1, <2>2
<1>3. \A q \in Requests : OtherBody(q) => OtherBody(q)'
  BY DEF OtherBody, Inserted
<1>4. Excused(A, S)'
  BY <1>2, <1>3 DEF Excused
<1> QED BY <1>1, <1>4

LEMMA NextFaultsExcuse == RunInv /\ Next => FaultsExcuse'
<1> SUFFICES ASSUME RunInv, Next PROVE FaultsExcuse'
  OBVIOUS
<1>1. TypeOK /\ TypeOK'
  BY NextTypeOK DEF RunInv, Inv
<1>2. PICK A \in SUBSET Requests, S \in SUBSET Requests :
        Accounted(A, S) /\ Cardinality(A) + Cardinality(S) <= faults
  BY DEF RunInv, FaultsExcuse
<1>3. faults \in Nat
  BY <1>1, IdempotencyAssumption DEF TypeOK
<1>4. Accounted(A, S) /\ UNCHANGED faults => (Accounted(A, S)' => FaultsExcuse')
  BY <1>1, <1>2, <1>3, AccountKept
<1>5. ASSUME NEW r \in Requests, Replay(r) PROVE FaultsExcuse'
  <2>1. /\ stored # Nothing /\ stored' = stored
        /\ pc[r] = "new" /\ pc' = [pc EXCEPT ![r] = "answered"]
        /\ UNCHANGED <<executed, faults>>
        /\ \A q \in Requests \ {r} : before'[q] = before[q]
    BY <1>1, <1>5 DEF Replay, Goto, Replays, Arrive, TypeOK
  <2>2. ~Running(r)' /\ \A q \in Requests \ {r} : Running(q)' => Running(q)
    BY <1>1, <2>1 DEF Running, RunInv, NotYetRun, TypeOK
  <2>3. Accounted(A, S)'
    BY <1>2, <2>1, <2>2 DEF Accounted, Unstored, Excused, OtherBody
  <2> QED BY <1>2, <1>4, <2>1, <2>3
<1>6. ASSUME NEW r \in Requests, Miss(r) PROVE FaultsExcuse'
  <2>1. /\ pc[r] = "new" /\ pc' = [pc EXCEPT ![r] = "execute"]
        /\ UNCHANGED <<stored, executed>>
        /\ \A q \in Requests \ {r} : before'[q] = before[q]
        /\ before'[r] = {q \in Requests : pc[q] = "answered"}
    BY <1>1, <1>6 DEF Miss, Goto, Arrive, TypeOK
  <2>2. \A q \in Requests \ {r} : Running(q)' => Running(q)
    BY <1>1, <2>1 DEF Running, TypeOK
  <2>3. Unstored(S)'
    BY <1>1, <1>2, <2>1 DEF Accounted, Unstored, TypeOK
  <2>4. \A q \in Requests : OtherBody(q)' <=> OtherBody(q)
    BY <2>1 DEF OtherBody
  <2>5. CASE ~Replays(r) /\ UNCHANGED faults
    <3>1. \A q \in before'[r] : q \in S \/ OtherBody(r)
      BY <1>1, <1>2, <2>1, <2>5 DEF Accounted, Unstored, Replays, OtherBody, TypeOK
    <3>2. Excused(A, S)'
      BY <1>2, <2>1, <2>2, <2>4, <3>1 DEF Accounted, Excused
    <3> QED BY <1>2, <1>4, <2>3, <2>5, <3>2 DEF Accounted
  <2>6. CASE Fault
    <3>1. Excused(A \cup {r}, S)'
      BY <1>2, <2>1, <2>2, <2>4 DEF Accounted, Excused
    <3>2. faults' = faults + 1
      BY <2>6 DEF Fault
    <3> QED BY <1>1, <1>2, <2>3, <3>1, <3>2, AccountCharged DEF Accounted
  <2> QED BY <1>6, <2>5, <2>6 DEF Miss
<1>7. ASSUME NEW r \in Requests, Execute(r) PROVE FaultsExcuse'
  <2>1. /\ pc[r] = "execute" /\ pc'[r] \in {"store", "broken"}
        /\ \A q \in Requests \ {r} : pc'[q] = pc[q]
        /\ UNCHANGED <<stored, faults, before>> /\ executed' = executed \cup {r}
    BY <1>1, <1>7 DEF Execute, Goto, TypeOK
  <2>2. Running(r) /\ \A q \in Requests \ {r} : Running(q)' => Running(q)
    BY <2>1 DEF Running
  <2>3. Accounted(A, S)'
    BY <1>1, <1>2, <2>1, <2>2 DEF Accounted, Unstored, Excused, OtherBody
  <2> QED BY <1>2, <1>4, <2>1, <2>3
<1>8. ASSUME NEW r \in Requests, Store(r) PROVE FaultsExcuse'
  <2>1. /\ pc[r] = "store" /\ pc'[r] = "answered"
        /\ \A q \in Requests \ {r} : pc'[q] = pc[q]
        /\ UNCHANGED <<executed, before>>
    BY <1>1, <1>8 DEF Store, Goto, TypeOK
  <2>2. CASE stored' = Inserted(r) /\ UNCHANGED faults
    <3>1. Accounted(A, S)'
      BY <1>1, <1>2, <2>1, <2>2, AccountOfRow
    <3> QED BY <1>2, <1>4, <2>2, <3>1
  <2>3. CASE Fault /\ UNCHANGED stored
    <3>1. \A q \in Requests : Running(q)' => Running(q)
      BY <2>1 DEF Running
    <3>2. Unstored(S \cup {r})'
      BY <1>2, <2>1, <2>3 DEF Accounted, Unstored
    <3>3. Excused(A, S \cup {r})'
      BY <1>2, <2>1, <2>3, <3>1 DEF Accounted, Excused, OtherBody
    <3>4. faults' = faults + 1
      BY <2>3 DEF Fault
    <3> QED BY <1>1, <1>2, <3>2, <3>3, <3>4, AccountCharged DEF Accounted
  <2> QED BY <1>8, <2>2, <2>3 DEF Store
<1>9. ASSUME NEW r \in Requests, Break(r) PROVE FaultsExcuse'
  <2>1. /\ pc[r] \in {"execute", "store"} /\ pc'[r] = "broken"
        /\ \A q \in Requests \ {r} : pc'[q] = pc[q]
        /\ UNCHANGED <<executed, before, faults>>
        /\ stored' = stored \/ stored' = Inserted(r)
    BY <1>1, <1>9 DEF Break, TypeOK
  <2>2. Accounted(A, S)'
    BY <1>1, <1>2, <2>1, AccountOfRow
  <2> QED BY <1>2, <1>4, <2>1, <2>2
<1> QED BY <1>5, <1>6, <1>7, <1>8, <1>9 DEF Next

(* A fault elsewhere, of which this part only sees the count.              *)
FaultElsewhere == Fault /\ UNCHANGED <<stored, pc, answer, executed, before>>

LEMMA FaultElsewhereInv == Inv /\ FaultElsewhere => Inv'
BY IdempotencyAssumption
DEF FaultElsewhere, Fault, Inv, TypeOK, StoredIsExecuted, StoringIsExecuted, ReplaysAgree

LEMMA RunInvStep == RunInv /\ (Next \/ FaultElsewhere \/ UNCHANGED vars) => RunInv'
<1> SUFFICES ASSUME RunInv, Next \/ FaultElsewhere \/ UNCHANGED vars PROVE RunInv'
  OBVIOUS
<1>1. Inv'
  BY NextInv, FaultElsewhereInv DEF RunInv
<1>2. NotYetRun'
  <2>1. TypeOK
    BY DEF RunInv, Inv
  <2>2. CASE FaultElsewhere \/ UNCHANGED vars
    BY <2>2 DEF FaultElsewhere, vars, RunInv, NotYetRun
  <2>3. ASSUME NEW r \in Requests, Replay(r) \/ Miss(r) \/ Execute(r) PROVE NotYetRun'
    BY <2>1, <2>3 DEF Replay, Miss, Execute, Goto, RunInv, NotYetRun, TypeOK
  <2>4. ASSUME NEW r \in Requests, Store(r) \/ Break(r) PROVE NotYetRun'
    BY <2>1, <2>4 DEF Store, Break, Goto, RunInv, NotYetRun, TypeOK
  <2> QED BY <2>2, <2>3, <2>4 DEF Next
<1>3. CASE FaultElsewhere \/ UNCHANGED vars
  <2>1. PICK A \in SUBSET Requests, S \in SUBSET Requests :
          Accounted(A, S) /\ Cardinality(A) + Cardinality(S) <= faults
    BY DEF RunInv, FaultsExcuse
  <2>2. Accounted(A, S)'
    BY <1>3, <2>1
    DEF FaultElsewhere, vars, Accounted, Unstored, Excused, Running, OtherBody
  <2>3. TypeOK /\ TypeOK'
    BY <1>1 DEF RunInv, Inv
  <2>4. faults' >= faults
    <3>1. faults \in Nat
      BY <2>3, IdempotencyAssumption DEF TypeOK
    <3> QED BY <1>3, <3>1 DEF FaultElsewhere, Fault, vars
  <2>5. FaultsExcuse'
    BY <2>1, <2>2, <2>3, <2>4, AccountKept
  <2> QED BY <1>1, <1>2, <2>5 DEF RunInv
<1>4. CASE Next
  BY <1>1, <1>2, <1>4, NextFaultsExcuse DEF RunInv
<1> QED BY <1>3, <1>4

(* Outside the two sets there is one run at most.                          *)
LEMMA RunInvRunsOnce == RunInv => AnsweredRunsOnce
<1> SUFFICES ASSUME RunInv, stored # Nothing,
                    NEW R \in SUBSET {r \in executed : BodyOf[r] = BodyOf[stored]},
                    Retries(R)
             PROVE  Cardinality(R) <= faults + 1
  BY DEF AnsweredRunsOnce
<1>1. PICK A \in SUBSET Requests, S \in SUBSET Requests :
        Accounted(A, S) /\ Cardinality(A) + Cardinality(S) <= faults
  BY DEF RunInv, FaultsExcuse
<1>2. TypeOK
  BY DEF RunInv, Inv
<1>3. R \subseteq Requests /\ \A r \in R : Running(r) /\ ~OtherBody(r)
  BY <1>2 DEF TypeOK, Running, OtherBody
<1>4. \A q, r \in R \ (A \cup S) : q = r
  <2> SUFFICES ASSUME NEW q \in R \ (A \cup S), NEW r \in R \ (A \cup S), q # r
               PROVE  FALSE
    OBVIOUS
  <2>1. q \notin before[r] /\ r \notin before[q]
    BY <1>1, <1>3 DEF Accounted, Excused
  <2> QED BY <2>1 DEF Retries
<1>5. /\ IsFiniteSet(A \cup S) /\ Cardinality(A \cup S) \in Nat
      /\ Cardinality(A \cup S) <= Cardinality(A) + Cardinality(S)
      /\ Cardinality(A) \in Nat /\ Cardinality(S) \in Nat
  <2>1. /\ IsFiniteSet(A) /\ IsFiniteSet(S) /\ IsFiniteSet(A \cap S)
        /\ Cardinality(A) \in Nat /\ Cardinality(S) \in Nat
        /\ Cardinality(A \cap S) \in Nat
    BY RequestSets, FS_Intersection, FS_CardinalityType
  <2>2. /\ IsFiniteSet(A \cup S)
        /\ Cardinality(A \cup S) = Cardinality(A) + Cardinality(S) - Cardinality(A \cap S)
    BY <2>1, FS_Union
  <2>3. Cardinality(A \cup S) \in Nat
    BY <2>2, FS_CardinalityType
  <2> QED BY <2>1, <2>2, <2>3
<1>6. PICK x : R \subseteq (A \cup S) \cup {x}
  <2>1. CASE R \subseteq A \cup S
    BY <2>1
  <2>2. CASE ~(R \subseteq A \cup S)
    <3>1. PICK y \in R \ (A \cup S) : TRUE
      BY <2>2
    <3>2. R \subseteq (A \cup S) \cup {y}
      BY <1>4, <3>1
    <3> QED BY <3>2
  <2> QED BY <2>1, <2>2
<1>7. /\ IsFiniteSet((A \cup S) \cup {x})
      /\ Cardinality((A \cup S) \cup {x}) \in Nat
      /\ Cardinality((A \cup S) \cup {x}) <= Cardinality(A \cup S) + 1
  <2>1. /\ IsFiniteSet((A \cup S) \cup {x})
        /\ Cardinality((A \cup S) \cup {x})
             = (IF x \in A \cup S THEN Cardinality(A \cup S) ELSE Cardinality(A \cup S) + 1)
    BY <1>5, FS_AddElement
  <2> QED BY <1>5, <2>1, FS_CardinalityType
<1>8. Cardinality(R) \in Nat /\ Cardinality(R) <= Cardinality((A \cup S) \cup {x})
  BY <1>6, <1>7, FS_Subset, FS_CardinalityType
<1>9. faults \in Nat
  BY <1>2, IdempotencyAssumption DEF TypeOK
<1> QED BY <1>1, <1>5, <1>7, <1>8, <1>9

LEMMA InitRunInv == Init => RunInv
<1> SUFFICES ASSUME Init PROVE RunInv
  OBVIOUS
<1>1. Inv /\ NotYetRun
  BY IdempotencyAssumption
  DEF Init, Inv, TypeOK, PC, StoredIsExecuted, StoringIsExecuted, ReplaysAgree, NotYetRun
<1>2. Accounted({}, {})
  BY DEF Init, Accounted, Unstored, Excused
<1>3. Cardinality({}) + Cardinality({}) <= faults
  BY FS_EmptySet DEF Init
<1> QED BY <1>1, <1>2, <1>3 DEF RunInv, FaultsExcuse

(* A retry of an answered request runs its handler only because a call to  *)
(* the database failed: of requests with the body of the row, each sent    *)
(* after the one before it was answered, one runs, and one more per fault  *)
(* (the lookup and the INSERT of request_context_and_auth).                *)
THEOREM IdempotencyRunsOnce == Spec => []AnsweredRunsOnce
BY InitRunInv, RunInvStep, RunInvRunsOnce, PTL DEF Spec

(***************************************************************************)
(* Behind the middleware: jobs_enqueue as the handler.  To the middleware  *)
(* a step of the handler is nothing, or a fault elsewhere; so what was     *)
(* proved of the cache holds of the composition.                           *)
(***************************************************************************)

LEMMA HandlerLeavesCache ==
  ASSUME NEW r \in Requests,
         \/ Found(r) \/ NotFound(r) \/ Insert(r) \/ Refused(r) \/ Mirror(r)
  PROVE  UNCHANGED vars
BY DEF Found, NotFound, Insert, Refused, Mirror

LEMMA IntakeStep == [IntakeNext]_intakeVars => Next \/ FaultElsewhere \/ UNCHANGED vars
<1> SUFFICES ASSUME [IntakeNext]_intakeVars
             PROVE  Next \/ FaultElsewhere \/ UNCHANGED vars
  OBVIOUS
<1>1. ASSUME NEW r \in Requests,
             Found(r) \/ NotFound(r) \/ Insert(r) \/ Refused(r) \/ Mirror(r)
      PROVE  UNCHANGED vars
  BY <1>1, HandlerLeavesCache
<1>2. ASSUME NEW r \in Requests, HandlerRaises(r) PROVE FaultElsewhere
  BY <1>2 DEF HandlerRaises, FaultElsewhere
<1>3. ASSUME NEW r \in Requests, Respond(r) \/ Middleware(r) PROVE Next
  BY <1>3 DEF Respond, Middleware, Next
<1>4. CASE UNCHANGED intakeVars
  BY <1>4 DEF intakeVars
<1> QED BY <1>1, <1>2, <1>3, <1>4 DEF IntakeNext

LEMMA IntakeRunInv == IntakeSpec => []RunInv
<1>1. IntakeInit => RunInv
  BY InitRunInv DEF IntakeInit
<1>2. RunInv /\ [IntakeNext]_intakeVars => RunInv'
  BY IntakeStep, RunInvStep
<1> QED BY <1>1, <1>2, PTL DEF IntakeSpec

(* With jobs_enqueue as the handler, whatever it does and wherever it      *)
(* raises, a client is told its own outcome or the one that is stored.     *)
THEOREM IntakeReplaysAgree == IntakeSpec => []ReplaysAgree
<1>1. RunInv => ReplaysAgree
  BY DEF RunInv, Inv
<1> QED BY <1>1, IntakeRunInv, PTL

(* With jobs_enqueue as the handler too, a retry of an answered request    *)
(* runs it again only for a fault of the database.                         *)
THEOREM IntakeRunsOnce == IntakeSpec => []AnsweredRunsOnce
BY RunInvRunsOnce, IntakeRunInv, PTL

(***************************************************************************)
(* The handler's own variables.                                            *)
(***************************************************************************)

HandlerTypeOK ==
  /\ made \subseteq Requests
  /\ step \in [Requests -> {"lookup", "insert", "mirror", "answer", "raised"}]
  /\ told \in [Requests -> Requests \cup {Nothing}]

LEMMA NextHandlerTypeOK ==
  HandlerTypeOK /\ [IntakeNext]_intakeVars => HandlerTypeOK'
<1> SUFFICES ASSUME HandlerTypeOK, [IntakeNext]_intakeVars PROVE HandlerTypeOK'
  OBVIOUS
<1>1. ASSUME NEW r \in Requests, Found(r) \/ NotFound(r) PROVE HandlerTypeOK'
  <2>1. Existing(r) \subseteq Requests
    BY DEF Existing, SameKey, HandlerTypeOK
  <2> QED BY <1>1, <2>1 DEF Found, NotFound, Within, HandlerTypeOK
<1>2. ASSUME NEW r \in Requests, Insert(r) \/ Refused(r) \/ Mirror(r) PROVE HandlerTypeOK'
  BY <1>2 DEF Insert, Refused, Mirror, Within, HandlerTypeOK
<1>3. ASSUME NEW r \in Requests, HandlerRaises(r) PROVE HandlerTypeOK'
  BY <1>3 DEF HandlerRaises, Within, HandlerTypeOK
<1>4. ASSUME NEW r \in Requests, Respond(r) \/ Middleware(r) PROVE HandlerTypeOK'
  BY <1>4 DEF Respond, Middleware, handler, HandlerTypeOK
<1>5. CASE UNCHANGED intakeVars
  BY <1>5 DEF intakeVars, handler, HandlerTypeOK
<1> QED BY <1>1, <1>2, <1>3, <1>4, <1>5 DEF IntakeNext

(* Every variable of the cache and of jobs_enqueue keeps its type.         *)
THEOREM JobIntakeTypeOK == IntakeSpec => []IntakeTypeOK
<1>1. IntakeInit => HandlerTypeOK
  BY DEF IntakeInit, HandlerTypeOK
<1>2. RunInv /\ HandlerTypeOK => IntakeTypeOK
  BY DEF RunInv, Inv, HandlerTypeOK, IntakeTypeOK
<1> QED BY <1>1, <1>2, NextHandlerTypeOK, IntakeRunInv, PTL DEF IntakeSpec

(***************************************************************************)
(* Every request is told its job.  A handler that has its answer names a   *)
(* job that is in the table, no two jobs there have one key, and whose     *)
(* answer the cache holds or gave has a handler that is through.           *)
(***************************************************************************)

OneJobPerKey == \A q, r \in made : KeyOf[q] = KeyOf[r] => q = r
HandlerKnowsJob ==
  \A r \in Requests : step[r] \in {"mirror", "answer"} =>
    told[r] \in made /\ KeyOf[told[r]] = KeyOf[r]
JobsInv == HandlerTypeOK /\ OneJobPerKey /\ HandlerKnowsJob

StoringIsThrough == \A r \in Requests : pc[r] = "store" => step[r] = "answer"
StoredIsThrough == stored # Nothing => step[stored] = "answer"
AnswerIsThrough ==
  \A r \in Requests : pc[r] = "answered" =>
    /\ answer[r] \in Requests
    /\ step[answer[r]] = "answer"
    /\ KeyOf[answer[r]] = KeyOf[r]
ToldInv == JobsInv /\ StoringIsThrough /\ StoredIsThrough /\ AnswerIsThrough

LEMMA NextJobsInv == JobsInv /\ [IntakeNext]_intakeVars => JobsInv'
<1> SUFFICES ASSUME JobsInv, [IntakeNext]_intakeVars
             PROVE  OneJobPerKey' /\ HandlerKnowsJob'
  BY NextHandlerTypeOK DEF JobsInv
<1> USE DEF JobsInv
<1>1. ASSUME NEW r \in Requests, Found(r) PROVE OneJobPerKey' /\ HandlerKnowsJob'
  <2>1. PICK q \in Existing(r) : told' = [told EXCEPT ![r] = q]
    BY <1>1 DEF Found
  <2>2. q \in made /\ KeyOf[q] = KeyOf[r]
    BY <2>1 DEF Existing, SameKey
  <2> QED BY <1>1, <2>1, <2>2
          DEF Found, Within, OneJobPerKey, HandlerKnowsJob, HandlerTypeOK
<1>2. ASSUME NEW r \in Requests, Insert(r) PROVE OneJobPerKey' /\ HandlerKnowsJob'
  <2>1. \A q \in made : KeyOf[q] # KeyOf[r]
    BY <1>2 DEF Insert, Unique, SameKey
  <2> QED BY <1>2, <2>1
          DEF Insert, Within, OneJobPerKey, HandlerKnowsJob, HandlerTypeOK
<1>3. ASSUME NEW r \in Requests, NotFound(r) \/ Refused(r) \/ Mirror(r)
      PROVE  OneJobPerKey' /\ HandlerKnowsJob'
  BY <1>3 DEF NotFound, Refused, Mirror, Within, OneJobPerKey, HandlerKnowsJob, HandlerTypeOK
<1>4. ASSUME NEW r \in Requests, HandlerRaises(r) PROVE OneJobPerKey' /\ HandlerKnowsJob'
  BY <1>4 DEF HandlerRaises, Within, OneJobPerKey, HandlerKnowsJob, HandlerTypeOK
<1>5. CASE UNCHANGED handler
  BY <1>5 DEF handler, OneJobPerKey, HandlerKnowsJob
<1> QED BY <1>1, <1>2, <1>3, <1>4, <1>5 DEF IntakeNext, Respond, Middleware, intakeVars

(* A handler that is through stays through.                                *)
LEMMA ThroughForGood ==
  ASSUME HandlerTypeOK, [IntakeNext]_intakeVars, NEW q \in Requests, step[q] = "answer"
  PROVE  step'[q] = "answer"
<1>1. ASSUME NEW r \in Requests, Found(r) \/ NotFound(r) \/ Insert(r) \/ Refused(r) \/ Mirror(r)
      PROVE  step'[q] = "answer"
  BY <1>1 DEF Found, NotFound, Insert, Refused, Mirror, Within, HandlerTypeOK
<1>2. ASSUME NEW r \in Requests, HandlerRaises(r) PROVE step'[q] = "answer"
  BY <1>2 DEF HandlerRaises, Within, HandlerTypeOK
<1>3. CASE UNCHANGED handler
  BY <1>3 DEF handler
<1> QED BY <1>1, <1>2, <1>3 DEF IntakeNext, Respond, Middleware, intakeVars

LEMMA NextToldInv == RunInv /\ ToldInv /\ [IntakeNext]_intakeVars => ToldInv'
<1> SUFFICES ASSUME RunInv, ToldInv, [IntakeNext]_intakeVars
             PROVE  (StoringIsThrough /\ StoredIsThrough /\ AnswerIsThrough)'
  BY NextJobsInv DEF ToldInv
<1> USE IdempotencyAssumption DEF ToldInv, StoringIsThrough, StoredIsThrough, AnswerIsThrough
<1>1. TypeOK /\ HandlerTypeOK
  BY DEF RunInv, Inv, JobsInv
<1>2. \A q \in Requests : step[q] = "answer" => step'[q] = "answer"
  BY <1>1, ThroughForGood
<1>3. ASSUME pc' = pc, stored' = stored, answer' = answer
      PROVE  (StoringIsThrough /\ StoredIsThrough /\ AnswerIsThrough)'
  BY <1>1, <1>2, <1>3 DEF TypeOK
<1>4. ASSUME NEW r \in Requests, Respond(r)
      PROVE  (StoringIsThrough /\ StoredIsThrough /\ AnswerIsThrough)'
  <2>1. /\ \A q \in Requests \ {r} : pc'[q] = pc[q]
        /\ pc'[r] = "store" => step[r] = "answer"
        /\ pc'[r] # "answered"
        /\ UNCHANGED <<stored, answer>>
    BY <1>1, <1>4 DEF Respond, Execute, Goto, TypeOK
  <2>2. StoringIsThrough'
    BY <1>2, <2>1
  <2> QED BY <1>1, <1>2, <2>1, <2>2 DEF TypeOK
<1>5. ASSUME NEW r \in Requests, Replay(r)
      PROVE  (StoringIsThrough /\ StoredIsThrough /\ AnswerIsThrough)'
  <2>1. /\ stored \in Requests /\ BodyOf[stored] = BodyOf[r] /\ stored' = stored
        /\ pc' = [pc EXCEPT ![r] = "answered"]
        /\ answer' = [answer EXCEPT ![r] = stored]
    BY <1>1, <1>5 DEF Replay, Replays, Goto, TypeOK
  <2>2. KeyOf[stored] = KeyOf[r]
    BY <2>1, IntakeAssumption
  <2>3. (StoringIsThrough /\ StoredIsThrough)'
    BY <1>1, <1>2, <2>1 DEF TypeOK
  <2>4. AnswerIsThrough'
    BY <1>1, <1>2, <2>1, <2>2 DEF TypeOK
  <2> QED BY <2>3, <2>4
<1>6. ASSUME NEW r \in Requests, Miss(r)
      PROVE  (StoringIsThrough /\ StoredIsThrough /\ AnswerIsThrough)'
  <2>1. pc' = [pc EXCEPT ![r] = "execute"] /\ UNCHANGED <<stored, answer>>
    BY <1>6 DEF Miss, Goto
  <2> QED BY <1>1, <1>2, <2>1 DEF TypeOK
<1>7. ASSUME NEW r \in Requests, Store(r) \/ Break(r)
      PROVE  (StoringIsThrough /\ StoredIsThrough /\ AnswerIsThrough)'
  <2>1. /\ pc'[r] \in {"answered", "broken"} /\ \A q \in Requests \ {r} : pc'[q] = pc[q]
        /\ \A q \in Requests \ {r} : answer'[q] = answer[q]
        /\ pc'[r] = "answered" => answer'[r] = r /\ pc[r] = "store"
        /\ stored' = stored \/ (pc[r] = "store" /\ stored' = r)
    BY <1>1, <1>7 DEF Store, Break, Goto, Inserted, TypeOK
  <2>2. (StoringIsThrough /\ StoredIsThrough)'
    BY <1>1, <1>2, <2>1 DEF TypeOK
  <2>3. AnswerIsThrough'
    BY <1>1, <1>2, <2>1 DEF TypeOK
  <2> QED BY <2>2, <2>3
<1>8. ASSUME NEW r \in Requests,
             \/ Found(r) \/ NotFound(r) \/ Insert(r) \/ Refused(r) \/ Mirror(r)
             \/ HandlerRaises(r)
      PROVE  (StoringIsThrough /\ StoredIsThrough /\ AnswerIsThrough)'
  <2>1. pc' = pc /\ stored' = stored /\ answer' = answer
    BY <1>8, HandlerLeavesCache DEF HandlerRaises, vars
  <2> QED BY <1>3, <2>1
<1>9. CASE UNCHANGED intakeVars
  BY <1>3, <1>9 DEF intakeVars, vars
<1> QED BY <1>4, <1>5, <1>6, <1>7, <1>8, <1>9 DEF IntakeNext, Middleware

LEMMA IntakeToldInv == IntakeSpec => []ToldInv
<1>1. IntakeInit => ToldInv
  BY DEF IntakeInit, Init, ToldInv, JobsInv, HandlerTypeOK, OneJobPerKey, HandlerKnowsJob,
         StoringIsThrough, StoredIsThrough, AnswerIsThrough
<1> QED BY <1>1, NextToldInv, IntakeRunInv, PTL DEF IntakeSpec

LEMMA ToldInvToldItsJob == RunInv /\ ToldInv => ToldItsJob
<1> SUFFICES ASSUME RunInv, ToldInv PROVE ToldItsJob
  OBVIOUS
<1>1. \A r \in Requests : pc[r] = "answered" =>
        told[answer[r]] \in made /\ KeyOf[told[answer[r]]] = KeyOf[r]
  BY DEF ToldInv, JobsInv, AnswerIsThrough, HandlerKnowsJob
<1> QED BY <1>1 DEF ToldItsJob, ToldInv, JobsInv, OneJobPerKey

(* However requests race through the two guards of POST /jobs/enqueue, an  *)
(* answered one was told a job of the table with its key, and requests     *)
(* with one key were told the same job.                                    *)
THEOREM IntakeToldItsJob == IntakeSpec => []ToldItsJob
BY IntakeRunInv, IntakeToldInv, ToldInvToldItsJob, PTL

(***************************************************************************)
(* A retry is answered.  Its key was told to somebody before it arrived,   *)
(* so the job is there when the handler looks, and the handler gets to the *)
(* INSERT only where the lookup found nothing.                             *)
(***************************************************************************)

BeforeIsAnswered == \A r \in Requests : \A q \in before[r] : pc[q] = "answered"
NewHasNotLooked == \A r \in Requests : pc[r] = "new" => step[r] = "lookup"
InsertsNewKey ==
  \A r \in Requests :
    faults = 0 /\ KeyOf[r] # NoKey /\ step[r] \in {"insert", "raised"}
      => \A q \in before[r] : KeyOf[q] # KeyOf[r]
RetryInv == BeforeIsAnswered /\ NewHasNotLooked /\ InsertsNewKey

LEMMA NextRetryInv ==
  RunInv /\ ToldInv /\ RetryInv /\ [IntakeNext]_intakeVars => RetryInv'
<1> SUFFICES ASSUME RunInv, ToldInv, RetryInv, [IntakeNext]_intakeVars PROVE RetryInv'
  OBVIOUS
<1> USE DEF RetryInv, BeforeIsAnswered, NewHasNotLooked, InsertsNewKey
<1>1. TypeOK /\ HandlerTypeOK /\ faults \in Nat
  BY IdempotencyAssumption DEF RunInv, Inv, ToldInv, JobsInv, TypeOK
<1>2. ASSUME UNCHANGED vars, NEW r \in Requests, step[r] # "raised", pc[r] # "new",
             \A q \in Requests \ {r} : step'[q] = step[q],
             step'[r] \in {"insert", "raised"} =>
                 (KeyOf[r] # NoKey => \A q \in before[r] : KeyOf[q] # KeyOf[r])
                 \/ step[r] = "insert"
      PROVE  RetryInv'
  BY <1>1, <1>2 DEF vars, TypeOK
<1>3. ASSUME NEW r \in Requests, NotFound(r) PROVE RetryInv'
  <2>1. ASSUME KeyOf[r] # NoKey, NEW q \in before[r] PROVE KeyOf[q] # KeyOf[r]
    <3>1. q \in Requests /\ pc[q] = "answered"
      BY <1>1, <2>1 DEF TypeOK
    <3>2. told[answer[q]] \in made /\ KeyOf[told[answer[q]]] = KeyOf[q]
      BY <3>1, ToldInvToldItsJob DEF ToldItsJob
    <3> QED BY <1>3, <2>1, <3>2 DEF NotFound, Existing, SameKey
  <2>2. /\ pc[r] # "new" /\ step[r] = "lookup" /\ UNCHANGED vars
        /\ \A q \in Requests \ {r} : step'[q] = step[q]
    BY <1>1, <1>3 DEF NotFound, Within, HandlerTypeOK
  <2> QED BY <1>2, <2>1, <2>2
<1>4. ASSUME NEW r \in Requests, Found(r) \/ Insert(r) \/ Refused(r) \/ Mirror(r)
      PROVE  RetryInv'
  <2>1. /\ pc[r] # "new" /\ step[r] # "raised"
        /\ \A q \in Requests \ {r} : step'[q] = step[q]
        /\ step'[r] \in {"insert", "raised"} => step[r] = "insert"
    BY <1>1, <1>4 DEF Found, Insert, Refused, Mirror, Within, HandlerTypeOK
  <2>2. UNCHANGED vars
    BY <1>4, HandlerLeavesCache
  <2> QED BY <1>2, <2>1, <2>2
<1>5. ASSUME NEW r \in Requests, HandlerRaises(r) PROVE RetryInv'
  <2>1. faults' # 0 /\ pc[r] # "new" /\ UNCHANGED <<pc, before>>
        /\ \A q \in Requests \ {r} : step'[q] = step[q]
    BY <1>1, <1>5 DEF HandlerRaises, Within, Fault, HandlerTypeOK
  <2> QED BY <1>1, <2>1 DEF TypeOK
<1>6. ASSUME NEW r \in Requests, Replay(r) \/ Miss(r), UNCHANGED handler PROVE RetryInv'
  <2>1. /\ pc[r] = "new" /\ pc'[r] # "new" /\ step' = step
        /\ \A q \in Requests \ {r} : pc'[q] = pc[q] /\ before'[q] = before[q]
        /\ before'[r] = {q \in Requests : pc[q] = "answered"}
        /\ faults' = 0 => faults = 0
    BY <1>1, <1>6 DEF Replay, Miss, Goto, Arrive, Fault, handler, TypeOK
  <2>2. BeforeIsAnswered'
    BY <1>1, <2>1 DEF TypeOK
  <2>3. NewHasNotLooked'
    BY <2>1
  <2>4. InsertsNewKey'
    BY <1>1, <2>1 DEF TypeOK
  <2> QED BY <2>2, <2>3, <2>4
<1>7. ASSUME NEW r \in Requests, Store(r) \/ Break(r) \/ Execute(r), UNCHANGED handler
      PROVE  RetryInv'
  <2>1. /\ pc[r] \notin {"new", "answered"} /\ pc'[r] # "new"
        /\ step' = step /\ before' = before
        /\ \A q \in Requests \ {r} : pc'[q] = pc[q]
        /\ faults' = 0 => faults = 0
    BY <1>1, <1>7 DEF Store, Break, Execute, Goto, Fault, handler, TypeOK
  <2>2. BeforeIsAnswered'
    BY <1>1, <2>1 DEF TypeOK
  <2> QED BY <1>1, <2>1, <2>2
<1>8. CASE UNCHANGED intakeVars
  BY <1>8 DEF intakeVars, vars, handler
<1> QED BY <1>3, <1>4, <1>5, <1>6, <1>7, <1>8 DEF IntakeNext, Middleware, Respond

(* While no call to the database fails, a request with a key that arrives  *)
(* after one with its key was answered is not refused (jobs_enqueue).      *)
THEOREM IntakeRetryIsAnswered == IntakeSpec => []RetryIsAnswered
<1>1. IntakeInit => RetryInv
  BY DEF IntakeInit, Init, RetryInv, BeforeIsAnswered, NewHasNotLooked, InsertsNewKey
<1>2. RetryInv => RetryIsAnswered
  BY DEF RetryInv, InsertsNewKey, RetryIsAnswered
<1> QED BY <1>1, <1>2, NextRetryInv, IntakeRunInv, IntakeToldInv, PTL DEF IntakeSpec
=============================================================================
