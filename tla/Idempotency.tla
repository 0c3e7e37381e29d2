---------------------------- MODULE Idempotency ----------------------------
(***************************************************************************)
(* The idempotency cache of the HTTP middleware (request_context_and_auth  *)
(* of service/app/main.py), for the POST requests of one tenant that carry *)
(* the same X-Idempotency-Key to the same route: the table row of          *)
(* idempotency_keys, of which UNIQUE (tenant_id, idempotency_key, route)   *)
(* allows one, and the requests around it.                                 *)
(*                                                                         *)
(* The lookup, the handler (call_next) and the INSERT of its answer are    *)
(* three steps with an await between them, so other requests run between   *)
(* them.  An answer is represented by the request whose execution gave it. *)
(***************************************************************************)
EXTENDS Naturals, FiniteSets

CONSTANTS
  Requests,   \* POST requests with the one key, retries included
  Bodies,     \* request bodies, told apart by their hash
  BodyOf,     \* the body of a request
  MaxFaults,  \* bound on failing database calls
  Nothing     \* no row, no answer

ASSUME IdempotencyAssumption ==
  /\ IsFiniteSet(Requests)
  /\ BodyOf \in [Requests -> Bodies]
  /\ MaxFaults \in Nat
  /\ Nothing \notin Requests

VARIABLES
  stored,    \* the row of idempotency_keys: whose answer it holds
  pc,        \* where a request is in the middleware
  answer,    \* whose answer a request was given
  executed,  \* requests whose handler has run
  faults     \* faults used up

(* History: the requests that had been answered when a request arrived. *)
VARIABLE before

vars == <<stored, pc, answer, executed, faults, before>>

PC == {"new", "execute", "store", "answered", "broken"}

Init ==
  /\ stored   = Nothing
  /\ pc       = [r \in Requests |-> "new"]
  /\ answer   = [r \in Requests |-> Nothing]
  /\ executed = {}
  /\ faults   = 0
  /\ before   = [r \in Requests |-> {}]

Goto(r, from, to) == pc[r] = from /\ pc' = [pc EXCEPT ![r] = to]
Arrive(r) == before' = [before EXCEPT ![r] = {q \in Requests : pc[q] = "answered"}]

(* A database call succeeds, or raises and the exception is swallowed. *)
Fault == faults < MaxFaults /\ faults' = faults + 1

-----------------------------------------------------------------------------
(* The stored answer is replayed if the request has the body it answers.   *)
(* Mutant of Replays: request_hash is not looked at. *)
ReplaysAny(r) == stored # Nothing
Replays(r) == stored # Nothing /\ BodyOf[stored] = BodyOf[r]

Replay(r) ==
  /\ Goto(r, "new", "answered")
  /\ Replays(r)
  /\ answer' = [answer EXCEPT ![r] = stored]
  /\ Arrive(r)
  /\ UNCHANGED <<stored, executed, faults>>

Miss(r) ==
  /\ Goto(r, "new", "execute")
  /\ Arrive(r)
  /\ \/ ~Replays(r) /\ UNCHANGED faults
     \/ Fault
  /\ UNCHANGED <<stored, answer, executed>>

(* call_next: the handler answers, an HTTPException included; or it raises *)
(* anything else and the middleware with it, whatever it had done by then. *)
Execute(r) ==
  /\ \/ Goto(r, "execute", "store") \/ Goto(r, "execute", "broken")
  /\ executed' = executed \cup {r}
  /\ UNCHANGED <<stored, answer, faults, before>>

(* The INSERT has no ON CONFLICT: a second row is refused by UNIQUE and    *)
(* _safe_db_execute drops the exception; the request keeps its own answer. *)
(* Mutant of Inserted: the second row takes the place of the first. *)
Replaced(r) == r
Inserted(r) == IF stored = Nothing THEN r ELSE stored

Store(r) ==
  /\ Goto(r, "store", "answered")
  /\ answer' = [answer EXCEPT ![r] = r]
  /\ \/ stored' = Inserted(r) /\ UNCHANGED faults
     \/ Fault /\ UNCHANGED stored
  /\ UNCHANGED <<executed, before>>

(* The service stops, or the client goes, before the answer is sent; after *)
(* the INSERT the answer is in the table all the same.                     *)
Break(r) ==
  /\ pc[r] \in {"execute", "store"}
  /\ pc' = [pc EXCEPT ![r] = "broken"]
  /\ stored' \in {stored, IF pc[r] = "store" THEN Inserted(r) ELSE stored}
  /\ UNCHANGED <<answer, executed, faults, before>>

Next == \E r \in Requests : Replay(r) \/ Miss(r) \/ Execute(r) \/ Store(r) \/ Break(r)

Spec == Init /\ [][Next]_vars

-----------------------------------------------------------------------------
TypeOK ==
  /\ stored \in Requests \cup {Nothing}
  /\ pc \in [Requests -> PC]
  /\ answer \in [Requests -> Requests \cup {Nothing}]
  /\ executed \in SUBSET Requests
  /\ faults \in 0 .. MaxFaults
  /\ before \in [Requests -> SUBSET Requests]
  /\ \A r \in Requests : pc[r] = "answered" <=> answer[r] # Nothing

(* What a client is told is the outcome of its own request or, replayed,   *)
(* of one with the same body, and all replays tell the same: whichever     *)
(* requests raced for the row, the answer kept is never replaced           *)
(* (request_hash comparison and INSERT of request_context_and_auth).       *)
ReplaysAgree ==
  \A r \in Requests :
    /\ answer[r] \notin {r, Nothing} =>
         /\ answer[r] = stored
         /\ answer[r] \in executed
         /\ BodyOf[answer[r]] = BodyOf[r]
    /\ answer[r] = r => r \in executed

(* A retry does not run again: of requests with the body that holds the    *)
(* key, each sent when the one before it had been answered, one runs its   *)
(* handler, and one more for each fault of the database (an answer that    *)
(* was not stored, a lookup that raised).  Requests that overlapped may    *)
(* run each, and so may the retry of a request that was never answered.    *)
Retries(R) == \A q, r \in R : q = r \/ q \in before[r] \/ r \in before[q]

AnsweredRunsOnce ==
  stored # Nothing =>
    \A R \in SUBSET {r \in executed : BodyOf[r] = BodyOf[stored]} :
      Retries(R) => Cardinality(R) <= faults + 1
=============================================================================
