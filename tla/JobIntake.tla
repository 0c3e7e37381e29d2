----------------------------- MODULE JobIntake -----------------------------
(***************************************************************************)
(* POST /jobs/enqueue behind the middleware: the requests of Idempotency,  *)
(* with jobs_enqueue (service/app/main.py) as their handler.  A request is *)
(* guarded twice: by the X-Idempotency-Key the middleware looks up, and by *)
(* the idempotency_key of its body, which the handler looks up in jobs and *)
(* which UNIQUE NULLS NOT DISTINCT (tenant_id, idempotency_key) protects.  *)
(* The handler's statements are separate transactions.  A job is named by  *)
(* the request that inserted it.                                           *)
(***************************************************************************)
EXTENDS Idempotency

CONSTANTS
  KeyOf,  \* the idempotency_key in the body of a request
  NoKey   \* NULL

ASSUME IntakeAssumption ==
  \A q, r \in Requests : BodyOf[q] = BodyOf[r] => KeyOf[q] = KeyOf[r]

VARIABLES
  made,   \* requests whose INSERT made a job
  step,   \* where the handler of a request is
  told    \* the job the handler's answer names

handler == <<made, step, told>>
intakeVars == <<vars, handler>>

IntakeInit ==
  /\ Init
  /\ made = {}
  /\ step = [r \in Requests |-> "lookup"]
  /\ told = [r \in Requests |-> Nothing]

(* The handler runs in a thread, which goes on when the client has gone.   *)
Within(r, from, to) ==
  /\ pc[r] \in {"execute", "broken"} /\ step[r] = from
  /\ step' = [step EXCEPT ![r] = to]

SameKey(r) == {q \in made : KeyOf[q] = KeyOf[r]}

(* Mutant of Existing: the key is not looked up. *)
ExistingIgnored(r) == {}
(* A request without a key looks nothing up. *)
Existing(r) == IF KeyOf[r] = NoKey THEN {} ELSE SameKey(r)

Found(r) ==
  /\ Within(r, "lookup", "answer")
  /\ \E q \in Existing(r) : told' = [told EXCEPT ![r] = q]
  /\ UNCHANGED <<vars, made>>

NotFound(r) ==
  /\ Within(r, "lookup", "insert")
  /\ Existing(r) = {}
  /\ UNCHANGED <<vars, made, told>>

(* Mutant of Unique: the table has no such constraint. *)
NeverUnique(r) == TRUE
(* NULLS NOT DISTINCT: two jobs without a key collide as well. *)
Unique(r) == SameKey(r) = {}

Insert(r) ==
  /\ Within(r, "insert", "mirror")
  /\ Unique(r)
  /\ made' = made \cup {r}
  /\ told' = [told EXCEPT ![r] = r]
  /\ UNCHANGED vars

Refused(r) ==
  /\ Within(r, "insert", "raised")
  /\ ~Unique(r)
  /\ UNCHANGED <<vars, made, told>>

(* enqueue_queue_item: nothing in the way with the database backend. *)
Mirror(r) ==
  /\ Within(r, "mirror", "answer")
  /\ UNCHANGED <<vars, made, told>>

(* The database or Redis raises, and nothing in the handler catches it.    *)
HandlerRaises(r) ==
  /\ step[r] \in {"lookup", "insert", "mirror"}
  /\ step[r] = "lookup" => KeyOf[r] # NoKey
  /\ Within(r, step[r], "raised")
  /\ Fault
  /\ UNCHANGED <<stored, pc, answer, executed, before, made, told>>

(* The middleware gets the handler's answer, or its exception.             *)
Respond(r) ==
  /\ step[r] \in {"answer", "raised"}
  /\ Execute(r)
  /\ pc'[r] = (IF step[r] = "answer" THEN "store" ELSE "broken")
  /\ UNCHANGED handler

Middleware(r) ==
  /\ Replay(r) \/ Miss(r) \/ Store(r) \/ Break(r)
  /\ UNCHANGED handler

IntakeNext ==
  \E r \in Requests :
    \/ Found(r) \/ NotFound(r) \/ Insert(r) \/ Refused(r) \/ Mirror(r)
    \/ HandlerRaises(r) \/ Respond(r) \/ Middleware(r)

IntakeSpec == IntakeInit /\ [][IntakeNext]_intakeVars

-----------------------------------------------------------------------------
IntakeTypeOK ==
  /\ TypeOK
  /\ made \subseteq Requests
  /\ step \in [Requests -> {"lookup", "insert", "mirror", "answer", "raised"}]
  /\ told \in [Requests -> Requests \cup {Nothing}]

(* Whatever the two guards do between them, replay, lookup or refusal: an  *)
(* answered request was told a job that is in the table and has its key,   *)
(* and all requests with the same key were told the same job.              *)
ToldItsJob ==
  \A r \in Requests : pc[r] = "answered" =>
    /\ told[answer[r]] \in made
    /\ KeyOf[told[answer[r]]] = KeyOf[r]
    /\ \A q \in Requests : pc[q] = "answered" /\ KeyOf[q] = KeyOf[r] /\ KeyOf[r] # NoKey
                             => told[answer[q]] = told[answer[r]]

(* A retry is never turned away: without a fault of the database, a        *)
(* request with a key is refused only if the one that made the job had not *)
(* been answered when it arrived.  Requests without a key have no such     *)
(* right: their second job of a tenant is always refused.                  *)
RetryIsAnswered ==
  \A r \in Requests :
    faults = 0 /\ KeyOf[r] # NoKey /\ step[r] = "raised"
      => \A q \in before[r] : KeyOf[q] # KeyOf[r]
=============================================================================
