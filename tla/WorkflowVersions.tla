-------------------------- MODULE WorkflowVersions --------------------------
(***************************************************************************)
(* The versions of one workflow of one tenant: the table workflow_versions *)
(* and the endpoints /workflows/version/create, /promote and /rollback     *)
(* (service/app/main.py).                                                  *)
(*                                                                         *)
(* The endpoints are plain functions, which the framework runs on a thread *)
(* pool, and every statement is committed by itself: a handler reads,      *)
(* decides and writes in separate steps, and any other handler may run     *)
(* between two of them.  Each step below is one statement.  Requests that  *)
(* are refused leave no trace and appear only as guards.  The audit rows   *)
(* of workflow_version_events are left out.                                *)
(***************************************************************************)
EXTENDS Integers, FiniteSets

CONSTANTS
  Clients,      \* requests that may be in progress at the same time
  MaxVersion,   \* bound on version numbers (rollback makes none beyond)
  Definitions,  \* values of definition_json
  NoDefinition, \* the definition of a version that does not exist
  MaxFaults     \* bound on failing statements and abandoned requests

ASSUME VersionsAssumption ==
  /\ IsFiniteSet(Clients)
  /\ MaxVersion \in Nat /\ MaxFaults \in Nat
  /\ NoDefinition \notin Definitions

VARIABLES
  status,      \* workflow_versions.status, "absent" without a row
  definition,  \* workflow_versions.definition_json
  pc,          \* the statement a request executes next
  req,         \* what it has read or been asked for
  faults       \* faults used up

(* History variables. *)
VARIABLES
  raced,       \* versions written between the read and the write of another request
  vetted,      \* definitions a version has had while 'tested' or 'approved'
  promise      \* how many versions the promotes so far leave published

table   == <<status, definition>>
request == <<pc, req>>
history == <<raced, vetted, promise>>
vars == <<table, request, faults, history>>

Versions == 1..MaxVersion
Status   == {"draft", "tested", "approved", "published"}

(* Where a request has read its version and is yet to write it. *)
Writing == {"create", "demote", "set", "insert"}
PC == Writing \cup {"idle", "latest", "check"}

NoRequest == [version |-> 0, source |-> 0, status |-> "draft", definition |-> NoDefinition]

Published == {v \in Versions : status[v] = "published"}
Exists(v) == status[v] # "absent"

-----------------------------------------------------------------------------
Init ==
  /\ status     = [v \in Versions |-> "absent"]
  /\ definition = [v \in Versions |-> NoDefinition]
  /\ pc  = [c \in Clients |-> "idle"]
  /\ req = [c \in Clients |-> NoRequest]
  /\ faults = 0
  /\ raced = {} /\ vetted = [v \in Versions |-> {}] /\ promise = "none"

(* A read that raises returns nothing, a write that raises is swallowed.   *)
Database(ok) ==
  /\ ok \/ faults < MaxFaults
  /\ faults' = IF ok THEN faults ELSE faults + 1

Start(c, to, r) ==
  /\ pc[c] = "idle"
  /\ pc'  = [pc EXCEPT ![c] = to]
  /\ req' = [req EXCEPT ![c] = r]
  /\ UNCHANGED <<table, raced, vetted>>

Goto(c, from, to) == pc[c] = from /\ pc' = [pc EXCEPT ![c] = to] /\ UNCHANGED req

Return(c) ==
  /\ pc'  = [pc EXCEPT ![c] = "idle"]
  /\ req' = [req EXCEPT ![c] = NoRequest]

(* What a write of the versions V by c means to the history: without a     *)
(* race the promise is now p.  Of a version that was raced for nothing is  *)
(* remembered.                                                             *)
Records(c, V, p) ==
  /\ raced'  = raced \cup {v \in V : \E d \in Clients \ {c} :
                                       pc[d] \in Writing /\ req[d].version = v}
  /\ vetted' = [v \in Versions |->
                  IF v \in raced' THEN {}
                  ELSE IF status'[v] \in {"tested", "approved"}
                       THEN vetted[v] \cup {definition'[v]} ELSE vetted[v]]
  /\ promise' = IF raced' = {} THEN p ELSE "open"

(* Row v now holds r's status and definition. *)
Put(v, r) ==
  /\ status'     = [status EXCEPT ![v] = r.status]
  /\ definition' = [definition EXCEPT ![v] = r.definition]

-----------------------------------------------------------------------------
(* workflow_version_create *)

(* Mutant of Editable: published versions may be overwritten. *)
AlwaysEditable(v, ok) == TRUE
Editable(v, ok) == ~ok \/ status[v] # "published"

CreateRead(c, v, s, d, ok) ==
  /\ s # "published"
  /\ Editable(v, ok)
  /\ Start(c, "create", [version |-> v, source |-> 0, status |-> s, definition |-> d])
  /\ Database(ok)
  /\ promise' = IF Editable(v, TRUE) THEN promise ELSE "open"

CreateWrite(c, ok) ==
  /\ pc[c] = "create"
  /\ Return(c)
  /\ Database(ok)
  /\ IF ok THEN Put(req[c].version, req[c]) /\ Records(c, {req[c].version}, promise)
           ELSE UNCHANGED <<table, history>>

-----------------------------------------------------------------------------
(* workflow_version_promote *)

(* Mutant of MayBecome: drafts may be published. *)
MayBecomeAnything(from, to) == from # to
MayBecome(from, to) ==
  /\ to = "published" => from \in {"tested", "approved"}
  /\ to = "approved"  => from \in {"draft", "tested", "approved"}

PromoteRead(c, v, s) ==
  /\ Exists(v)
  /\ MayBecome(status[v], s)
  /\ Start(c, IF s = "published" THEN "demote" ELSE "set",
           [version |-> v, source |-> 0, status |-> s, definition |-> NoDefinition])
  /\ UNCHANGED <<faults, promise>>

(* Mutant of Demoted: the version published before stays published. *)
NotDemoted == status
Demoted == [v \in Versions |-> IF status[v] = "published" THEN "approved" ELSE status[v]]

(* A request has demoted the others and is yet to publish its own. *)
Between(c) == pc[c] = "set" /\ req[c].status = "published"

Demote(c, ok) ==
  /\ Goto(c, "demote", "set")
  /\ Database(ok)
  /\ UNCHANGED definition
  /\ IF ok THEN /\ status' = Demoted
                /\ Records(c, Published, IF \E d \in Clients : Between(d) THEN "open" ELSE promise)
           ELSE UNCHANGED <<status, raced, vetted>> /\ promise' = "open"

SetStatus(c, ok) ==
  LET v == req[c].version
      s == req[c].status
  IN /\ pc[c] = "set"
     /\ Return(c)
     /\ Database(ok)
     /\ UNCHANGED definition
     /\ IF ok THEN /\ status' = [status EXCEPT ![v] = s]
                   /\ Records(c, {v}, IF promise = "open" THEN "open"
                                      ELSE IF s = "published" THEN "one"
                                      ELSE IF status[v] = "published" THEN "none" ELSE promise)
              ELSE UNCHANGED <<status, raced, vetted>> /\ promise' = "open"

-----------------------------------------------------------------------------
(* workflow_version_rollback; new is 0 if the caller names no new_version. *)

RollbackRead(c, source, new, s) ==
  /\ s # "published"
  /\ Exists(source)
  /\ new # source
  /\ Start(c, IF new = 0 THEN "latest" ELSE "check",
           [version |-> new, source |-> IF new = 0 THEN source ELSE 0, status |-> s,
            definition |-> definition[source]])
  /\ UNCHANGED <<faults, promise>>

Latest(n) ==
  /\ n \in {0} \cup {v \in Versions : Exists(v)}
  /\ \A v \in Versions : Exists(v) => v <= n

RollbackLatest(c, n, ok) ==
  LET new == IF ok THEN n + 1 ELSE 1
  IN /\ pc[c] = "latest"
     /\ Latest(n)
     /\ Database(ok)
     /\ IF new = req[c].source \/ new > MaxVersion THEN Return(c)
        ELSE /\ pc'  = [pc EXCEPT ![c] = "check"]
             /\ req' = [req EXCEPT ![c].version = new, ![c].source = 0]
     /\ UNCHANGED <<table, history>>

RollbackCheck(c, ok) ==
  /\ pc[c] = "check"
  /\ Database(ok)
  /\ IF ok /\ Exists(req[c].version) THEN Return(c) ELSE Goto(c, "check", "insert")
  /\ UNCHANGED <<table, history>>

(* An INSERT without ON CONFLICT: a row that is there already makes it     *)
(* raise, which is swallowed.                                              *)
Inserted(c) ==
  IF Exists(req[c].version) THEN UNCHANGED <<table, history>>
  ELSE Put(req[c].version, req[c]) /\ Records(c, {req[c].version}, promise)

RollbackInsert(c, ok) ==
  /\ pc[c] = "insert"
  /\ Return(c)
  /\ Database(ok)
  /\ IF ok THEN Inserted(c) ELSE UNCHANGED <<table, history>>

(* The service stops with the request half done. *)
Abandon(c) ==
  /\ pc[c] # "idle"
  /\ Return(c)
  /\ Database(FALSE)
  /\ promise' = IF Between(c) THEN "open" ELSE promise
  /\ UNCHANGED <<table, raced, vetted>>

-----------------------------------------------------------------------------
Next ==
  \E c \in Clients :
    \/ \E v \in Versions, s \in Status :
         \/ \E d \in Definitions, ok \in BOOLEAN : CreateRead(c, v, s, d, ok)
         \/ PromoteRead(c, v, s)
         \/ \E new \in 0..MaxVersion : RollbackRead(c, v, new, s)
    \/ \E ok \in BOOLEAN :
         \/ CreateWrite(c, ok) \/ Demote(c, ok) \/ SetStatus(c, ok)
         \/ \E n \in 0..MaxVersion : RollbackLatest(c, n, ok)
         \/ RollbackCheck(c, ok) \/ RollbackInsert(c, ok)
    \/ Abandon(c)

Spec == Init /\ [][Next]_vars

-----------------------------------------------------------------------------
TypeOK ==
  /\ status \in [Versions -> Status \cup {"absent"}]
  /\ definition \in [Versions -> Definitions \cup {NoDefinition}]
  /\ pc \in [Clients -> PC]
  /\ req \in [Clients -> [version : 0..MaxVersion, source : 0..MaxVersion, status : Status,
                          definition : Definitions \cup {NoDefinition}]]
  /\ faults \in Nat
  /\ raced \in SUBSET Versions
  /\ vetted \in [Versions -> SUBSET Definitions]
  /\ promise \in {"none", "one", "open"}
  /\ \A v \in Versions : definition[v] = NoDefinition <=> ~Exists(v)

(* Nothing skips the gate: a version that no two requests raced for is     *)
(* published only with a definition that was 'tested' or 'approved' under  *)
(* that version, whatever was edited, demoted or rolled back in between.   *)
PublishedIsVetted ==
  \A v \in Published \ raced : definition[v] \in vetted[v]

(* A published definition is not edited: without a race for the version,   *)
(* and with reads that answer, only promote ends its publication.          *)
PublishedIsKept ==
  [][\A v \in Published \ raced' : faults' = 0 => definition'[v] = definition[v]]_vars

(* The history names the published version: once a promote has published,  *)
(* exactly one is, until promote is asked to take it back; only between    *)
(* the two updates of a promote there may be none.  Nothing is promised    *)
(* after two promotes have crossed (both demote first and publish          *)
(* afterwards), after a lost or abandoned update of a promote, or after a  *)
(* race for one version.                                                   *)
OnePublished ==
  /\ promise = "none" => Published = {}
  /\ promise = "one"  => IF \E c \in Clients : Between(c) THEN Published = {}
                         ELSE \E v \in Versions : Published = {v}
=============================================================================
