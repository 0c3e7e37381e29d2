----------------------------- MODULE Publishing -----------------------------
(***************************************************************************)
(* Posts, publication bundles and their approvals: the commands /draftpost *)
(* and /publish, publishbundle_build, approval_transition and the jobs     *)
(* social_publish and publication_bundle, with the workflow cap that       *)
(* publishbundle_build asks first (WorkflowCaps).                          *)
(*                                                                         *)
(* Every statement is a transaction of its own, so a command that breaks   *)
(* off leaves a post without an approval or a decision without a step.  An *)
(* artifact is the id of a post or bundle.  Texts, manifests and analytics *)
(* are left out; a manuscript goes the way of a post that is never         *)
(* published.                                                              *)
(***************************************************************************)
EXTENDS WorkflowCaps

CONSTANTS
  Posts,       \* ids of social_posts
  Bundles,     \* ids of publication_bundles
  Actors,
  Granted,     \* the sets of scopes an actor may have
  NoArtifact,  \* the request is not about one
  NoActor,     \* and nobody's
  MaxRequests, \* bound on requests
  MaxChanges   \* bound on changes of roles and policies

Artifacts == Posts \cup Bundles
Scopes == {"approve:social", "approve:publication", "approve:general", "admin"}
Decisions == {"approved", "rejected"}

ASSUME PublishingAssumption ==
  /\ Posts \cap Bundles = {} /\ NoArtifact \notin Artifacts
  /\ NoActor \notin Actors
  /\ Granted \subseteq SUBSET Scopes
  /\ MaxRequests \in Nat /\ MaxChanges \in Nat

VARIABLES
  status,      \* of a post or a bundle
  approval,    \* the status of its row of approvals
  requester,   \* its requested_by
  trail,       \* the step_status of its last row of approval_steps
  scopes,      \* the scopes of an actor's roles
  work,        \* the locals of a request
  requests, changes

(* History variables. *)
VARIABLES
  held,        \* the scopes an actor ever had
  reviewers,   \* who ever approved a post
  unasked,     \* posts a /publish found no approval for
  byJob,       \* posts a job published
  blurred      \* artifacts whose steps cannot be told apart

tables == <<status, approval, requester, trail, scopes>>
history == <<held, reviewers, unasked, byJob, blurred>>
bounds == <<requests, changes>>
vars == <<capVars, pc, faults, tables, work, bounds, history>>

PublishingPC == CapPC \cup {"idle", "release", "approval", "step", "scope", "decide", "publish"}
Work == [artifact : Artifacts \cup {NoArtifact}, actor : Actors \cup {NoActor},
         gated : BOOLEAN, says : Decisions \cup {"pending"}]
NoWork == [artifact |-> NoArtifact, actor |-> NoActor, gated |-> TRUE, says |-> "pending"]

Init ==
  /\ CapInit
  /\ pc = [c \in Callers |-> "idle"] /\ faults = 0
  /\ status = [a \in Artifacts |-> "absent"]
  /\ approval = [a \in Artifacts |-> "none"]
  /\ requester = [a \in Artifacts |-> NoActor]
  /\ trail = [a \in Artifacts |-> "none"]
  /\ scopes \in [Actors -> Granted] /\ held = scopes
  /\ work = [c \in Callers |-> NoWork]
  /\ requests = 0 /\ changes = 0
  /\ reviewers = [p \in Posts |-> {}]
  /\ unasked = {} /\ byJob = {} /\ blurred = {}

At(c, a, label) == pc[c] = label /\ work[c].artifact = a

Takes(c, a, x, gated, says) ==
  /\ requests < MaxRequests /\ requests' = requests + 1
  /\ work' = [work EXCEPT ![c] = [artifact |-> a, actor |-> x, gated |-> gated, says |-> says]]

(* A request ends with its answer, and its locals are gone. *)
Return(c, from) == Goto(c, from, "idle") /\ work' = [work EXCEPT ![c] = NoWork]
Continue(c, from, to) == Goto(c, from, to) /\ UNCHANGED work

-----------------------------------------------------------------------------
(* _ai_command for /draftpost inserts the post before its approval.        *)
DraftPost(c, p, x) ==
  /\ Goto(c, "idle", "approval")
  /\ status[p] = "absent"
  /\ status' = [status EXCEPT ![p] = "draft"]
  /\ Takes(c, p, x, TRUE, "pending")
  /\ UNCHANGED <<capVars, faults, approval, requester, trail, scopes, changes, history>>

(* publishbundle_build, and workflow_execution_check, ask the cap first.   *)
AskBundle(c, b, x, gated) ==
  /\ Goto(c, "idle", "cap")
  /\ status[b] = "absent" /\ \A d \in Callers : work[d].artifact # b
  /\ Takes(c, b, x, gated, "pending")
  /\ UNCHANGED <<capVars, faults, tables, changes, history>>

AskCheck(c, x) ==
  /\ Goto(c, "idle", "cap")
  /\ Takes(c, NoArtifact, x, TRUE, "pending")
  /\ UNCHANGED <<capVars, faults, tables, changes, history>>

AnswerCheck(c) ==
  /\ \/ Return(c, "refused")
     \/ work[c].artifact = NoArtifact /\ Return(c, "granted")
  /\ UNCHANGED <<capVars, faults, tables, bounds, history>>

InsertBundle(c) ==
  LET b == work[c].artifact
  IN /\ b # NoArtifact
     /\ Continue(c, "granted", "release")
     /\ status' = [status EXCEPT ![b] = IF work[c].gated THEN "pending_approval" ELSE "ready"]
     /\ UNCHANGED <<capVars, faults, approval, requester, trail, scopes, bounds, history>>

InsertRelease(c) ==
  /\ pc[c] = "release"
  /\ IF work[c].gated THEN Continue(c, "release", "approval") ELSE Return(c, "release")
  /\ UNCHANGED <<capVars, faults, tables, bounds, history>>

(* _create_approval, which always demands another reviewer, and the step   *)
(* it or a decision ends with.                                             *)
InsertApproval(c) ==
  LET a == work[c].artifact
  IN /\ Continue(c, "approval", "step")
     /\ approval' = [approval EXCEPT ![a] = "pending"]
     /\ requester' = [requester EXCEPT ![a] = work[c].actor]
     /\ UNCHANGED <<capVars, faults, status, trail, scopes, bounds, history>>

(* Mutant of InsertStep: every step is recorded as it was requested. *)
InsertStepPending(c) ==
  /\ Return(c, "step")
  /\ trail' = [trail EXCEPT ![work[c].artifact] = "pending"]
  /\ UNCHANGED <<capVars, faults, status, approval, requester, scopes, bounds, history>>

InsertStep(c) ==
  /\ Return(c, "step")
  /\ trail' = [trail EXCEPT ![work[c].artifact] = work[c].says]
  /\ UNCHANGED <<capVars, faults, status, approval, requester, scopes, bounds, history>>

-----------------------------------------------------------------------------
(* approval_transition reads the approval, asks for the scopes and for     *)
(* another reviewer, and then overwrites whatever status there is.         *)
AskDecision(c, a, x, decision) ==
  /\ Goto(c, "idle", "scope")
  /\ approval[a] # "none"
  /\ Takes(c, a, x, TRUE, decision)
  /\ UNCHANGED <<capVars, faults, tables, changes, history>>

Needed(a) == {IF a \in Posts THEN "approve:social" ELSE "approve:publication",
              "approve:general", "admin"}

MayDecide(x, a) == scopes[x] \cap Needed(a) # {} /\ x # requester[a]

CheckScope(c) ==
  /\ pc[c] = "scope"
  /\ IF MayDecide(work[c].actor, work[c].artifact)
     THEN Continue(c, "scope", "decide") ELSE Return(c, "scope")
  /\ UNCHANGED <<capVars, faults, tables, bounds, history>>

Decide(c) ==
  LET a == work[c].artifact
  IN /\ Continue(c, "decide", "step")
     /\ approval' = [approval EXCEPT ![a] = work[c].says]
     /\ reviewers' = IF work[c].says = "approved" /\ a \in Posts
                     THEN [reviewers EXCEPT ![a] = @ \cup {work[c].actor}] ELSE reviewers
     /\ blurred' = IF \E d \in Callers : At(d, a, "step") THEN blurred \cup {a} ELSE blurred
     /\ UNCHANGED <<capVars, faults, status, requester, trail, scopes, bounds,
                    held, unasked, byJob>>

-----------------------------------------------------------------------------
(* Mutant of AskPublish: only a rejected post is refused. *)
AskPublishPending(c, p, x) ==
  /\ Goto(c, "idle", "publish")
  /\ status[p] # "absent"
  /\ approval[p] # "rejected"
  /\ Takes(c, p, x, TRUE, "pending")
  /\ unasked' = IF approval[p] = "none" THEN unasked \cup {p} ELSE unasked
  /\ UNCHANGED <<capVars, faults, tables, changes, held, reviewers, byJob, blurred>>

(* /publish refuses a post whose approval is not approved; one that has    *)
(* none is published.                                                      *)
AskPublish(c, p, x) ==
  /\ Goto(c, "idle", "publish")
  /\ status[p] # "absent"
  /\ approval[p] \in {"none", "approved"}
  /\ Takes(c, p, x, TRUE, "pending")
  /\ unasked' = IF approval[p] = "none" THEN unasked \cup {p} ELSE unasked
  /\ UNCHANGED <<capVars, faults, tables, changes, held, reviewers, byJob, blurred>>

Publish(c) ==
  /\ Return(c, "publish")
  /\ status' = [status EXCEPT ![work[c].artifact] = "published"]
  /\ UNCHANGED <<capVars, faults, approval, requester, trail, scopes, bounds, history>>

(* Mutant of RunJob: every job publishes a post. *)
RunJobOnPosts(a) ==
  /\ status[a] # "absent"
  /\ status' = [status EXCEPT ![a] = "published"]
  /\ byJob' = byJob \cup ({a} \cap Posts)
  /\ UNCHANGED <<capVars, pc, faults, approval, requester, trail, scopes, work, bounds,
                 held, reviewers, unasked, blurred>>

(* The jobs social_publish and publication_bundle ask nobody. *)
RunJob(a) ==
  /\ status[a] # "absent"
  /\ status' = [status EXCEPT ![a] = IF a \in Posts THEN "published" ELSE "ready"]
  /\ byJob' = byJob \cup ({a} \cap Posts)
  /\ UNCHANGED <<capVars, pc, faults, approval, requester, trail, scopes, work, bounds,
                 held, reviewers, unasked, blurred>>

-----------------------------------------------------------------------------
(* A statement that is not guarded raises, and its request breaks off.  A  *)
(* crash breaks all of them off.                                           *)
Break(S) ==
  /\ faults < MaxFaults /\ faults' = faults + 1
  /\ pc' = [c \in Callers |-> IF c \in S THEN "idle" ELSE pc[c]]
  /\ work' = [c \in Callers |-> IF c \in S THEN NoWork ELSE work[c]]
  /\ limit' = [c \in Callers |-> IF c \in S THEN DefaultCap ELSE limit[c]]
  /\ blurred' = blurred \cup {work[c].artifact : c \in {d \in S : pc[d] = "step"}}
  /\ UNCHANGED <<cap, logged, unlogged, loosest, lifted, tables, bounds, held, reviewers,
                 unasked, byJob>>

Raise(c) == pc[c] \in {"granted", "release", "approval", "step", "scope", "decide", "publish"} /\ Break({c})
Crash == Break(Callers)

Change == changes < MaxChanges /\ changes' = changes + 1

SetScopes(x, S) ==
  /\ Change
  /\ scopes' = [scopes EXCEPT ![x] = S]
  /\ held' = [held EXCEPT ![x] = @ \cup S]
  /\ UNCHANGED <<capVars, pc, faults, status, approval, requester, trail, work, requests,
                 reviewers, unasked, byJob, blurred>>

ChangeCap(p, ok) == Change /\ SetCap(p, ok) /\ UNCHANGED <<tables, work, requests, history>>

-----------------------------------------------------------------------------
Request(c, x) ==
  \/ \E p \in Posts : DraftPost(c, p, x) \/ AskPublish(c, p, x)
  \/ \E b \in Bundles, gated \in BOOLEAN : AskBundle(c, b, x, gated)
  \/ AskCheck(c, x)
  \/ \E a \in Artifacts, decision \in Decisions : AskDecision(c, a, x, decision)

Step(c) ==
  \/ AnswerCheck(c) \/ InsertBundle(c) \/ InsertRelease(c) \/ InsertApproval(c)
  \/ InsertStep(c) \/ CheckScope(c) \/ Decide(c) \/ Publish(c) \/ Raise(c)

Next ==
  \/ \E c \in Callers : Step(c) \/ \E x \in Actors : Request(c, x)
  \/ /\ LeaveWindow \/ \E c \in Callers, ok \in BOOLEAN : CheckCap(c, ok)
     /\ UNCHANGED <<tables, work, bounds, history>>
  \/ \E p \in Caps, ok \in BOOLEAN : ChangeCap(p, ok)
  \/ \E x \in Actors, S \in Granted : SetScopes(x, S)
  \/ \E a \in Artifacts : RunJob(a)
  \/ Crash

Spec == Init /\ [][Next]_vars

-----------------------------------------------------------------------------
TypeOK ==
  /\ cap \in Cap \cup {NoCap} /\ limit \in [Callers -> Cap]
  /\ logged \in Nat /\ unlogged \in Nat /\ loosest \in Nat
  /\ lifted \in BOOLEAN /\ faults \in Nat /\ requests \in Nat /\ changes \in Nat
  /\ pc \in [Callers -> PublishingPC]
  /\ work \in [Callers -> Work]
  /\ status \in [Artifacts -> {"absent", "draft", "published", "pending_approval", "ready"}]
  /\ \A a \in Artifacts :
       status[a] \in {"draft", "published"} => a \in Posts
  /\ approval \in [Artifacts -> Decisions \cup {"none", "pending"}]
  /\ requester \in [Artifacts -> Actors \cup {NoActor}]
  /\ trail \in [Artifacts -> Decisions \cup {"none", "pending"}]
  /\ scopes \in [Actors -> SUBSET Scopes] /\ held \in [Actors -> SUBSET Scopes]
  /\ reviewers \in [Posts -> SUBSET Actors]
  /\ unasked \subseteq Posts /\ byJob \subseteq Posts
  /\ blurred \subseteq Artifacts \cup {NoArtifact}

(* A published post was approved by somebody other than its author who had *)
(* a scope for it, unless a job published it or its /publish came when it  *)
(* had no approval: while /draftpost was between its two INSERTs, or after *)
(* it broke off there.                                                     *)
PublishedWasReviewed ==
  \A p \in Posts :
    /\ status[p] = "published" =>
         \/ \E x \in reviewers[p] : x # requester[p] /\ held[x] \cap Needed(p) # {}
         \/ p \in unasked \cup byJob
    /\ status[p] # "absent" /\ approval[p] = "none" =>
         faults > 0 \/ \E c \in Callers : At(c, p, "approval")

(* The last step of an approval tells its status whenever no request is    *)
(* between the two, unless two requests once were at the same time or a    *)
(* step was lost.                                                          *)
StepsTellStatus ==
  \A a \in Artifacts :
    \/ a \in blurred
    \/ \E c \in Callers : At(c, a, "step")
    \/ trail[a] = approval[a]
=============================================================================
