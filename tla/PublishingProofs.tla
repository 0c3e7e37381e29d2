-------------------------- MODULE PublishingProofs --------------------------
(***************************************************************************)
(* Reviews and caps, for any number of threads, posts, bundles and actors. *)
(*                                                                         *)
(* What a request knows when it acts lasts: an artifact has one creator    *)
(* until it has an approval (CreatorSound), the approval is never taken    *)
(* back, and reviewers and scopes once held are never forgotten            *)
(* (RequestSound, TablesSound).  The cap is honoured because a thread that *)
(* was granted the window counts until it has logged (CapInv).             *)
(***************************************************************************)
EXTENDS Publishing, FiniteSetTheorems, TLAPS

(* Whoever has still to write the approval of an artifact.                 *)
Creating(c, a) == pc[c] \in CapPC \cup {"release", "approval"} /\ work[c].artifact = a

CreatorSound(c, a) ==
  Creating(c, a) =>
    /\ approval[a] = "none" /\ work[c].says = "pending"
    /\ a \in Posts => pc[c] = "approval"
    /\ pc[c] \in {"release", "approval"} => status[a] # "absent"
    /\ \A d \in Callers : Creating(d, a) => d = c

Authority(x, a) == x # requester[a] /\ held[x] \cap Needed(a) # {}
Reviewed(p) == \E x \in reviewers[p] : Authority(x, p)

(* A request has the locals that its next statement needs.                 *)
Placed(c) ==
  /\ pc[c] \in {"release", "approval", "step", "scope", "decide"} => work[c].artifact \in Artifacts
  /\ pc[c] \in {"scope", "decide"} => work[c].actor \in Actors
  /\ pc[c] = "publish" => work[c].artifact \in Posts

RequestSound(c, a) ==
  work[c].artifact = a =>
    /\ pc[c] \in {"step", "scope", "decide"} => approval[a] # "none"
    /\ pc[c] = "step" => a \in blurred \/ work[c].says = approval[a]
    /\ pc[c] = "decide" => Authority(work[c].actor, a)
    /\ pc[c] = "publish" => status[a] # "absent" /\ (Reviewed(a) \/ a \in unasked)

CallerSound(c) ==
  Placed(c) /\ \A a \in Artifacts : CreatorSound(c, a) /\ RequestSound(c, a)

TablesSound ==
  /\ \A a \in Artifacts : status[a] = "absent" => approval[a] = "none"
  /\ \A p \in Posts : reviewers[p] # {} => approval[p] # "none"
  /\ \A p \in Posts : approval[p] = "approved" => Reviewed(p)
  /\ \A x \in Actors : scopes[x] \subseteq held[x]

ReviewInv ==
  /\ TypeOK /\ TablesSound /\ PublishedWasReviewed /\ StepsTellStatus
  /\ \A c \in Callers : CallerSound(c)

(* Those who were granted the window and have not logged it.               *)
Logging == {c \in Callers : pc[c] = "log"}

CapInv ==
  /\ unlogged <= faults
  /\ cap # NoCap => cap.max <= loosest /\ (lifted \/ cap.enabled)
  /\ \A c \in Callers : limit[c].max <= loosest /\ (lifted \/ limit[c].enabled)
  /\ DefaultCap.max <= loosest
  /\ ~lifted => logged + unlogged + Cardinality(Logging) + 1
                  <= loosest + Cardinality(Callers) + faults

-----------------------------------------------------------------------------
(* Types *)

(* The fields of a request's locals, in one place. *)
LEMMA WorkTyped ==
  \A a \in Artifacts \cup {NoArtifact}, x \in Actors \cup {NoActor}, gated \in BOOLEAN,
     says \in Decisions \cup {"pending"} :
    [artifact |-> a, actor |-> x, gated |-> gated, says |-> says] \in Work
BY DEF Work

LEMMA WorkFields ==
  ASSUME TypeOK, NEW c \in Callers
  PROVE  /\ work[c] \in Work /\ work[c].artifact \in Artifacts \cup {NoArtifact}
         /\ work[c].actor \in Actors \cup {NoActor} /\ work[c].gated \in BOOLEAN
         /\ work[c].says \in Decisions \cup {"pending"}
<1>1. work[c] \in Work BY DEF TypeOK
<1>2. QED BY <1>1 DEF Work

(* A request that moves on, with new locals or its old ones. *)
LEMMA Moves ==
  ASSUME TypeOK, NEW c \in Callers, NEW from, NEW to \in PublishingPC, Goto(c, from, to)
  PROVE  /\ pc' \in [Callers -> PublishingPC] /\ pc[c] = from /\ pc'[c] = to
         /\ \A d \in Callers \ {c} : pc'[d] = pc[d]
BY DEF TypeOK, Goto

LEMMA TakesTyped ==
  ASSUME PublishingAssumption, TypeOK, NEW c \in Callers, NEW a \in Artifacts \cup {NoArtifact},
         NEW x \in Actors, NEW gated \in BOOLEAN, NEW says \in Decisions \cup {"pending"},
         Takes(c, a, x, gated, says)
  PROVE  /\ work' \in [Callers -> Work] /\ requests' \in Nat
         /\ work'[c] = [artifact |-> a, actor |-> x, gated |-> gated, says |-> says]
         /\ \A d \in Callers \ {c} : work'[d] = work[d]
BY WorkTyped DEF TypeOK, Takes, PublishingAssumption

LEMMA ReturnTyped ==
  ASSUME TypeOK, NEW c \in Callers, NEW from, Return(c, from)
  PROVE  /\ pc' \in [Callers -> PublishingPC] /\ work' \in [Callers -> Work]
         /\ pc[c] = from /\ pc'[c] = "idle" /\ work'[c] = NoWork
         /\ \A d \in Callers \ {c} : pc'[d] = pc[d] /\ work'[d] = work[d]
<1>1. "idle" \in PublishingPC BY DEF PublishingPC
<1>2. NoWork \in Work BY WorkTyped DEF NoWork
<1>3. Goto(c, from, "idle") BY DEF Return
<1>4. QED BY <1>1, <1>2, <1>3, Moves DEF Return, TypeOK

LEMMA ContinueTyped ==
  ASSUME TypeOK, NEW c \in Callers, NEW from, NEW to \in PublishingPC, Continue(c, from, to)
  PROVE  /\ pc' \in [Callers -> PublishingPC] /\ work' = work /\ work' \in [Callers -> Work]
         /\ pc[c] = from /\ pc'[c] = to
         /\ \A d \in Callers \ {c} : pc'[d] = pc[d] /\ work'[d] = work[d]
<1>1. Goto(c, from, to) BY DEF Continue
<1>2. QED BY <1>1, Moves DEF Continue, TypeOK

-----------------------------------------------------------------------------
(* Frames *)

(* What a step may always do: nothing that was reviewed is forgotten.      *)
Grows ==
  /\ \A p \in Posts : reviewers[p] \subseteq reviewers'[p]
  /\ \A x \in Actors : held[x] \subseteq held'[x]
  /\ unasked \subseteq unasked' /\ blurred \subseteq blurred' /\ byJob \subseteq byJob'
  /\ faults' >= faults
  /\ \A a \in Artifacts : status[a] # "absent" => status'[a] # "absent"

(* An authority stays one as long as the approval has its requester. *)
LEMMA AuthorityKept ==
  ASSUME TypeOK, Grows, NEW a \in Artifacts, requester'[a] = requester[a]
  PROVE  /\ \A x \in Actors : Authority(x, a) => Authority(x, a)'
         /\ a \in Posts /\ Reviewed(a) => Reviewed(a)'
<1>1. \A x \in Actors : Authority(x, a) => Authority(x, a)'
  BY DEF Authority, Grows, Needed
<1>2. a \in Posts => reviewers[a] \subseteq Actors /\ reviewers[a] \subseteq reviewers'[a]
  BY DEF TypeOK, Grows
<1>3. QED BY <1>1, <1>2 DEF Reviewed

(* A step that writes no approval of an artifact leaves what another       *)
(* request knows of it sound.                                              *)
LEMMA OthersSound ==
  ASSUME ReviewInv, Grows, NEW d \in Callers, pc'[d] = pc[d], work'[d] = work[d],
         \A a \in Artifacts :
           \/ /\ approval'[a] = approval[a] /\ requester'[a] = requester[a]
              /\ \A c \in Callers : Creating(d, a) /\ Creating(c, a)' => c = d
           \/ ~Creating(d, a) /\ RequestSound(d, a)'
  PROVE  CallerSound(d)'
<1>1. CallerSound(d) /\ TypeOK
  BY DEF ReviewInv
<1>2. Placed(d)'
  BY <1>1 DEF CallerSound, Placed
<1> SUFFICES ASSUME NEW a \in Artifacts PROVE CreatorSound(d, a)' /\ RequestSound(d, a)'
  BY <1>2 DEF CallerSound
<1>3. CreatorSound(d, a) /\ RequestSound(d, a) /\ Placed(d)
  BY <1>1 DEF CallerSound
<1>4. Creating(d, a)' <=> Creating(d, a)
  BY DEF Creating
<1>5. CASE ~Creating(d, a) /\ RequestSound(d, a)'
  BY <1>4, <1>5 DEF CreatorSound
<1>6. CASE /\ approval'[a] = approval[a] /\ requester'[a] = requester[a]
           /\ \A c \in Callers : Creating(d, a) /\ Creating(c, a)' => c = d
  <2>1. CreatorSound(d, a)'
    BY <1>3, <1>4, <1>6 DEF CreatorSound, Grows
  <2>2. /\ \A x \in Actors : Authority(x, a) => Authority(x, a)'
        /\ a \in Posts /\ Reviewed(a) => Reviewed(a)'
    BY <1>1, <1>6, AuthorityKept
  <2>3. RequestSound(d, a)'
    BY <1>3, <1>6, <2>2 DEF RequestSound, Placed, Grows
  <2>4. QED BY <2>1, <2>3
<1>7. QED BY <1>5, <1>6

(* A step that writes no approval and hides no step keeps the tables sound.*)
LEMMA TablesKept ==
  ASSUME ReviewInv, Grows, approval' = approval, requester' = requester,
         reviewers' = reviewers, \A x \in Actors : scopes'[x] \subseteq held'[x]
  PROVE  TablesSound'
<1>1. TypeOK /\ TablesSound
  BY DEF ReviewInv
<1>2. \A p \in Posts : Reviewed(p) => Reviewed(p)'
  BY <1>1, AuthorityKept DEF Artifacts
<1>3. QED BY <1>1, <1>2 DEF TablesSound, Grows

(* The two properties, over a step of one request that writes a status but *)
(* no approval and no step.                                                *)
LEMMA PropertiesKept ==
  ASSUME ReviewInv, TypeOK', Grows, approval' = approval, requester' = requester, trail' = trail,
         NEW c \in Callers, pc[c] \notin {"step", "approval"},
         \A d \in Callers \ {c} : pc'[d] = pc[d] /\ work'[d] = work[d],
         \A p \in Posts :
           \/ status'[p] = status[p]
           \/ status'[p] = "draft" /\ At(c, p, "approval")'
           \/ status'[p] = "published" /\ status[p] # "absent" /\ (Reviewed(p) \/ p \in unasked)
  PROVE  PublishedWasReviewed' /\ StepsTellStatus'
<1>1. TypeOK /\ PublishedWasReviewed /\ StepsTellStatus
  BY DEF ReviewInv
<1>2. \A d \in Callers, a \in Artifacts, label \in {"step", "approval"} :
        At(d, a, label) => At(d, a, label)'
  BY DEF At
<1>3. StepsTellStatus'
  <2>1. blurred \subseteq blurred' BY DEF Grows
  <2>2. QED BY <1>1, <1>2, <2>1 DEF StepsTellStatus
<1>4. ASSUME NEW p \in Posts, status'[p] = "published"
      PROVE  Reviewed(p)' \/ p \in unasked' \cup byJob'
  <2>1. Reviewed(p) \/ p \in unasked \cup byJob
    BY <1>1, <1>4 DEF PublishedWasReviewed, Reviewed, Authority
  <2>2. Reviewed(p) => Reviewed(p)'
    BY <1>1, AuthorityKept DEF Artifacts
  <2>3. QED BY <2>1, <2>2 DEF Grows
<1>5. ASSUME NEW p \in Posts, status'[p] # "absent", approval'[p] = "none"
      PROVE  faults' > 0 \/ \E d \in Callers : At(d, p, "approval")'
  <2>1. p \in Artifacts BY DEF Artifacts
  <2>2. CASE status[p] = "absent"
    BY <1>5, <2>2
  <2>3. CASE status[p] # "absent"
    <3>1. faults > 0 \/ \E d \in Callers : At(d, p, "approval")
      BY <1>1, <1>5, <2>3 DEF PublishedWasReviewed
    <3>2. faults > 0 => faults' > 0
      BY <1>1 DEF Grows, TypeOK
    <3>3. QED BY <3>1, <3>2, <2>1, <1>2
  <2>4. QED BY <2>2, <2>3
<1>6. PublishedWasReviewed'
  BY <1>4, <1>5 DEF PublishedWasReviewed, Reviewed, Authority
<1>7. QED BY <1>3, <1>6

(* A step of one request that writes no approval and no step of one.       *)
Apart(c) ==
  /\ \A d \in Callers \ {c} : pc'[d] = pc[d] /\ work'[d] = work[d]
  /\ UNCHANGED <<approval, requester, trail, scopes, held, reviewers, byJob>>
  /\ blurred' = blurred /\ faults' >= faults /\ unasked \subseteq unasked'
  /\ \A p \in Posts :
       \/ status'[p] = status[p]
       \/ status'[p] = "draft" /\ At(c, p, "approval")'
       \/ status'[p] = "published" /\ status[p] # "absent" /\ (Reviewed(p) \/ p \in unasked)
  /\ \A a \in Artifacts : status[a] # "absent" => status'[a] # "absent"

LEMMA ApartSound ==
  ASSUME ReviewInv, TypeOK', NEW c \in Callers, Apart(c), pc[c] \notin {"step", "approval"},
         CallerSound(c)',
         \A a \in Artifacts, d \in Callers \ {c} : ~(Creating(c, a)' /\ Creating(d, a))
  PROVE  ReviewInv'
<1>1. Grows
  BY DEF Apart, Grows
<1>2. PublishedWasReviewed' /\ StepsTellStatus'
  BY <1>1, PropertiesKept DEF Apart
<1>3. TablesSound'
  <2>1. \A x \in Actors : scopes'[x] \subseteq held'[x]
    BY DEF Apart, ReviewInv, TablesSound
  <2>2. QED BY <1>1, <2>1, TablesKept DEF Apart
<1>4. ASSUME NEW d \in Callers \ {c} PROVE CallerSound(d)'
  <2>1. pc'[d] = pc[d] /\ work'[d] = work[d]
    BY DEF Apart
  <2>2. ASSUME NEW a \in Artifacts, NEW e \in Callers, Creating(d, a), Creating(e, a)'
        PROVE  e = d
    <3>1. e # c BY <2>2
    <3>2. CASE e # d
      <4>1. Creating(e, a) BY <2>2, <3>1 DEF Apart, Creating
      <4>2. CreatorSound(d, a) BY DEF ReviewInv, CallerSound
      <4>3. QED BY <2>2, <4>1, <4>2 DEF CreatorSound
    <3>3. QED BY <3>2
  <2>3. QED BY <1>1, <2>1, <2>2, OthersSound DEF Apart
<1>5. QED BY <1>2, <1>3, <1>4 DEF ReviewInv

(* A caller that is idle afterwards, or asks the cap for nothing, is sound. *)
LEMMA IdleSound ==
  ASSUME TypeOK', NEW c \in Callers, pc'[c] \in {"idle"} \cup CapPC, work'[c].artifact = NoArtifact,
         PublishingAssumption
  PROVE  CallerSound(c)' /\ \A a \in Artifacts : ~Creating(c, a)'
BY DEF CallerSound, Placed, CreatorSound, RequestSound, Creating, PublishingAssumption, CapPC

-----------------------------------------------------------------------------
(* The steps of one request, in the order of Publishing. *)

LEMMA DraftPostSound ==
  ASSUME PublishingAssumption, ReviewInv, NEW c \in Callers, NEW p \in Posts, NEW x \in Actors,
         DraftPost(c, p, x)
  PROVE  ReviewInv'
<1> USE DEF DraftPost
<1>1. TypeOK /\ p \in Artifacts /\ TablesSound
  BY DEF ReviewInv, Artifacts
<1>2. /\ pc' \in [Callers -> PublishingPC] /\ pc[c] = "idle" /\ pc'[c] = "approval"
      /\ \A d \in Callers \ {c} : pc'[d] = pc[d]
  BY <1>1, Moves DEF PublishingPC
<1>3. /\ work' \in [Callers -> Work] /\ requests' \in Nat
      /\ work'[c] = [artifact |-> p, actor |-> x, gated |-> TRUE, says |-> "pending"]
      /\ \A d \in Callers \ {c} : work'[d] = work[d]
  BY <1>1, TakesTyped
<1>4. TypeOK'
  BY <1>1, <1>2, <1>3 DEF TypeOK, capVars, history
<1>5. Apart(c)
  BY <1>1, <1>2, <1>3 DEF Apart, TypeOK, history, At
<1>6. ASSUME NEW a \in Artifacts, NEW d \in Callers \ {c}, Creating(c, a)', Creating(d, a)
      PROVE  FALSE
  <2>1. a = p BY <1>3, <1>6 DEF Creating
  <2>2. CreatorSound(d, a) BY DEF ReviewInv, CallerSound
  <2>3. pc[d] = "approval" /\ status[a] # "absent"
    BY <1>6, <2>1, <2>2 DEF CreatorSound
  <2>4. QED BY <2>1, <2>3
<1>7. CallerSound(c)'
  <2>1. \A d \in Callers : Creating(d, p)' => d = c
    <3>1. Creating(c, p)' BY <1>2, <1>3 DEF Creating
    <3>2. \A d \in Callers \ {c} : Creating(d, p)' => Creating(d, p)
      BY <1>2, <1>3 DEF Creating
    <3>3. QED BY <1>1, <1>6, <3>1, <3>2
  <2>2. approval'[p] = "none" /\ status'[p] = "draft"
    BY <1>1 DEF TablesSound, TypeOK
  <2>3. QED BY <1>1, <1>2, <1>3, <2>1, <2>2
          DEF CallerSound, Placed, CreatorSound, RequestSound, Creating
<1>8. QED BY <1>2, <1>4, <1>5, <1>6, <1>7, ApartSound

LEMMA AskBundleSound ==
  ASSUME PublishingAssumption, ReviewInv, NEW c \in Callers, NEW b \in Bundles, NEW x \in Actors,
         NEW gated \in BOOLEAN, AskBundle(c, b, x, gated)
  PROVE  ReviewInv'
<1> USE DEF AskBundle
<1>1. TypeOK /\ b \in Artifacts /\ b \notin Posts /\ TablesSound
  BY DEF ReviewInv, Artifacts, PublishingAssumption
<1>2. /\ pc' \in [Callers -> PublishingPC] /\ pc[c] = "idle" /\ pc'[c] = "cap"
      /\ \A d \in Callers \ {c} : pc'[d] = pc[d]
  BY <1>1, Moves DEF PublishingPC, CapPC
<1>3. /\ work' \in [Callers -> Work] /\ requests' \in Nat
      /\ work'[c] = [artifact |-> b, actor |-> x, gated |-> gated, says |-> "pending"]
      /\ \A d \in Callers \ {c} : work'[d] = work[d]
  BY <1>1, TakesTyped
<1>4. TypeOK'
  BY <1>1, <1>2, <1>3 DEF TypeOK, capVars, history, tables
<1>5. Apart(c)
  BY <1>1, <1>2, <1>3 DEF Apart, TypeOK, history, tables
<1>6. \A a \in Artifacts, d \in Callers \ {c} : ~(Creating(c, a)' /\ Creating(d, a))
  <2>1. \A d \in Callers : work[d].artifact # b OBVIOUS
  <2>2. work'[c].artifact = b BY <1>3
  <2>3. QED BY <2>1, <2>2 DEF Creating
<1>7. CallerSound(c)'
  <2>1. \A d \in Callers : Creating(d, b)' => d = c
    BY <1>3 DEF Creating
  <2>2. approval'[b] = "none"
    BY <1>1 DEF TablesSound, tables
  <2>3. QED BY <1>1, <1>2, <1>3, <2>1, <2>2
          DEF CallerSound, Placed, CreatorSound, RequestSound, Creating
<1>8. QED BY <1>2, <1>4, <1>5, <1>6, <1>7, ApartSound

LEMMA AskCheckSound ==
  ASSUME PublishingAssumption, ReviewInv, NEW c \in Callers, NEW x \in Actors, AskCheck(c, x)
  PROVE  ReviewInv'
<1> USE DEF AskCheck
<1>1. TypeOK
  BY DEF ReviewInv
<1>2. /\ pc' \in [Callers -> PublishingPC] /\ pc[c] = "idle" /\ pc'[c] = "cap"
      /\ \A d \in Callers \ {c} : pc'[d] = pc[d]
  BY <1>1, Moves DEF PublishingPC, CapPC
<1>3. /\ work' \in [Callers -> Work] /\ requests' \in Nat
      /\ work'[c] = [artifact |-> NoArtifact, actor |-> x, gated |-> TRUE, says |-> "pending"]
      /\ \A d \in Callers \ {c} : work'[d] = work[d]
  BY <1>1, TakesTyped
<1>4. TypeOK'
  BY <1>1, <1>2, <1>3 DEF TypeOK, capVars, history, tables
<1>5. Apart(c)
  BY <1>1, <1>2, <1>3 DEF Apart, TypeOK, history, tables
<1>6. CallerSound(c)' /\ \A a \in Artifacts : ~Creating(c, a)'
  BY <1>2, <1>3, <1>4, IdleSound DEF CapPC
<1>7. QED BY <1>2, <1>4, <1>5, <1>6, ApartSound

LEMMA AnswerCheckSound ==
  ASSUME PublishingAssumption, ReviewInv, NEW c \in Callers, AnswerCheck(c)
  PROVE  ReviewInv'
<1> USE DEF AnswerCheck
<1>1. TypeOK
  BY DEF ReviewInv
<1>2. PICK from \in {"refused", "granted"} : Return(c, from)
  OBVIOUS
<1>3. /\ pc' \in [Callers -> PublishingPC] /\ work' \in [Callers -> Work]
      /\ pc[c] = from /\ pc'[c] = "idle" /\ work'[c] = NoWork
      /\ \A d \in Callers \ {c} : pc'[d] = pc[d] /\ work'[d] = work[d]
  BY <1>1, <1>2, ReturnTyped
<1>4. TypeOK'
  BY <1>1, <1>3 DEF TypeOK, capVars, history, tables, bounds
<1>5. Apart(c)
  BY <1>1, <1>3 DEF Apart, TypeOK, history, tables
<1>6. CallerSound(c)' /\ \A a \in Artifacts : ~Creating(c, a)'
  BY <1>3, <1>4, IdleSound DEF NoWork
<1>7. QED BY <1>3, <1>4, <1>5, <1>6, ApartSound

(* What a creator knows as it goes from one statement to the next. *)
LEMMA CreatorMoves ==
  ASSUME PublishingAssumption, ReviewInv, NEW c \in Callers,
         pc[c] \in CapPC \cup {"release"}, pc'[c] \in CapPC \cup {"release", "approval"},
         \/ pc[c] = "release"
         \/ pc'[c] \in CapPC
         \/ work[c].artifact \in Artifacts \ Posts /\ status'[work[c].artifact] # "absent",
         work'[c] = work[c], Apart(c), TypeOK'
  PROVE  ReviewInv'
<1> DEFINE a == work[c].artifact
<1>1. TypeOK /\ CallerSound(c) /\ a \in Artifacts \cup {NoArtifact}
  BY WorkFields DEF ReviewInv
<1>2. \A b \in Artifacts : Creating(c, b)' <=> Creating(c, b)
  BY DEF Creating
<1>3. \A b \in Artifacts, d \in Callers \ {c} : ~(Creating(c, b)' /\ Creating(d, b))
  BY <1>1, <1>2 DEF CallerSound, CreatorSound
<1>4. Placed(c)'
  BY <1>1 DEF Placed, CallerSound, CapPC
<1>5. ASSUME NEW b \in Artifacts PROVE CreatorSound(c, b)' /\ RequestSound(c, b)'
  <2>1. CreatorSound(c, b) /\ Placed(c) /\ approval'[b] = approval[b]
    BY <1>1 DEF CallerSound, Apart
  <2>2. RequestSound(c, b)'
    BY DEF RequestSound, CapPC
  <2>3. CASE b = a
    <3>1. Creating(c, b) BY <2>3 DEF Creating
    <3>2. \A d \in Callers : Creating(d, b)' => d = c
      <4>1. ASSUME NEW d \in Callers \ {c}, Creating(d, b)' PROVE FALSE
        <5>1. Creating(d, b) BY <4>1 DEF Creating, Apart
        <5>2. QED BY <5>1, <3>1, <2>1 DEF CreatorSound
      <4>2. QED BY <4>1
    <3>3. b \in Posts => pc'[c] = "approval"
      BY <3>1, <2>1, <2>3 DEF CreatorSound, CapPC
    <3>4. pc'[c] \in {"release", "approval"} => status'[b] # "absent"
      BY <3>1, <2>1, <2>3 DEF CreatorSound, CapPC, Apart
    <3>5. QED BY <2>1, <2>2, <3>1, <3>2, <3>3, <3>4 DEF CreatorSound
  <2>4. CASE b # a
    BY <2>2, <2>4 DEF CreatorSound, Creating
  <2>5. QED BY <2>3, <2>4
<1>6. CallerSound(c)'
  BY <1>4, <1>5 DEF CallerSound
<1>7. pc[c] \notin {"step", "approval"}
  BY DEF CapPC
<1>8. QED BY <1>3, <1>6, <1>7, ApartSound

(* A request whose answer ends it, unless a step is lost with it. *)
LEMMA ReturnSound ==
  ASSUME PublishingAssumption, ReviewInv, NEW c \in Callers, NEW from, Return(c, from),
         Apart(c), TypeOK', from \notin {"step", "approval"}
  PROVE  ReviewInv'
<1>1. TypeOK BY DEF ReviewInv
<1>2. pc[c] = from /\ pc'[c] = "idle" /\ work'[c] = NoWork
  BY <1>1, ReturnTyped
<1>3. CallerSound(c)' /\ \A a \in Artifacts : ~Creating(c, a)'
  BY <1>2, IdleSound DEF NoWork
<1>4. QED BY <1>2, <1>3, ApartSound

LEMMA InsertBundleSound ==
  ASSUME PublishingAssumption, ReviewInv, NEW c \in Callers, InsertBundle(c)
  PROVE  ReviewInv'
<1> DEFINE b == work[c].artifact
<1>1. TypeOK /\ b \in Artifacts /\ b \notin Posts
  <2>1. TypeOK BY DEF ReviewInv
  <2>2. b \in Artifacts BY <2>1, WorkFields DEF InsertBundle
  <2>3. CreatorSound(c, b) BY <2>2 DEF ReviewInv, CallerSound
  <2>4. QED BY <2>1, <2>2, <2>3
           DEF CreatorSound, Creating, InsertBundle, Continue, Goto, CapPC
<1>2. /\ pc' \in [Callers -> PublishingPC] /\ work' = work /\ work' \in [Callers -> Work]
      /\ pc[c] = "granted" /\ pc'[c] = "release"
      /\ \A d \in Callers \ {c} : pc'[d] = pc[d] /\ work'[d] = work[d]
  BY <1>1, ContinueTyped DEF InsertBundle, PublishingPC
<1>3. status' = [status EXCEPT ![b] = IF work[c].gated THEN "pending_approval" ELSE "ready"]
  BY DEF InsertBundle
<1>4. TypeOK'
  BY <1>1, <1>2, <1>3 DEF TypeOK, InsertBundle, capVars, bounds, history
<1>5. Apart(c)
  BY <1>1, <1>2, <1>3 DEF Apart, InsertBundle, TypeOK, history
<1>6. status'[b] # "absent"
  BY <1>1, <1>3 DEF TypeOK
<1>7. QED BY <1>1, <1>2, <1>4, <1>5, <1>6, CreatorMoves DEF CapPC

LEMMA InsertReleaseSound ==
  ASSUME PublishingAssumption, ReviewInv, NEW c \in Callers, InsertRelease(c)
  PROVE  ReviewInv'
<1> USE DEF InsertRelease
<1>1. TypeOK BY DEF ReviewInv
<1>2. CASE Continue(c, "release", "approval")
  <2>1. /\ pc' \in [Callers -> PublishingPC] /\ work' = work /\ work' \in [Callers -> Work]
        /\ pc[c] = "release" /\ pc'[c] = "approval"
        /\ \A d \in Callers \ {c} : pc'[d] = pc[d] /\ work'[d] = work[d]
    BY <1>1, <1>2, ContinueTyped DEF PublishingPC
  <2>2. TypeOK' /\ Apart(c)
    BY <1>1, <2>1 DEF TypeOK, Apart, capVars, bounds, history, tables
  <2>3. pc[c] \in CapPC \cup {"release"} /\ pc'[c] \in CapPC \cup {"release", "approval"}
    BY <2>1
  <2>4. QED BY <2>1, <2>2, <2>3, CreatorMoves
<1>3. CASE Return(c, "release")
  <2>1. /\ pc' \in [Callers -> PublishingPC] /\ work' \in [Callers -> Work]
        /\ \A d \in Callers \ {c} : pc'[d] = pc[d] /\ work'[d] = work[d]
    BY <1>1, <1>3, ReturnTyped
  <2>2. TypeOK' /\ Apart(c)
    BY <1>1, <2>1 DEF TypeOK, Apart, capVars, bounds, history, tables
  <2>3. QED BY <1>3, <2>2, ReturnSound
<1>4. QED BY <1>2, <1>3

LEMMA PublishSound ==
  ASSUME PublishingAssumption, ReviewInv, NEW c \in Callers, Publish(c)
  PROVE  ReviewInv'
<1> DEFINE p == work[c].artifact
<1>1. TypeOK /\ Return(c, "publish") /\ CallerSound(c)
  BY DEF ReviewInv, Publish
<1>2. /\ pc' \in [Callers -> PublishingPC] /\ work' \in [Callers -> Work] /\ pc[c] = "publish"
      /\ \A d \in Callers \ {c} : pc'[d] = pc[d] /\ work'[d] = work[d]
  BY <1>1, ReturnTyped
<1>3. p \in Posts /\ p \in Artifacts
  BY <1>1, <1>2 DEF CallerSound, Placed, Artifacts
<1>4. status[p] # "absent" /\ (Reviewed(p) \/ p \in unasked)
  BY <1>1, <1>2, <1>3 DEF CallerSound, RequestSound
<1>5. status' = [status EXCEPT ![p] = "published"]
  BY DEF Publish
<1>6. TypeOK'
  BY <1>1, <1>2, <1>3, <1>5 DEF TypeOK, Publish, capVars, bounds, history
<1>7. Apart(c)
  BY <1>1, <1>2, <1>3, <1>4, <1>5 DEF Apart, Publish, TypeOK, history
<1>8. QED BY <1>1, <1>6, <1>7, ReturnSound

LEMMA AskDecisionSound ==
  ASSUME PublishingAssumption, ReviewInv, NEW c \in Callers, NEW a \in Artifacts, NEW x \in Actors,
         NEW decision \in Decisions, AskDecision(c, a, x, decision)
  PROVE  ReviewInv'
<1> USE DEF AskDecision
<1>1. TypeOK BY DEF ReviewInv
<1>2. /\ pc' \in [Callers -> PublishingPC] /\ pc[c] = "idle" /\ pc'[c] = "scope"
      /\ \A d \in Callers \ {c} : pc'[d] = pc[d]
  BY <1>1, Moves DEF PublishingPC
<1>3. /\ work' \in [Callers -> Work] /\ requests' \in Nat
      /\ work'[c] = [artifact |-> a, actor |-> x, gated |-> TRUE, says |-> decision]
      /\ \A d \in Callers \ {c} : work'[d] = work[d]
  BY <1>1, TakesTyped
<1>4. TypeOK' /\ Apart(c)
  BY <1>1, <1>2, <1>3 DEF TypeOK, Apart, capVars, history, tables
<1>5. \A b \in Artifacts : ~Creating(c, b)'
  BY <1>2 DEF Creating, CapPC
<1>6. CallerSound(c)'
  BY <1>2, <1>3, <1>5 DEF CallerSound, Placed, CreatorSound, RequestSound, tables
<1>7. QED BY <1>2, <1>4, <1>5, <1>6, ApartSound

(* Who passed the scope check has had a scope for the artifact. *)
LEMMA CheckScopeSound ==
  ASSUME PublishingAssumption, ReviewInv, NEW c \in Callers, CheckScope(c)
  PROVE  ReviewInv'
<1> USE DEF CheckScope
<1> DEFINE a == work[c].artifact
<1>1. TypeOK /\ CallerSound(c) /\ TablesSound BY DEF ReviewInv
<1>2. CASE MayDecide(work[c].actor, a)
  <2>1. /\ pc' \in [Callers -> PublishingPC] /\ work' = work /\ work' \in [Callers -> Work]
        /\ pc[c] = "scope" /\ pc'[c] = "decide"
        /\ \A d \in Callers \ {c} : pc'[d] = pc[d] /\ work'[d] = work[d]
    BY <1>1, <1>2, ContinueTyped DEF PublishingPC
  <2>2. TypeOK' /\ Apart(c)
    BY <1>1, <2>1 DEF TypeOK, Apart, capVars, bounds, history, tables
  <2>3. \A b \in Artifacts : ~Creating(c, b)'
    BY <2>1 DEF Creating, CapPC
  <2>4. a \in Artifacts /\ work[c].actor \in Actors /\ approval[a] # "none"
    BY <1>1, <2>1 DEF CallerSound, Placed, RequestSound
  <2>5. Authority(work[c].actor, a)
    BY <1>1, <1>2, <2>4 DEF MayDecide, Authority, TablesSound
  <2>6. Authority(work[c].actor, a)'
    BY <2>1, <2>5 DEF Authority, history, tables, Needed
  <2>7. CallerSound(c)'
    BY <2>1, <2>3, <2>4, <2>6 DEF CallerSound, Placed, CreatorSound, RequestSound, tables
  <2>8. QED BY <2>1, <2>2, <2>3, <2>7, ApartSound
<1>3. CASE ~MayDecide(work[c].actor, a)
  <2>1. /\ pc' \in [Callers -> PublishingPC] /\ work' \in [Callers -> Work]
        /\ \A d \in Callers \ {c} : pc'[d] = pc[d] /\ work'[d] = work[d]
    BY <1>1, <1>3, ReturnTyped
  <2>2. TypeOK' /\ Apart(c)
    BY <1>1, <2>1 DEF TypeOK, Apart, capVars, bounds, history, tables
  <2>3. QED BY <1>3, <2>2, ReturnSound
<1>4. QED BY <1>2, <1>3

(* /publish goes on with a post that was reviewed, or that it remembers. *)
LEMMA AskPublishSound ==
  ASSUME PublishingAssumption, ReviewInv, NEW c \in Callers, NEW p \in Posts, NEW x \in Actors,
         AskPublish(c, p, x)
  PROVE  ReviewInv'
<1> USE DEF AskPublish
<1>1. TypeOK /\ p \in Artifacts /\ TablesSound BY DEF ReviewInv, Artifacts
<1>2. /\ pc' \in [Callers -> PublishingPC] /\ pc[c] = "idle" /\ pc'[c] = "publish"
      /\ \A d \in Callers \ {c} : pc'[d] = pc[d]
  BY <1>1, Moves DEF PublishingPC
<1>3. /\ work' \in [Callers -> Work] /\ requests' \in Nat
      /\ work'[c] = [artifact |-> p, actor |-> x, gated |-> TRUE, says |-> "pending"]
      /\ \A d \in Callers \ {c} : work'[d] = work[d]
  BY <1>1, TakesTyped
<1>4. unasked' \subseteq Posts /\ unasked \subseteq unasked'
  BY <1>1 DEF TypeOK
<1>5. TypeOK' /\ Apart(c)
  BY <1>1, <1>2, <1>3, <1>4 DEF TypeOK, Apart, capVars, tables
<1>6. \A b \in Artifacts : ~Creating(c, b)'
  BY <1>2 DEF Creating, CapPC
<1>7. status'[p] # "absent" /\ (Reviewed(p)' \/ p \in unasked')
  <2>1. Reviewed(p) => Reviewed(p)'
    BY DEF Reviewed, Authority, tables, Needed
  <2>2. QED BY <1>1, <2>1 DEF TablesSound, tables
<1>8. CallerSound(c)'
  BY <1>1, <1>2, <1>3, <1>6, <1>7 DEF CallerSound, Placed, CreatorSound, RequestSound
<1>9. QED BY <1>2, <1>5, <1>6, <1>8, ApartSound

(* The cap's own statements move a creator. *)
LEMMA CheckCapSound ==
  ASSUME PublishingAssumption, WorkflowCapsAssumption, ReviewInv,
         NEW c \in Callers, NEW ok \in BOOLEAN, CheckCap(c, ok),
         UNCHANGED <<tables, work, bounds, history>>
  PROVE  ReviewInv'
<1>1. TypeOK BY DEF ReviewInv
<1>2. PICK to \in CapPC : Goto(c, pc[c], to) /\ pc[c] \in CapPC \ {"granted", "refused"}
  BY DEF CheckCap, ReadCap, KeepCap, CountStarts, LogStart, Goto, CapPC
<1>3. /\ pc' \in [Callers -> PublishingPC] /\ pc'[c] = to
      /\ \A d \in Callers \ {c} : pc'[d] = pc[d]
  BY <1>1, <1>2, Moves DEF PublishingPC
<1>4. Statement(ok)
  BY DEF CheckCap, ReadCap, KeepCap, CountStarts, LogStart
<1>5. faults' \in Nat /\ faults' >= faults
  BY <1>1, <1>4 DEF TypeOK, Statement
<1>6. cap' \in Cap \cup {NoCap} /\ limit' \in [Callers -> Cap]
  <2>1. InForce \in Cap /\ DefaultCap \in Cap
    BY <1>1 DEF InForce, TypeOK, WorkflowCapsAssumption
  <2>2. QED BY <1>1, <2>1 DEF CheckCap, ReadCap, KeepCap, CountStarts, LogStart, TypeOK
<1>7. logged' \in Nat /\ unlogged' \in Nat /\ loosest' \in Nat /\ lifted' \in BOOLEAN
  BY <1>1 DEF CheckCap, ReadCap, KeepCap, CountStarts, LogStart, TypeOK
<1>8. TypeOK'
  BY <1>1, <1>3, <1>5, <1>6, <1>7 DEF TypeOK, tables, bounds, history
<1>9. Apart(c)
  BY <1>3, <1>5 DEF Apart, tables, history
<1>10. /\ pc[c] \in CapPC \cup {"release"} /\ pc'[c] \in CapPC \cup {"release", "approval"}
       /\ pc'[c] \in CapPC /\ work'[c] = work[c]
  BY <1>2, <1>3
<1>11. QED BY <1>3, <1>8, <1>9, <1>10, CreatorMoves

(* The approval of an artifact is written by its only creator.             *)
LEMMA InsertApprovalSound ==
  ASSUME PublishingAssumption, ReviewInv, NEW c \in Callers, InsertApproval(c)
  PROVE  ReviewInv'
<1> SUFFICES ASSUME NEW a, a = work[c].artifact PROVE ReviewInv' OBVIOUS
<1> USE DEF InsertApproval
<1>1. TypeOK /\ TablesSound /\ PublishedWasReviewed /\ StepsTellStatus /\ CallerSound(c)
  BY DEF ReviewInv
<1>2. /\ pc' \in [Callers -> PublishingPC] /\ work' = work
      /\ pc[c] = "approval" /\ pc'[c] = "step" /\ \A d \in Callers \ {c} : pc'[d] = pc[d]
  BY <1>1, ContinueTyped DEF PublishingPC
<1>3. a \in Artifacts /\ work[c].actor \in Actors \cup {NoActor} /\ Creating(c, a)
  BY <1>1, <1>2, WorkFields DEF CallerSound, Placed, Creating
<1>4. /\ approval[a] = "none" /\ work[c].says = "pending" /\ status[a] # "absent"
      /\ \A d \in Callers \ {c} : ~Creating(d, a)
  BY <1>1, <1>2, <1>3 DEF CallerSound, CreatorSound
<1>5. /\ approval'[a] = "pending" /\ requester'[a] = work[c].actor
      /\ \A b \in Artifacts \ {a} : approval'[b] = approval[b] /\ requester'[b] = requester[b]
  BY <1>1, <1>3 DEF TypeOK
<1>6. TypeOK'
  BY <1>1, <1>2, <1>3 DEF TypeOK, capVars, bounds, history
<1>7. Grows
  BY <1>1 DEF Grows, TypeOK, history
<1>8. a \in Posts => reviewers[a] = {}
  BY <1>1, <1>4 DEF TablesSound
<1>9. \A p \in Posts \ {a} : Reviewed(p) => Reviewed(p)'
  BY <1>1, <1>5, <1>7, AuthorityKept DEF Artifacts
<1>10. TablesSound'
  <2>1. \A b \in Artifacts : status'[b] = "absent" => approval'[b] = "none"
    BY <1>1, <1>4, <1>5 DEF TablesSound
  <2>2. \A p \in Posts : reviewers'[p] # {} => approval'[p] # "none"
    BY <1>1, <1>5 DEF TablesSound, history, Artifacts
  <2>3. \A p \in Posts : approval'[p] = "approved" => Reviewed(p)'
    BY <1>1, <1>5, <1>9 DEF TablesSound, Artifacts
  <2>4. QED BY <1>1, <2>1, <2>2, <2>3 DEF TablesSound, history
<1>11. \A d \in Callers, b \in Artifacts \ {a}, label \in {"step", "approval"} :
         At(d, b, label) => At(d, b, label)'
  BY <1>2 DEF At
<1>12. StepsTellStatus'
  <2>1. At(c, a, "step")' BY <1>2 DEF At
  <2>2. QED BY <1>1, <1>5, <1>11, <2>1 DEF StepsTellStatus, history
<1>13. PublishedWasReviewed'
  <2>1. ASSUME NEW p \in Posts, status'[p] = "published"
        PROVE  Reviewed(p)' \/ p \in unasked' \cup byJob'
    <3>1. Reviewed(p) \/ p \in unasked \cup byJob
      BY <1>1, <2>1 DEF PublishedWasReviewed, Reviewed, Authority
    <3>2. p = a => ~Reviewed(p) BY <1>8 DEF Reviewed
    <3>3. QED BY <3>1, <3>2, <1>9 DEF history
  <2>2. ASSUME NEW p \in Posts, status'[p] # "absent", approval'[p] = "none"
        PROVE  faults' > 0 \/ \E d \in Callers : At(d, p, "approval")'
    <3>1. p \in Artifacts \ {a} BY <1>5, <2>2 DEF Artifacts
    <3>2. faults > 0 \/ \E d \in Callers : At(d, p, "approval")
      BY <1>1, <1>5, <2>2, <3>1 DEF PublishedWasReviewed
    <3>3. QED BY <1>11, <3>1, <3>2
  <2>3. QED BY <2>1, <2>2 DEF PublishedWasReviewed, Reviewed, Authority
<1>14. ASSUME NEW d \in Callers \ {c} PROVE CallerSound(d)'
  <2>1. RequestSound(d, a)'
    <3>1. RequestSound(d, a) BY <1>3 DEF ReviewInv, CallerSound
    <3>2. Reviewed(a) => a \notin Posts BY <1>8 DEF Reviewed
    <3>3. pc[d] = "publish" /\ work[d].artifact = a => a \in Posts
      BY DEF ReviewInv, CallerSound, Placed
    <3>4. QED BY <1>2, <1>3, <1>4, <3>1, <3>2, <3>3 DEF RequestSound, history
  <2>2. \A b \in Artifacts \ {a}, e \in Callers : Creating(d, b) /\ Creating(e, b)' => e = d
    <3>1. \A b \in Artifacts : CreatorSound(d, b) BY DEF ReviewInv, CallerSound
    <3>2. \A b \in Artifacts \ {a}, e \in Callers : Creating(e, b)' => Creating(e, b)
      BY <1>2 DEF Creating
    <3>3. QED BY <3>1, <3>2 DEF CreatorSound
  <2>3. QED BY <1>2, <1>4, <1>5, <1>7, <2>1, <2>2, OthersSound
<1>15. CallerSound(c)'
  <2>1. \A b \in Artifacts : ~Creating(c, b)' BY <1>2 DEF Creating, CapPC
  <2>2. QED BY <1>2, <1>3, <1>4, <1>5, <2>1 DEF CallerSound, Placed, CreatorSound, RequestSound
<1>16. QED BY <1>6, <1>10, <1>12, <1>13, <1>14, <1>15 DEF ReviewInv

(* A decision overwrites an approval and makes a reviewer. *)
LEMMA DecideSound ==
  ASSUME PublishingAssumption, ReviewInv, NEW c \in Callers, Decide(c)
  PROVE  ReviewInv'
<1> SUFFICES ASSUME NEW a, a = work[c].artifact, NEW x, x = work[c].actor PROVE ReviewInv' OBVIOUS
<1> USE DEF Decide
<1>1. TypeOK /\ TablesSound /\ PublishedWasReviewed /\ StepsTellStatus /\ CallerSound(c)
  BY DEF ReviewInv
<1>2. /\ pc' \in [Callers -> PublishingPC] /\ work' = work
      /\ pc[c] = "decide" /\ pc'[c] = "step" /\ \A d \in Callers \ {c} : pc'[d] = pc[d]
  BY <1>1, ContinueTyped DEF PublishingPC
<1>3. a \in Artifacts /\ x \in Actors /\ work[c].says \in Decisions \cup {"pending"}
  BY <1>1, <1>2, WorkFields DEF CallerSound, Placed
<1>4. approval[a] # "none" /\ Authority(x, a)
  BY <1>1, <1>2, <1>3 DEF CallerSound, RequestSound
<1>5. /\ approval'[a] = work[c].says /\ work[c].says # "none"
      /\ \A b \in Artifacts \ {a} : approval'[b] = approval[b]
  BY <1>1, <1>3 DEF TypeOK, Decisions
<1>6. /\ reviewers' \in [Posts -> SUBSET Actors]
      /\ \A p \in Posts : reviewers[p] \subseteq reviewers'[p]
      /\ \A p \in Posts \ {a} : reviewers'[p] = reviewers[p]
      /\ a \in Posts /\ work[c].says = "approved" => x \in reviewers'[a]
  BY <1>1, <1>3 DEF TypeOK
<1>7. blurred \subseteq blurred' /\ blurred' \subseteq Artifacts \cup {NoArtifact}
  BY <1>1, <1>3 DEF TypeOK
<1>8. TypeOK'
  BY <1>1, <1>2, <1>3, <1>6, <1>7 DEF TypeOK, capVars, bounds
<1>9. Grows
  BY <1>1, <1>6, <1>7 DEF Grows, TypeOK
<1>10. /\ \A p \in Posts : Reviewed(p) => Reviewed(p)'
       /\ Authority(x, a)'
  BY <1>1, <1>3, <1>4, <1>9, AuthorityKept DEF Artifacts
<1>11. TablesSound'
  <2>1. \A b \in Artifacts : status'[b] = "absent" => approval'[b] = "none"
    BY <1>1, <1>4, <1>5 DEF TablesSound
  <2>2. \A p \in Posts : reviewers'[p] # {} => approval'[p] # "none"
    BY <1>1, <1>5, <1>6 DEF TablesSound, Artifacts
  <2>3. \A p \in Posts : approval'[p] = "approved" => Reviewed(p)'
    <3>1. a \in Posts /\ work[c].says = "approved" => Reviewed(a)'
      BY <1>6, <1>10 DEF Reviewed
    <3>2. QED BY <1>1, <1>5, <1>10, <3>1 DEF TablesSound, Artifacts
  <2>4. QED BY <1>1, <2>1, <2>2, <2>3 DEF TablesSound
<1>12. \A d \in Callers, b \in Artifacts, label \in {"step", "approval"} :
         At(d, b, label) => At(d, b, label)'
  BY <1>2 DEF At
<1>13. StepsTellStatus'
  <2>1. At(c, a, "step")' BY <1>2 DEF At
  <2>2. QED BY <1>1, <1>5, <1>7, <1>12, <2>1 DEF StepsTellStatus
<1>14. PublishedWasReviewed'
  <2>1. ASSUME NEW p \in Posts, status'[p] = "published"
        PROVE  Reviewed(p)' \/ p \in unasked' \cup byJob'
    BY <1>1, <1>10, <2>1 DEF PublishedWasReviewed, Reviewed, Authority
  <2>2. ASSUME NEW p \in Posts, status'[p] # "absent", approval'[p] = "none"
        PROVE  faults' > 0 \/ \E d \in Callers : At(d, p, "approval")'
    <3>1. p \in Artifacts \ {a} BY <1>5, <2>2 DEF Artifacts
    <3>2. faults > 0 \/ \E d \in Callers : At(d, p, "approval")
      BY <1>1, <1>5, <2>2, <3>1 DEF PublishedWasReviewed
    <3>3. QED BY <1>12, <3>1, <3>2
  <2>3. QED BY <2>1, <2>2 DEF PublishedWasReviewed, Reviewed, Authority
<1>15. ASSUME NEW d \in Callers \ {c} PROVE CallerSound(d)'
  <2>1. CallerSound(d) BY DEF ReviewInv
  <2>2. ~Creating(d, a)
    BY <1>3, <1>4, <2>1 DEF CallerSound, CreatorSound
  <2>3. RequestSound(d, a)'
    <3>1. RequestSound(d, a) /\ Placed(d) BY <1>3, <2>1 DEF CallerSound
    <3>2. pc[d] = "step" /\ work[d].artifact = a => a \in blurred' BY DEF At
    <3>3. \A y \in Actors : Authority(y, a) => Authority(y, a)'
      BY <1>1, <1>3, <1>9, AuthorityKept
    <3>4. QED BY <1>2, <1>3, <1>5, <1>10, <3>1, <3>2, <3>3 DEF RequestSound, Placed
  <2>4. \A b \in Artifacts \ {a}, e \in Callers : Creating(d, b) /\ Creating(e, b)' => e = d
    <3>1. \A b \in Artifacts : CreatorSound(d, b) BY <2>1 DEF CallerSound
    <3>2. \A b \in Artifacts \ {a}, e \in Callers : Creating(e, b)' => Creating(e, b)
      BY <1>2 DEF Creating
    <3>3. QED BY <3>1, <3>2 DEF CreatorSound
  <2>5. QED BY <1>2, <1>5, <1>9, <2>2, <2>3, <2>4, OthersSound
<1>16. CallerSound(c)'
  <2>1. \A b \in Artifacts : ~Creating(c, b)' BY <1>2 DEF Creating, CapPC
  <2>2. QED BY <1>2, <1>3, <1>5, <2>1 DEF CallerSound, Placed, CreatorSound, RequestSound
<1>17. QED BY <1>8, <1>11, <1>13, <1>14, <1>15, <1>16 DEF ReviewInv

(* A step is told by the request that knows the approval. *)
LEMMA InsertStepSound ==
  ASSUME PublishingAssumption, ReviewInv, NEW c \in Callers, InsertStep(c)
  PROVE  ReviewInv'
<1> SUFFICES ASSUME NEW a, a = work[c].artifact PROVE ReviewInv' OBVIOUS
<1> USE DEF InsertStep
<1>1. TypeOK /\ TablesSound /\ PublishedWasReviewed /\ StepsTellStatus /\ CallerSound(c)
  BY DEF ReviewInv
<1>2. /\ pc' \in [Callers -> PublishingPC] /\ work' \in [Callers -> Work]
      /\ pc[c] = "step" /\ pc'[c] = "idle" /\ work'[c] = NoWork
      /\ \A d \in Callers \ {c} : pc'[d] = pc[d] /\ work'[d] = work[d]
  BY <1>1, ReturnTyped
<1>3. a \in Artifacts /\ work[c].says \in Decisions \cup {"pending"}
      /\ (a \in blurred \/ work[c].says = approval[a])
  BY <1>1, <1>2, WorkFields DEF CallerSound, Placed, RequestSound
<1>4. trail' \in [Artifacts -> Decisions \cup {"none", "pending"}] /\ trail'[a] = work[c].says
      /\ \A b \in Artifacts \ {a} : trail'[b] = trail[b]
  BY <1>1, <1>3 DEF TypeOK
<1>5. TypeOK'
  BY <1>1, <1>2, <1>4 DEF TypeOK, capVars, bounds, history
<1>6. Grows
  BY <1>1 DEF Grows, TypeOK, history
<1>7. TablesSound'
  <2>1. \A x \in Actors : scopes'[x] \subseteq held'[x]
    BY <1>1 DEF TablesSound, history
  <2>2. QED BY <1>6, <2>1, TablesKept DEF history
<1>8. StepsTellStatus'
  <2>1. \A b \in Artifacts \ {a}, d \in Callers : At(d, b, "step") => At(d, b, "step")'
    BY <1>2 DEF At
  <2>2. a \in blurred \/ trail'[a] = approval'[a]
    BY <1>3, <1>4
  <2>3. QED BY <1>1, <1>4, <2>1, <2>2 DEF StepsTellStatus, history
<1>9. PublishedWasReviewed'
  <2>1. \A d \in Callers, p \in Posts : At(d, p, "approval") => At(d, p, "approval")'
    BY <1>2 DEF At
  <2>2. QED BY <1>1, <2>1 DEF PublishedWasReviewed, history, Needed
<1>10. \A d \in Callers, b \in Artifacts : Creating(d, b)' => Creating(d, b)
  BY <1>2 DEF Creating, CapPC
<1>11. ASSUME NEW d \in Callers \ {c} PROVE CallerSound(d)'
  <2>1. \A b \in Artifacts : CreatorSound(d, b) BY DEF ReviewInv, CallerSound
  <2>2. \A b \in Artifacts, e \in Callers : Creating(d, b) /\ Creating(e, b)' => e = d
    BY <1>10, <2>1 DEF CreatorSound
  <2>3. QED BY <1>2, <1>6, <2>2, OthersSound
<1>12. CallerSound(c)'
  BY <1>2, <1>5, IdleSound DEF NoWork
<1>13. QED BY <1>5, <1>7, <1>8, <1>9, <1>11, <1>12 DEF ReviewInv

(* Requests that break off take their steps with them. *)
LEMMA BreakSound ==
  ASSUME PublishingAssumption, WorkflowCapsAssumption, ReviewInv,
         NEW S \in SUBSET Callers, Break(S)
  PROVE  ReviewInv'
<1> USE DEF Break
<1>1. TypeOK /\ TablesSound /\ PublishedWasReviewed /\ StepsTellStatus
  BY DEF ReviewInv
<1>2. /\ \A d \in S : pc'[d] = "idle" /\ work'[d] = NoWork
      /\ \A d \in Callers \ S : pc'[d] = pc[d] /\ work'[d] = work[d]
  OBVIOUS
<1>3. faults' \in Nat /\ faults' > 0 /\ faults' >= faults
  BY <1>1 DEF TypeOK
<1>4. TypeOK'
  <2>1. "idle" \in PublishingPC /\ NoWork \in Work
    BY WorkTyped DEF PublishingPC, NoWork
  <2>2. pc' \in [Callers -> PublishingPC] /\ work' \in [Callers -> Work]
    BY <1>1, <2>1 DEF TypeOK
  <2>3. limit' \in [Callers -> Cap]
    BY <1>1 DEF TypeOK, WorkflowCapsAssumption
  <2>4. blurred' \subseteq Artifacts \cup {NoArtifact}
    BY <1>1, WorkFields DEF TypeOK
  <2>5. QED BY <1>1, <1>3, <2>2, <2>3, <2>4 DEF TypeOK, tables, bounds
<1>5. Grows
  BY <1>1, <1>3 DEF Grows, TypeOK, tables
<1>6. TablesSound'
  <2>1. \A x \in Actors : scopes'[x] \subseteq held'[x]
    BY <1>1 DEF TablesSound, tables
  <2>2. QED BY <1>5, <2>1, TablesKept DEF tables
<1>7. StepsTellStatus'
  <2>1. ASSUME NEW a \in Artifacts, NEW d \in Callers, At(d, a, "step")
        PROVE  a \in blurred' \/ At(d, a, "step")'
    BY <1>2, <2>1 DEF At
  <2>2. QED BY <1>1, <2>1 DEF StepsTellStatus, tables
<1>8. PublishedWasReviewed'
  BY <1>1, <1>3 DEF PublishedWasReviewed, tables, Needed
<1>9. ASSUME NEW d \in Callers PROVE CallerSound(d)'
  <2>1. CASE d \in S
    BY <1>2, <1>4, <2>1, IdleSound DEF NoWork
  <2>2. CASE d \notin S
    <3>1. \A e \in Callers, b \in Artifacts : Creating(e, b)' => Creating(e, b)
      BY <1>2 DEF Creating, CapPC
    <3>2. \A b \in Artifacts : CreatorSound(d, b) BY DEF ReviewInv, CallerSound
    <3>3. \A b \in Artifacts, e \in Callers : Creating(d, b) /\ Creating(e, b)' => e = d
      BY <3>1, <3>2 DEF CreatorSound
    <3>4. QED BY <1>2, <1>5, <2>2, <3>3, OthersSound DEF tables
  <2>3. QED BY <2>1, <2>2
<1>10. QED BY <1>4, <1>6, <1>7, <1>8, <1>9 DEF ReviewInv

(* A step of nobody's request: a job, an administrator, the passing of time. *)
LEMMA StillSound ==
  ASSUME ReviewInv, TypeOK', Grows, pc' = pc, work' = work, approval' = approval,
         requester' = requester, trail' = trail, reviewers' = reviewers,
         \A x \in Actors : scopes'[x] \subseteq held'[x],
         \A p \in Posts : status'[p] = status[p] \/ (status[p] # "absent" /\ p \in byJob')
  PROVE  ReviewInv'
<1>1. TypeOK /\ TablesSound /\ PublishedWasReviewed /\ StepsTellStatus
  BY DEF ReviewInv
<1>2. TablesSound'
  BY TablesKept
<1>3. \A d, a, label : At(d, a, label)' <=> At(d, a, label)
  BY DEF At
<1>4. StepsTellStatus'
  BY <1>1, <1>3 DEF StepsTellStatus, Grows
<1>5. \A p \in Posts : Reviewed(p) => Reviewed(p)'
  BY <1>1, AuthorityKept DEF Artifacts
<1>6. PublishedWasReviewed'
  <2>1. ASSUME NEW p \in Posts, status'[p] = "published"
        PROVE  Reviewed(p)' \/ p \in unasked' \cup byJob'
    BY <1>1, <1>5, <2>1 DEF PublishedWasReviewed, Reviewed, Authority, Grows
  <2>2. ASSUME NEW p \in Posts, status'[p] # "absent", approval'[p] = "none"
        PROVE  faults' > 0 \/ \E d \in Callers : At(d, p, "approval")'
    <3>1. status[p] # "absent" BY <2>2
    <3>2. faults > 0 => faults' > 0 BY <1>1 DEF Grows, TypeOK
    <3>3. QED BY <1>1, <1>3, <2>2, <3>1, <3>2 DEF PublishedWasReviewed
  <2>3. QED BY <2>1, <2>2 DEF PublishedWasReviewed, Reviewed, Authority
<1>7. ASSUME NEW d \in Callers PROVE CallerSound(d)'
  <2>1. \A b \in Artifacts : CreatorSound(d, b) BY DEF ReviewInv, CallerSound
  <2>2. \A b \in Artifacts, e \in Callers : Creating(d, b) /\ Creating(e, b)' => e = d
    BY <2>1 DEF CreatorSound, Creating
  <2>3. QED BY <2>2, OthersSound
<1>8. QED BY <1>2, <1>4, <1>6, <1>7 DEF ReviewInv

LEMMA RunJobSound ==
  ASSUME PublishingAssumption, ReviewInv, NEW a \in Artifacts, RunJob(a)
  PROVE  ReviewInv'
<1> USE DEF RunJob
<1>1. TypeOK /\ TablesSound BY DEF ReviewInv
<1>2. status' \in [Artifacts -> {"absent", "draft", "published", "pending_approval", "ready"}]
      /\ \A b \in Artifacts : status'[b] \in {"draft", "published"} => b \in Posts
  BY <1>1 DEF TypeOK
<1>3. TypeOK'
  BY <1>1, <1>2 DEF TypeOK, capVars, bounds
<1>4. Grows
  <2>1. \A b \in Artifacts : status[b] # "absent" => status'[b] # "absent"
    BY <1>1 DEF TypeOK
  <2>2. byJob \subseteq byJob' /\ faults' >= faults
    BY <1>1 DEF TypeOK
  <2>3. QED BY <2>1, <2>2 DEF Grows
<1>5. \A p \in Posts : status'[p] = status[p] \/ (status[p] # "absent" /\ p \in byJob')
  BY <1>1 DEF TypeOK, Artifacts
<1>6. QED BY <1>1, <1>3, <1>4, <1>5, StillSound DEF TablesSound

LEMMA SetScopesSound ==
  ASSUME PublishingAssumption, ReviewInv, NEW x \in Actors, NEW S \in Granted, SetScopes(x, S)
  PROVE  ReviewInv'
<1> USE DEF SetScopes
<1>1. TypeOK /\ TablesSound BY DEF ReviewInv
<1>2. S \subseteq Scopes /\ changes' \in Nat
  BY <1>1 DEF PublishingAssumption, TypeOK, Change
<1>3. /\ scopes' \in [Actors -> SUBSET Scopes] /\ held' \in [Actors -> SUBSET Scopes]
      /\ \A y \in Actors : held[y] \subseteq held'[y] /\ scopes'[y] \subseteq held'[y]
  BY <1>1, <1>2 DEF TypeOK, TablesSound
<1>4. TypeOK' /\ Grows
  BY <1>1, <1>2, <1>3 DEF TypeOK, Grows, capVars
<1>5. \A p \in Posts : status'[p] = status[p] OBVIOUS
<1>6. QED BY <1>3, <1>4, <1>5, StillSound

LEMMA LeaveWindowSound ==
  ASSUME ReviewInv, LeaveWindow, UNCHANGED <<tables, work, bounds, history>>
  PROVE  ReviewInv'
<1>1. TypeOK /\ TablesSound BY DEF ReviewInv
<1>2. logged' \in Nat /\ unlogged' \in Nat
  BY <1>1 DEF LeaveWindow, TypeOK
<1>3. TypeOK' /\ Grows
  BY <1>1, <1>2 DEF LeaveWindow, TypeOK, Grows, tables, bounds, history
<1>4. \A x \in Actors : scopes'[x] \subseteq held'[x]
  BY <1>1 DEF TablesSound, tables, history
<1>5. /\ pc' = pc /\ work' = work /\ approval' = approval /\ \A p \in Posts : status'[p] = status[p]
      /\ requester' = requester /\ trail' = trail /\ reviewers' = reviewers
  BY DEF LeaveWindow, tables, history
<1>6. QED BY <1>3, <1>4, <1>5, StillSound

LEMMA ChangeCapSound ==
  ASSUME WorkflowCapsAssumption, ReviewInv, NEW p \in Caps, NEW ok \in BOOLEAN, ChangeCap(p, ok)
  PROVE  ReviewInv'
<1> USE DEF ChangeCap, SetCap
<1>1. TypeOK /\ TablesSound BY DEF ReviewInv
<1>2. faults' \in Nat /\ faults' >= faults /\ changes' \in Nat
  BY <1>1 DEF TypeOK, Statement, Change
<1>3. p \in Cap /\ InForce \in Cap
  BY <1>1 DEF WorkflowCapsAssumption, TypeOK, InForce
<1>4. cap' \in Cap \cup {NoCap} /\ loosest' \in Nat /\ lifted' \in BOOLEAN
  <2>1. p.max \in Nat BY <1>3 DEF Cap
  <2>2. QED BY <1>1, <1>3, <2>1 DEF TypeOK
<1>5. TypeOK'
  BY <1>1, <1>2, <1>4 DEF TypeOK, tables, history
<1>6. Grows
  BY <1>1, <1>2 DEF TypeOK, Grows, tables, history
<1>7. \A x \in Actors : scopes'[x] \subseteq held'[x]
  BY <1>1 DEF TablesSound, tables, history
<1>8. /\ pc' = pc /\ work' = work /\ approval' = approval /\ \A q \in Posts : status'[q] = status[q]
      /\ requester' = requester /\ trail' = trail /\ reviewers' = reviewers
  BY DEF tables, history
<1>9. QED BY <1>5, <1>6, <1>7, <1>8, StillSound

-----------------------------------------------------------------------------
(* The cap *)

(* A step that neither counts nor logs. *)
LEMMA CapFrame ==
  ASSUME TypeOK, CapInv, WorkflowCapsAssumption,
         cap' = cap, loosest' = loosest, lifted' = lifted, faults' \in Nat, faults' >= faults,
         logged' \in Nat, unlogged' \in Nat, logged' <= logged, unlogged' <= unlogged,
         \A c \in Callers : limit'[c] \in {limit[c], DefaultCap},
         \A c \in Callers : pc'[c] = "log" => pc[c] = "log"
  PROVE  CapInv'
<1>1. /\ IsFiniteSet(Logging) /\ IsFiniteSet(Logging') /\ Logging' \subseteq Logging
  BY FS_Subset DEF Logging, WorkflowCapsAssumption
<1>2. Cardinality(Logging') <= Cardinality(Logging)
      /\ Cardinality(Logging') \in Nat /\ Cardinality(Logging) \in Nat
      /\ Cardinality(Callers) \in Nat
  BY <1>1, FS_Subset, FS_CardinalityType DEF WorkflowCapsAssumption
<1>3. unlogged' <= faults' /\ DefaultCap.max <= loosest'
  BY DEF CapInv, TypeOK
<1>4. cap' # NoCap => cap'.max <= loosest' /\ (lifted' \/ cap'.enabled)
  BY DEF CapInv
<1>5. \A c \in Callers : limit'[c].max <= loosest' /\ (lifted' \/ limit'[c].enabled)
  BY DEF CapInv, WorkflowCapsAssumption
<1>6. ~lifted' => logged' + unlogged' + Cardinality(Logging') + 1
                    <= loosest' + Cardinality(Callers) + faults'
  BY <1>2 DEF CapInv, TypeOK
<1>7. QED BY <1>3, <1>4, <1>5, <1>6 DEF CapInv

(* The number of those who log, as one of them starts to or is done. *)
LEMMA LoggingGrows ==
  ASSUME TypeOK, WorkflowCapsAssumption, NEW c \in Callers, Goto(c, "count", "log")
  PROVE  /\ Cardinality(Logging') = Cardinality(Logging) + 1
         /\ Cardinality(Logging') <= Cardinality(Callers)
<1>1. Logging' = Logging \cup {c} /\ c \notin Logging
  BY DEF Logging, Goto, TypeOK
<1>2. IsFiniteSet(Logging) /\ Logging' \subseteq Callers
  BY FS_Subset DEF Logging, WorkflowCapsAssumption
<1>3. QED BY <1>1, <1>2, FS_AddElement, FS_Subset DEF WorkflowCapsAssumption

LEMMA LoggingShrinks ==
  ASSUME TypeOK, WorkflowCapsAssumption, NEW c \in Callers, Goto(c, "log", "granted")
  PROVE  Cardinality(Logging') = Cardinality(Logging) - 1
<1>1. Logging' = Logging \ {c} /\ c \in Logging
  BY DEF Logging, Goto, TypeOK
<1>2. IsFiniteSet(Logging)
  BY FS_Subset DEF Logging, WorkflowCapsAssumption
<1>3. QED BY <1>1, <1>2, FS_RemoveElement

LEMMA Counts ==
  ASSUME TypeOK, WorkflowCapsAssumption
  PROVE  /\ Cardinality(Logging) \in Nat /\ Cardinality(Callers) \in Nat
         /\ Cardinality(Logging) <= Cardinality(Callers)
<1>1. Logging \subseteq Callers BY DEF Logging
<1>2. QED BY <1>1, FS_Subset, FS_CardinalityType DEF WorkflowCapsAssumption

LEMMA CountStartsCap ==
  ASSUME TypeOK, TypeOK', CapInv, WorkflowCapsAssumption, NEW c \in Callers, NEW ok \in BOOLEAN,
         CountStarts(c, ok)
  PROVE  CapInv'
<1> USE DEF CountStarts
<1>1. /\ cap' = cap /\ loosest' = loosest /\ lifted' = lifted /\ logged' = logged
      /\ unlogged' = unlogged /\ faults' \in Nat
      /\ faults' = (IF ok THEN faults ELSE faults + 1)
      /\ \A d \in Callers : limit'[d] \in {limit[d], DefaultCap}
  BY DEF TypeOK, Statement
<1>2. CASE Goto(c, "count", "refused")
  <2>1. \A d \in Callers : pc'[d] = "log" => pc[d] = "log"
    BY <1>2 DEF Goto, TypeOK
  <2>2. faults' >= faults BY <1>1 DEF TypeOK
  <2>3. QED BY <1>1, <2>1, <2>2, CapFrame DEF TypeOK
<1>3. CASE Goto(c, "count", "log") /\ ~Exceeded(limit[c], IF ok THEN logged ELSE 0)
  <2>1. /\ Cardinality(Logging') = Cardinality(Logging) + 1
        /\ Cardinality(Logging') <= Cardinality(Callers)
        /\ Cardinality(Logging) \in Nat /\ Cardinality(Callers) \in Nat
    BY <1>3, LoggingGrows, Counts
  <2>2. unlogged' <= faults' /\ DefaultCap.max <= loosest'
    BY <1>1 DEF CapInv, TypeOK
  <2>3. cap' # NoCap => cap'.max <= loosest' /\ (lifted' \/ cap'.enabled)
    BY <1>1 DEF CapInv
  <2>4. \A d \in Callers : limit'[d].max <= loosest' /\ (lifted' \/ limit'[d].enabled)
    BY <1>1 DEF CapInv, WorkflowCapsAssumption
  <2>5. ASSUME ~lifted'
        PROVE  logged' + unlogged' + Cardinality(Logging') + 1
                 <= loosest' + Cardinality(Callers) + faults'
    <3>1. CASE ok
      <4>1. limit[c].enabled /\ limit[c].max <= loosest /\ limit[c].max \in Nat
        BY <1>1, <2>5 DEF CapInv, TypeOK, Cap
      <4>2. ~(logged >= limit[c].max)
        BY <1>3, <3>1, <4>1 DEF Exceeded
      <4>3. logged + 1 <= loosest /\ unlogged <= faults
        BY <4>1, <4>2 DEF TypeOK, CapInv
      <4>4. QED BY <1>1, <2>1, <3>1, <4>3 DEF TypeOK
    <3>2. CASE ~ok
      BY <1>1, <2>1, <2>5, <3>2 DEF CapInv, TypeOK
    <3>3. QED BY <3>1, <3>2
  <2>6. QED BY <2>2, <2>3, <2>4, <2>5 DEF CapInv
<1>4. QED BY <1>2, <1>3

LEMMA LogStartCap ==
  ASSUME TypeOK, TypeOK', CapInv, WorkflowCapsAssumption, NEW c \in Callers, NEW ok \in BOOLEAN,
         LogStart(c, ok)
  PROVE  CapInv'
<1> USE DEF LogStart
<1>1. /\ cap' = cap /\ loosest' = loosest /\ lifted' = lifted /\ limit' = limit
      /\ faults' = (IF ok THEN faults ELSE faults + 1)
      /\ logged' = (IF ok THEN logged + 1 ELSE logged)
      /\ unlogged' = (IF ok THEN unlogged ELSE unlogged + 1)
  BY DEF Statement
<1>2. Cardinality(Logging') = Cardinality(Logging) - 1
      /\ Cardinality(Logging) \in Nat /\ Cardinality(Callers) \in Nat
  BY LoggingShrinks, Counts
<1>3. unlogged' <= faults'
  BY <1>1 DEF CapInv, TypeOK
<1>4. ~lifted' => logged' + unlogged' + Cardinality(Logging') + 1
                    <= loosest' + Cardinality(Callers) + faults'
  BY <1>1, <1>2 DEF CapInv, TypeOK
<1>5. QED BY <1>1, <1>3, <1>4 DEF CapInv

(* Reading, keeping and choosing a policy does not change who counts. *)
LEMMA PolicyCap ==
  ASSUME TypeOK, TypeOK', CapInv, WorkflowCapsAssumption, NEW ok \in BOOLEAN,
         \/ \E c \in Callers : ReadCap(c, ok) \/ KeepCap(c, ok)
         \/ \E p \in Caps : SetCap(p, ok)
  PROVE  CapInv'
<1>1. /\ logged' = logged /\ unlogged' = unlogged /\ faults' >= faults
      /\ lifted => lifted'
      /\ loosest' >= loosest /\ loosest' \in Nat /\ faults' \in Nat
  <2>1. \A p \in Caps : p.max \in Nat BY DEF WorkflowCapsAssumption, Cap
  <2>2. QED BY <2>1 DEF ReadCap, KeepCap, SetCap, Statement, TypeOK
<1>2. Logging' = Logging
  BY DEF ReadCap, KeepCap, SetCap, Goto, Logging, TypeOK
<1>3. Cardinality(Logging) \in Nat /\ Cardinality(Callers) \in Nat
  BY Counts
<1>4. unlogged' <= faults'
  BY <1>1 DEF CapInv, TypeOK
<1>5. ~lifted' => logged' + unlogged' + Cardinality(Logging') + 1
                    <= loosest' + Cardinality(Callers) + faults'
  BY <1>1, <1>2, <1>3 DEF CapInv, TypeOK
<1>6. DefaultCap.max \in Nat /\ DefaultCap.max <= loosest'
  BY <1>1 DEF CapInv, WorkflowCapsAssumption, Cap, TypeOK
<1>7. InForce.max <= loosest /\ (lifted \/ InForce.enabled) /\ InForce \in Cap
  BY DEF CapInv, InForce, WorkflowCapsAssumption, TypeOK
<1>8. CASE \E c \in Callers : ReadCap(c, ok)
  <2>1. PICK c \in Callers : ReadCap(c, ok) BY <1>8
  <2>2. /\ cap' = cap /\ loosest' = loosest /\ lifted' = lifted
        /\ \A d \in Callers : limit'[d] \in {limit[d], DefaultCap, InForce}
    BY <2>1 DEF ReadCap, TypeOK
  <2>3. \A d \in Callers : limit'[d].max <= loosest' /\ (lifted' \/ limit'[d].enabled)
    BY <2>2, <1>7 DEF CapInv, WorkflowCapsAssumption
  <2>4. QED BY <1>4, <1>5, <1>6, <2>2, <2>3 DEF CapInv
<1>9. CASE \E c \in Callers : KeepCap(c, ok)
  <2>1. PICK c \in Callers : KeepCap(c, ok) BY <1>9
  <2>2. /\ cap' \in {cap, limit[c]} /\ loosest' = loosest /\ lifted' = lifted /\ limit' = limit
    BY <2>1 DEF KeepCap
  <2>3. QED BY <1>4, <1>5, <1>6, <2>2 DEF CapInv
<1>10. CASE \E p \in Caps : SetCap(p, ok)
  <2>1. PICK p \in Caps : SetCap(p, ok) BY <1>10
  <2>2. p.max \in Nat /\ p \in Cap BY DEF WorkflowCapsAssumption, Cap
  <2>3. /\ limit' = limit /\ cap' = (IF ok THEN p ELSE InForce)
        /\ ok => p.max <= loosest' /\ (lifted' \/ p.enabled)
    BY <2>1, <2>2 DEF SetCap, TypeOK
  <2>4. \A d \in Callers : limit'[d].max <= loosest' /\ (lifted' \/ limit'[d].enabled)
    <3>1. \A d \in Callers : limit[d].max \in Nat BY DEF TypeOK, Cap
    <3>2. QED BY <1>1, <2>3, <3>1 DEF CapInv, TypeOK
  <2>5. cap'.max <= loosest' /\ (lifted' \/ cap'.enabled)
    <3>1. InForce.max \in Nat BY <1>7 DEF Cap
    <3>2. QED BY <1>1, <1>7, <2>3, <3>1 DEF TypeOK
  <2>6. QED BY <1>4, <1>5, <1>6, <2>4, <2>5 DEF CapInv
<1>11. QED BY <1>8, <1>9, <1>10

(* Everything else leaves the cap alone, and lets nobody start to log.     *)
LEMMA OthersCap ==
  ASSUME TypeOK, TypeOK', CapInv, WorkflowCapsAssumption, UNCHANGED capVars, faults' = faults,
         pc' = pc \/ \E c \in Callers : \E from, to : Goto(c, from, to) /\ to # "log"
  PROVE  CapInv'
<1>1. \A c \in Callers : pc'[c] = "log" => pc[c] = "log"
  BY DEF Goto, TypeOK
<1>2. /\ cap' = cap /\ loosest' = loosest /\ lifted' = lifted /\ limit' = limit
      /\ logged' = logged /\ unlogged' = unlogged
  BY DEF capVars
<1>3. /\ faults' \in Nat /\ faults' >= faults /\ logged' <= logged /\ unlogged' <= unlogged
      /\ logged' \in Nat /\ unlogged' \in Nat
  BY <1>2 DEF TypeOK
<1>4. QED BY <1>1, <1>2, <1>3, CapFrame

-----------------------------------------------------------------------------
(* The first state, every step, and the theorems. *)

LEMMA PublishingInit ==
  ASSUME PublishingAssumption, WorkflowCapsAssumption, Init
  PROVE  ReviewInv /\ CapInv
<1> USE DEF Init, CapInit
<1>1. scopes \in [Actors -> SUBSET Scopes]
  BY DEF PublishingAssumption
<1>2. "idle" \in PublishingPC /\ NoWork \in Work /\ DefaultCap.max \in Nat
  BY WorkTyped DEF PublishingPC, NoWork, WorkflowCapsAssumption, Cap
<1>3. TypeOK
  <2>1. pc \in [Callers -> PublishingPC] /\ work \in [Callers -> Work] BY <1>2
  <2>2. cap = NoCap /\ limit \in [Callers -> Cap] /\ loosest \in Nat
    BY <1>2 DEF WorkflowCapsAssumption
  <2>3. QED BY <1>1, <2>1, <2>2 DEF TypeOK
<1>4. \A c \in Callers : CallerSound(c)
  BY DEF CallerSound, Placed, CreatorSound, RequestSound, Creating, CapPC
<1>5. TablesSound /\ PublishedWasReviewed /\ StepsTellStatus
  BY DEF TablesSound, PublishedWasReviewed, StepsTellStatus, Artifacts
<1>6. CapInv
  <2>1. Logging = {} BY DEF Logging
  <2>2. Cardinality(Logging) = 0 BY <2>1, FS_EmptySet
  <2>3. Cardinality(Callers) \in Nat /\ Cardinality(Callers) # 0
    BY FS_CardinalityType, FS_EmptySet DEF WorkflowCapsAssumption
  <2>4. logged + unlogged + Cardinality(Logging) + 1 <= loosest + Cardinality(Callers) + faults
    BY <1>2, <2>2, <2>3
  <2>5. QED BY <1>2, <2>4 DEF CapInv, WorkflowCapsAssumption
<1>7. QED BY <1>3, <1>4, <1>5, <1>6 DEF ReviewInv

(* The steps, one by one. *)
LEMMA ReviewStep ==
  ASSUME PublishingAssumption, WorkflowCapsAssumption, ReviewInv, [Next]_vars
  PROVE  ReviewInv'
<1>1. ASSUME NEW c \in Callers, Step(c) PROVE ReviewInv'
  <2>1. CASE Raise(c) BY <2>1, BreakSound DEF Raise
  <2>2. CASE AnswerCheck(c) \/ InsertBundle(c) \/ InsertRelease(c)
    BY <2>2, AnswerCheckSound, InsertBundleSound, InsertReleaseSound
  <2>3. CASE InsertApproval(c) \/ InsertStep(c) \/ Decide(c)
    BY <2>3, InsertApprovalSound, InsertStepSound, DecideSound
  <2>4. CASE CheckScope(c) \/ Publish(c)
    BY <2>4, CheckScopeSound, PublishSound
  <2>5. QED BY <1>1, <2>1, <2>2, <2>3, <2>4 DEF Step
<1>2. ASSUME NEW c \in Callers, NEW x \in Actors, Request(c, x) PROVE ReviewInv'
  <2>1. ASSUME NEW p \in Posts, DraftPost(c, p, x) \/ AskPublish(c, p, x) PROVE ReviewInv'
    BY <2>1, DraftPostSound, AskPublishSound
  <2>2. ASSUME NEW b \in Bundles, NEW gated \in BOOLEAN, AskBundle(c, b, x, gated)
        PROVE  ReviewInv'
    BY <2>2, AskBundleSound
  <2>3. CASE AskCheck(c, x) BY <2>3, AskCheckSound
  <2>4. ASSUME NEW a \in Artifacts, NEW decision \in Decisions, AskDecision(c, a, x, decision)
        PROVE  ReviewInv'
    BY <2>4, AskDecisionSound
  <2>5. QED BY <1>2, <2>1, <2>2, <2>3, <2>4 DEF Request
<1>3. ASSUME NEW c \in Callers, NEW ok \in BOOLEAN, CheckCap(c, ok),
             UNCHANGED <<tables, work, bounds, history>>
      PROVE  ReviewInv'
  BY <1>3, CheckCapSound
<1>4. CASE LeaveWindow /\ UNCHANGED <<tables, work, bounds, history>>
  BY <1>4, LeaveWindowSound
<1>5. ASSUME NEW p \in Caps, NEW ok \in BOOLEAN, ChangeCap(p, ok) PROVE ReviewInv'
  BY <1>5, ChangeCapSound
<1>6. ASSUME NEW x \in Actors, NEW S \in Granted, SetScopes(x, S) PROVE ReviewInv'
  BY <1>6, SetScopesSound
<1>7. ASSUME NEW a \in Artifacts, RunJob(a) PROVE ReviewInv'
  BY <1>7, RunJobSound
<1>8. CASE Crash BY <1>8, BreakSound DEF Crash
<1>9. CASE UNCHANGED vars
  <2>1. TypeOK' /\ Grows
    BY <1>9 DEF ReviewInv, TypeOK, Grows, vars, capVars, tables, bounds, history
  <2>2. \A x \in Actors : scopes'[x] \subseteq held'[x]
    BY <1>9 DEF ReviewInv, TablesSound, vars, tables, history
  <2>3. /\ pc' = pc /\ work' = work /\ approval' = approval /\ \A p \in Posts : status'[p] = status[p]
        /\ requester' = requester /\ trail' = trail /\ reviewers' = reviewers
    BY <1>9 DEF vars, tables, history
  <2>4. QED BY <2>1, <2>2, <2>3, StillSound
<1>10. QED
  BY <1>1, <1>2, <1>3, <1>4, <1>5, <1>6, <1>7, <1>8, <1>9 DEF Next

LEMMA CapStep ==
  ASSUME PublishingAssumption, WorkflowCapsAssumption, TypeOK, TypeOK', CapInv, [Next]_vars
  PROVE  CapInv'
<1>1. ASSUME NEW S \in SUBSET Callers, Break(S) PROVE CapInv'
  <2>1. \A c \in Callers : /\ limit'[c] \in {limit[c], DefaultCap}
                           /\ pc'[c] = "log" => pc[c] = "log"
    BY <1>1 DEF Break
  <2>2. /\ cap' = cap /\ loosest' = loosest /\ lifted' = lifted
        /\ logged' = logged /\ unlogged' = unlogged /\ faults' = faults + 1
    BY <1>1 DEF Break
  <2>3. /\ faults' \in Nat /\ faults' >= faults /\ logged' <= logged /\ unlogged' <= unlogged
        /\ logged' \in Nat /\ unlogged' \in Nat
    BY <2>2 DEF TypeOK
  <2>4. QED BY <2>1, <2>2, <2>3, CapFrame
<1>2. ASSUME NEW c \in Callers, Step(c) PROVE CapInv'
  <2>1. CASE Raise(c) BY <1>1, <2>1 DEF Raise
  <2>2. CASE AnswerCheck(c) \/ InsertBundle(c) \/ InsertRelease(c) \/ InsertApproval(c)
    <3>1. UNCHANGED capVars /\ faults' = faults
      BY <2>2 DEF AnswerCheck, InsertBundle, InsertRelease, InsertApproval
    <3>2. \E from, to : Goto(c, from, to) /\ to # "log"
      BY <2>2 DEF AnswerCheck, InsertBundle, InsertRelease, InsertApproval, Return, Continue
    <3>3. QED BY <3>1, <3>2, OthersCap
  <2>3. CASE InsertStep(c) \/ CheckScope(c) \/ Decide(c) \/ Publish(c)
    <3>1. UNCHANGED capVars /\ faults' = faults
      BY <2>3 DEF InsertStep, CheckScope, Decide, Publish
    <3>2. \E from, to : Goto(c, from, to) /\ to # "log"
      BY <2>3 DEF InsertStep, CheckScope, Decide, Publish, Return, Continue
    <3>3. QED BY <3>1, <3>2, OthersCap
  <2>4. QED BY <1>2, <2>1, <2>2, <2>3 DEF Step
<1>3. ASSUME NEW c \in Callers, NEW x \in Actors, Request(c, x) PROVE CapInv'
  <2>1. UNCHANGED capVars /\ faults' = faults
    BY <1>3 DEF Request, DraftPost, AskPublish, AskBundle, AskCheck, AskDecision
  <2>2. \E to \in {"approval", "publish", "cap", "scope"} : Goto(c, "idle", to)
    BY <1>3 DEF Request, DraftPost, AskPublish, AskBundle, AskCheck, AskDecision
  <2>3. QED BY <2>1, <2>2, OthersCap
<1>4. ASSUME NEW c \in Callers, NEW ok \in BOOLEAN, CheckCap(c, ok) PROVE CapInv'
  <2>1. CASE CountStarts(c, ok) BY <2>1, CountStartsCap
  <2>2. CASE LogStart(c, ok) BY <2>2, LogStartCap
  <2>3. CASE ReadCap(c, ok) \/ KeepCap(c, ok) BY <2>3, PolicyCap
  <2>4. QED BY <1>4, <2>1, <2>2, <2>3 DEF CheckCap
<1>5. CASE LeaveWindow
  <2>1. logged' <= logged /\ unlogged' <= unlogged /\ logged' \in Nat /\ unlogged' \in Nat
    BY <1>5 DEF LeaveWindow, TypeOK
  <2>2. /\ cap' = cap /\ loosest' = loosest /\ lifted' = lifted /\ limit' = limit /\ pc' = pc
        /\ faults' \in Nat /\ faults' >= faults
    BY <1>5 DEF LeaveWindow, TypeOK
  <2>3. QED BY <2>1, <2>2, CapFrame
<1>6. ASSUME NEW p \in Caps, NEW ok \in BOOLEAN, ChangeCap(p, ok) PROVE CapInv'
  BY <1>6, PolicyCap DEF ChangeCap
<1>7. CASE (\E x \in Actors, S \in Granted : SetScopes(x, S)) \/ (\E a \in Artifacts : RunJob(a))
  <2>1. UNCHANGED capVars /\ faults' = faults /\ pc' = pc
    BY <1>7 DEF SetScopes, RunJob
  <2>2. QED BY <2>1, OthersCap
<1>8. CASE Crash BY <1>1, <1>8 DEF Crash
<1>9. CASE UNCHANGED vars
  BY <1>9, OthersCap DEF vars
<1>10. QED
  BY <1>2, <1>3, <1>4, <1>5, <1>6, <1>7, <1>8, <1>9 DEF Next

(* Every reachable state satisfies both invariants.                        *)
THEOREM PublishingInvariant == Spec => [](ReviewInv /\ CapInv)
<1>1. Init => ReviewInv /\ CapInv
  BY PublishingInit, PublishingAssumption, WorkflowCapsAssumption
<1>2. ReviewInv /\ CapInv /\ [Next]_vars => (ReviewInv /\ CapInv)'
  BY ReviewStep, CapStep, PublishingAssumption, WorkflowCapsAssumption DEF ReviewInv
<1>3. QED BY <1>1, <1>2, PTL DEF Spec

(* The tables and the locals of every request stay well typed.             *)
THEOREM PublishingTypeOK == Spec => []TypeOK
<1>1. ReviewInv => TypeOK BY DEF ReviewInv
<1>2. QED BY <1>1, PublishingInvariant, PTL

(* A published post was approved by somebody else with a scope for it,     *)
(* unless a job published it or /publish found no approval.                *)
THEOREM PublishingWasReviewed == Spec => []PublishedWasReviewed
<1>1. ReviewInv => PublishedWasReviewed BY DEF ReviewInv
<1>2. QED BY <1>1, PublishingInvariant, PTL

(* The last step of an approval tells its status.                          *)
THEOREM PublishingStepsTell == Spec => []StepsTellStatus
<1>1. ReviewInv => StepsTellStatus BY DEF ReviewInv
<1>2. QED BY <1>1, PublishingInvariant, PTL

(* The cap is exceeded by fewer executions than there are threads, and one *)
(* for every failed statement.                                             *)
THEOREM PublishingCapHonoured == Spec => []CapHonoured
<1>1. ReviewInv /\ CapInv => CapHonoured
  <2>1. SUFFICES ASSUME TypeOK, CapInv, ~lifted
                 PROVE  logged + unlogged + 1 <= loosest + Cardinality(Callers) + faults
    BY DEF CapHonoured, ReviewInv
  <2>2. Cardinality(Logging) \in Nat /\ Cardinality(Callers) \in Nat
    BY <2>1, Counts, WorkflowCapsAssumption
  <2>3. QED BY <2>1, <2>2 DEF CapInv, TypeOK
<1>2. QED BY <1>1, PublishingInvariant, PTL
=============================================================================
