--------------------------- MODULE VersionsProofs ---------------------------
(***************************************************************************)
(* The versions of a workflow and the releases of the system: the gate to  *)
(* publication, for any number of requests in progress, any definitions    *)
(* and any number of versions and faults, and the packages that are        *)
(* delivered and recorded, for any callers, processes, tenants, files and  *)
(* requests.  The two components share nothing; each has its invariant.    *)
(***************************************************************************)
EXTENDS WorkflowVersions, Release, TLAPS

(* What a request carries fits the statement it is about to execute; a row *)
(* that a promote has found does not go away.                              *)
Fits(at, r) ==
  /\ at \in Writing \cup {"check"} => r.version \in Versions
  /\ at \in {"create", "latest", "check", "insert"} =>
       r.definition \in Definitions /\ r.status # "published"
  /\ at = "demote" => r.status = "published"
  /\ at \in {"demote", "set"} => Exists(r.version)

RequestFits == \A c \in Clients : Fits(pc[c], req[c])

(* A promote that will publish version v. *)
Publishes(c, v) ==
  pc[c] \in {"demote", "set"} /\ req[c].status = "published" /\ req[c].version = v

(* A version nobody raced for that has passed the gate, or that a promote  *)
(* has found past it, has a definition that was vetted.                    *)
GateHolds ==
  \A v \in Versions \ raced :
    status[v] \in {"tested", "approved", "published"} \/ (\E c \in Clients : Publishes(c, v))
      => definition[v] \in vetted[v]

(* A create that found its version unpublished finds it so when it writes, *)
(* unless it was raced for.                                                *)
CreateMayWrite ==
  \A c \in Clients : pc[c] = "create" /\ status[req[c].version] = "published"
                       => promise = "open" /\ (faults > 0 \/ req[c].version \in raced)

(* While promotes have not crossed, one at most stands between its two     *)
(* updates.                                                                *)
OneBetween ==
  promise # "open" => /\ raced = {}
                      /\ \A c, d \in Clients : Between(c) /\ Between(d) => c = d

Request == [version : 0..MaxVersion, source : 0..MaxVersion, status : Status,
            definition : Definitions \cup {NoDefinition}]

VersionsInv ==
  TypeOK /\ RequestFits /\ GateHolds /\ CreateMayWrite /\ OneBetween /\ OnePublished

-----------------------------------------------------------------------------
LEMMA InitInv == VersionsAssumption /\ Init => VersionsInv
BY DEF VersionsAssumption, Init, VersionsInv, TypeOK, RequestFits, Fits, GateHolds,
       CreateMayWrite, OneBetween, OnePublished, NoRequest, PC, Writing, Status, Exists,
       Published, Publishes, Between

(* A request at rest is a request. *)
LEMMA AtRest == VersionsAssumption => NoRequest \in Request /\ "idle" \in PC
BY DEF VersionsAssumption, NoRequest, Request, PC, Status

(* Faults are only added. *)
LEMMA FaultsGrow ==
  ASSUME VersionsInv, NEW ok \in BOOLEAN, Database(ok)
  PROVE  faults' \in Nat /\ faults' >= faults /\ (~ok => faults' > 0)
BY DEF VersionsInv, TypeOK, Database

-----------------------------------------------------------------------------
(* A step that writes no row moves one request on: what it carries fits,   *)
(* the version it will publish is past the gate, the one it will overwrite *)
(* is not published unless by a fault, and it neither enters nor leaves    *)
(* the middle of a promote without ending what is promised.                *)
LEMMA MovesOn ==
  ASSUME VersionsAssumption, VersionsInv,
         NEW c \in Clients, NEW to \in PC, NEW r \in Request,
         pc' = [pc EXCEPT ![c] = to], req' = [req EXCEPT ![c] = r],
         UNCHANGED <<table, raced, vetted>>,
         faults' \in Nat, faults' >= faults, promise' \in {promise, "open"},
         Fits(to, r),
         to \in {"demote", "set"} /\ r.status = "published" =>
           r.version \in raced \/ definition[r.version] \in vetted[r.version],
         to = "create" /\ status[r.version] = "published" => promise' = "open" /\ faults' > 0,
         Between(c) \/ (to = "set" /\ r.status = "published") => promise' = "open"
  PROVE  VersionsInv'
<1> USE DEF VersionsInv
<1>1. TypeOK'
  BY DEF TypeOK, table, Request, Exists
<1>2. \A d \in Clients : pc'[d] = (IF d = c THEN to ELSE pc[d])
                         /\ req'[d] = (IF d = c THEN r ELSE req[d])
  BY DEF TypeOK
<1>3. status' = status /\ definition' = definition /\ raced' = raced /\ vetted' = vetted
  BY DEF table
<1>4. RequestFits'
  BY <1>2, <1>3 DEF RequestFits, Fits, Exists
<1>5. GateHolds'
  BY <1>2, <1>3 DEF GateHolds, Publishes
<1>6. CreateMayWrite'
  <2>1. ASSUME NEW d \in Clients, pc'[d] = "create", status[req'[d].version] = "published"
        PROVE  promise' = "open" /\ (faults' > 0 \/ req'[d].version \in raced)
    <3>1. CASE d = c
      BY <1>2, <2>1, <3>1
    <3>2. CASE d # c
      BY <1>2, <2>1, <3>2 DEF CreateMayWrite, TypeOK
    <3>3. QED BY <3>1, <3>2
  <2>2. QED BY <2>1, <1>3 DEF CreateMayWrite
<1>7. ASSUME promise' # "open"
      PROVE  /\ promise' = promise
             /\ \A d \in Clients : Between(d)' <=> Between(d)
  BY <1>2, <1>7 DEF Between
<1>8. OneBetween'
  BY <1>3, <1>7 DEF OneBetween
<1>9. OnePublished'
  BY <1>3, <1>7 DEF OnePublished, Published
<1>10. QED
  BY <1>1, <1>4, <1>5, <1>6, <1>8, <1>9

(* A request that ends without a write. *)
LEMMA Returns ==
  ASSUME VersionsAssumption, VersionsInv, NEW c \in Clients, Return(c),
         UNCHANGED <<table, raced, vetted>>, faults' \in Nat, faults' >= faults,
         promise' \in {promise, "open"}, Between(c) => promise' = "open"
  PROVE  VersionsInv'
<1>1. Fits("idle", NoRequest)
  BY DEF Fits, Writing
<1>2. QED BY <1>1, AtRest, MovesOn DEF Return

-----------------------------------------------------------------------------
(* The types of the rows. *)
RowsOK ==
  /\ status \in [Versions -> Status \cup {"absent"}]
  /\ definition \in [Versions -> Definitions \cup {NoDefinition}]
  /\ \A v \in Versions : definition[v] = NoDefinition <=> ~Exists(v)

(* What a write leaves in the history. *)
LEMMA Recorded ==
  ASSUME TypeOK, RowsOK', NEW c, NEW V \in SUBSET Versions, NEW p,
         p \in {"none", "one", "open"}, Records(c, V, p)
  PROVE  /\ raced \subseteq raced' /\ raced' \subseteq Versions
         /\ vetted' \in [Versions -> SUBSET Definitions]
         /\ \A v \in Versions \ raced' :
              /\ vetted[v] \subseteq vetted'[v]
              /\ status'[v] \in {"tested", "approved"} => definition'[v] \in vetted'[v]
         /\ promise' \in {p, "open"} /\ (promise' # "open" => raced' = {})
<1>1. \A v \in Versions : status'[v] \in {"tested", "approved"} => definition'[v] \in Definitions
  BY DEF RowsOK, Exists
<1>2. QED BY <1>1 DEF TypeOK, Records

(* A request writes row v and ends: a version it publishes is past the     *)
(* gate, and whoever read the row to write it raced for it.                *)
LEMMA Written ==
  ASSUME VersionsAssumption, VersionsInv, NEW c \in Clients, NEW v \in Versions,
         NEW s \in Status, NEW d \in Definitions, NEW p \in {"none", "one", "open"},
         Return(c), faults' \in Nat, faults' >= faults,
         status' = [status EXCEPT ![v] = s], definition' = [definition EXCEPT ![v] = d],
         Records(c, {v}, p),
         s = "published" => v \in raced \/ d \in vetted[v],
         promise = "open" => p = "open"
  PROVE  TypeOK' /\ RequestFits' /\ GateHolds' /\ CreateMayWrite' /\ OneBetween'
<1> USE DEF VersionsInv
<1>1. /\ \A w \in Versions : /\ status'[w] = (IF w = v THEN s ELSE status[w])
                             /\ definition'[w] = (IF w = v THEN d ELSE definition[w])
      /\ \A e \in Clients : /\ pc'[e] = (IF e = c THEN "idle" ELSE pc[e])
                            /\ req'[e] = (IF e = c THEN NoRequest ELSE req[e])
  BY DEF TypeOK, Return
<1>2. RowsOK'
  BY <1>1 DEF TypeOK, RowsOK, Exists, Status, VersionsAssumption
<1>3. /\ raced \subseteq raced' /\ raced' \subseteq Versions
      /\ vetted' \in [Versions -> SUBSET Definitions]
      /\ \A w \in Versions \ raced' :
           /\ vetted[w] \subseteq vetted'[w]
           /\ status'[w] \in {"tested", "approved"} => definition'[w] \in vetted'[w]
      /\ \A e \in Clients \ {c} : pc[e] \in Writing /\ req[e].version = v => v \in raced'
      /\ promise' \in {p, "open"} /\ (promise' # "open" => raced' = {})
  <2>1. {v} \in SUBSET Versions /\ TypeOK
    OBVIOUS
  <2> HIDE DEF VersionsInv
  <2>2. /\ raced \subseteq raced' /\ raced' \subseteq Versions
        /\ vetted' \in [Versions -> SUBSET Definitions]
        /\ \A w \in Versions \ raced' :
             /\ vetted[w] \subseteq vetted'[w]
             /\ status'[w] \in {"tested", "approved"} => definition'[w] \in vetted'[w]
        /\ promise' \in {p, "open"} /\ (promise' # "open" => raced' = {})
    BY <1>2, <2>1, Recorded
  <2>3. \A e \in Clients \ {c} : pc[e] \in Writing /\ req[e].version = v => v \in raced'
    BY DEF Records
  <2>4. QED BY <2>2, <2>3
<1>4. TypeOK'
  BY <1>2, <1>3, AtRest DEF TypeOK, RowsOK, Return, Request
<1>5. RequestFits'
  <2>1. \A w : Exists(w) => Exists(w)'
    BY DEF TypeOK, Exists, Status
  <2>2. QED BY <1>1, <2>1 DEF RequestFits, Fits, Writing
<1>6. GateHolds'
  <2>1. ASSUME NEW w \in Versions \ raced',
               status'[w] \in {"tested", "approved", "published"}
                 \/ \E e \in Clients : Publishes(e, w)'
        PROVE  definition'[w] \in vetted'[w]
    <3>1. \A e \in Clients : Publishes(e, w)' => e # c /\ Publishes(e, w)
      BY <1>1 DEF Publishes
    <3>2. CASE w = v
      <4>1. \A e \in Clients : ~Publishes(e, w)'
        BY <3>1, <3>2, <1>3, <2>1 DEF Publishes, Writing
      <4>2. QED BY <4>1, <3>2, <1>1, <1>3, <2>1
    <3>3. CASE w # v
      <4>1. definition[w] \in vetted[w]
        BY <3>1, <3>3, <1>1, <1>3, <2>1 DEF GateHolds
      <4>2. QED BY <4>1, <3>3, <1>1, <1>3, <2>1
    <3>4. QED BY <3>2, <3>3
  <2>2. QED BY <2>1 DEF GateHolds
<1>7. CreateMayWrite'
  <2>1. ASSUME NEW e \in Clients, pc'[e] = "create", status'[req'[e].version] = "published"
        PROVE  promise' = "open" /\ (faults' > 0 \/ req'[e].version \in raced')
    <3>1. e # c /\ pc[e] = "create" /\ req'[e] = req[e] /\ req[e].version \in Versions
      BY <1>1, <2>1 DEF RequestFits, Fits, Writing
    <3>2. CASE req[e].version = v
      BY <3>1, <3>2, <1>3 DEF Writing
    <3>3. CASE req[e].version # v
      <4>1. status[req[e].version] = "published"
        BY <3>1, <3>3, <1>1, <2>1
      <4>2. promise = "open" /\ (faults > 0 \/ req[e].version \in raced)
        BY <3>1, <4>1 DEF CreateMayWrite
      <4>3. QED BY <3>1, <4>2, <1>3 DEF TypeOK
    <3>4. QED BY <3>2, <3>3
  <2>2. QED BY <2>1 DEF CreateMayWrite
<1>8. OneBetween'
  BY <1>1, <1>3 DEF OneBetween, Between
<1>9. QED
  BY <1>4, <1>5, <1>6, <1>7, <1>8

(* A draft, a tested or an approved version written over one that is not   *)
(* published, or where nothing is promised, leaves what is published.      *)
LEMMA WrittenUnpublished ==
  ASSUME VersionsAssumption, VersionsInv, NEW c \in Clients, pc[c] \in {"create", "insert"},
         NEW v \in Versions, v = req[c].version, Return(c), faults' \in Nat, faults' >= faults,
         Put(v, req[c]), Records(c, {v}, promise),
         status[v] = "published" => promise = "open"
  PROVE  VersionsInv'
<1>1. /\ req[c].status \in Status \ {"published"} /\ req[c].definition \in Definitions
      /\ promise \in {"none", "one", "open"}
  BY DEF VersionsInv, TypeOK, RequestFits, Fits
<1>2. TypeOK' /\ RequestFits' /\ GateHolds' /\ CreateMayWrite' /\ OneBetween'
  BY <1>1, Written DEF Put
<1>3. OnePublished'
  <2>1. promise' \in {promise, "open"}
    BY DEF Records
  <2>2. promise' # "open" => Published' = Published
    BY <1>1, <2>1 DEF Published, Put, VersionsInv, TypeOK
  <2>3. \A e \in Clients : Between(e)' <=> Between(e)
    BY DEF Between, Return, VersionsInv, TypeOK
  <2>4. QED BY <2>1, <2>2, <2>3 DEF OnePublished, VersionsInv
<1>4. QED BY <1>2, <1>3 DEF VersionsInv

-----------------------------------------------------------------------------
(* The steps of create. *)
LEMMA CreateReadStep ==
  ASSUME VersionsAssumption, VersionsInv, NEW c \in Clients, NEW v \in Versions,
         NEW s \in Status, NEW d \in Definitions, NEW ok \in BOOLEAN, CreateRead(c, v, s, d, ok)
  PROVE  VersionsInv'
<1> DEFINE r == [version |-> v, source |-> 0, status |-> s, definition |-> d]
<1>1. /\ r \in Request /\ "create" \in PC /\ Fits("create", r)
      /\ r.version = v /\ r.status = s
  BY DEF VersionsAssumption, Request, PC, Writing, Versions, CreateRead, Fits
<1>2. /\ faults' \in Nat /\ faults' >= faults /\ (~ok => faults' > 0)
  BY FaultsGrow DEF CreateRead
<1>3. /\ pc' = [pc EXCEPT ![c] = "create"] /\ req' = [req EXCEPT ![c] = r]
      /\ UNCHANGED <<table, raced, vetted>> /\ ~Between(c)
      /\ promise' \in {promise, "open"}
      /\ status[v] = "published" => promise' = "open" /\ ~ok
  BY DEF CreateRead, Start, Editable, Between
<1> HIDE DEF r
<1>4. QED BY <1>1, <1>2, <1>3, MovesOn

LEMMA CreateWriteStep ==
  ASSUME VersionsAssumption, VersionsInv, NEW c \in Clients, NEW ok \in BOOLEAN,
         CreateWrite(c, ok)
  PROVE  VersionsInv'
<1>1. /\ pc[c] = "create" /\ Return(c) /\ faults' \in Nat /\ faults' >= faults
      /\ req[c].version \in Versions
  BY FaultsGrow DEF CreateWrite, VersionsInv, RequestFits, Fits, Writing
<1>2. CASE ok
  BY <1>1, <1>2, WrittenUnpublished DEF CreateWrite, VersionsInv, CreateMayWrite
<1>3. CASE ~ok
  BY <1>1, <1>3, Returns DEF CreateWrite, history, Between
<1>4. QED BY <1>2, <1>3

-----------------------------------------------------------------------------
(* The steps of promote. *)
LEMMA PromoteReadStep ==
  ASSUME VersionsAssumption, VersionsInv, NEW c \in Clients, NEW v \in Versions,
         NEW s \in Status, PromoteRead(c, v, s)
  PROVE  VersionsInv'
<1> DEFINE r == [version |-> v, source |-> 0, status |-> s, definition |-> NoDefinition]
           to == IF s = "published" THEN "demote" ELSE "set"
<1>1. /\ r \in Request /\ to \in PC /\ Fits(to, r) /\ r.version = v /\ r.status = s
      /\ to # "create" /\ ~(to = "set" /\ r.status = "published")
  BY DEF VersionsAssumption, Request, PC, Writing, Versions, PromoteRead, Fits
<1>2. /\ pc' = [pc EXCEPT ![c] = to] /\ req' = [req EXCEPT ![c] = r]
      /\ UNCHANGED <<table, raced, vetted>> /\ ~Between(c)
      /\ faults' = faults /\ promise' = promise
  BY DEF PromoteRead, Start, Between
<1>3. s = "published" => v \in raced \/ definition[v] \in vetted[v]
  BY DEF PromoteRead, MayBecome, VersionsInv, GateHolds
<1>4. faults' \in Nat /\ faults' >= faults
  BY <1>2 DEF VersionsInv, TypeOK
<1> HIDE DEF r, to
<1>5. QED BY <1>1, <1>2, <1>3, <1>4, MovesOn

(* The others are demoted: nothing is published until this one is.         *)
LEMMA DemoteStep ==
  ASSUME VersionsAssumption, VersionsInv, NEW c \in Clients, NEW ok \in BOOLEAN, Demote(c, ok)
  PROVE  VersionsInv'
<1> USE DEF VersionsInv
<1>1. /\ pc[c] = "demote" /\ pc' = [pc EXCEPT ![c] = "set"] /\ UNCHANGED <<req, definition>>
      /\ faults' \in Nat /\ faults' >= faults /\ ~Between(c)
  BY FaultsGrow DEF Demote, Goto, Between
<1>2. /\ req[c] \in Request /\ Fits("demote", req[c]) /\ req[c].status = "published"
      /\ req[c].version \in Versions
  BY <1>1 DEF TypeOK, Request, RequestFits, Fits, Writing
<1>3. CASE ~ok
  <2>1. Fits("set", req[c]) /\ "set" \in PC /\ req' = [req EXCEPT ![c] = req[c]]
    BY <1>1, <1>2 DEF Fits, Writing, PC, TypeOK
  <2>2. req[c].version \in raced \/ definition[req[c].version] \in vetted[req[c].version]
    BY <1>1, <1>2 DEF GateHolds, Publishes
  <2>3. promise' = "open" /\ UNCHANGED <<table, raced, vetted>>
    BY <1>1, <1>3 DEF Demote, table
  <2> HIDE DEF VersionsInv
  <2>4. QED BY <1>1, <1>2, <2>1, <2>2, <2>3, MovesOn
<1>4. CASE ok
  <2> DEFINE p == IF \E e \in Clients : Between(e) THEN "open" ELSE promise
  <2>1. status' = Demoted /\ Records(c, Published, p)
    BY <1>4 DEF Demote
  <2>2. p \in {"none", "one", "open"}
    BY DEF TypeOK
  <2>3. RowsOK'
    BY <1>1, <2>1 DEF RowsOK, TypeOK, Demoted, Exists, Status
  <2>4. /\ raced \subseteq raced' /\ raced' \subseteq Versions
        /\ vetted' \in [Versions -> SUBSET Definitions]
        /\ \A w \in Versions \ raced' :
             /\ vetted[w] \subseteq vetted'[w]
             /\ status'[w] \in {"tested", "approved"} => definition'[w] \in vetted'[w]
        /\ promise' \in {p, "open"} /\ (promise' # "open" => raced' = {})
    BY <2>1, <2>2, <2>3, Recorded DEF Published
  <2>5. /\ \A w \in Versions : /\ status'[w] # "published"
                               /\ status'[w] \in {status[w], "approved"}
                               /\ Exists(w)' <=> Exists(w)
        /\ Published' = {}
    BY <2>1 DEF Demoted, Published, TypeOK, Exists
  <2>6. \A e \in Clients : pc'[e] = (IF e = c THEN "set" ELSE pc[e])
    BY <1>1 DEF TypeOK
  <2>7. TypeOK'
    BY <1>1, <2>2, <2>3, <2>4 DEF TypeOK, RowsOK, PC, Writing
  <2>8. RequestFits'
    <3>1. ASSUME NEW e \in Clients PROVE Fits(pc[e], req[e]) => Fits(pc[e], req[e])'
      BY <1>1, <1>2, <2>5, <2>6 DEF Fits, Writing, RequestFits
    <3>2. QED BY <3>1 DEF RequestFits, Fits
  <2>9. GateHolds'
    <3>1. \A e \in Clients : \A w : Publishes(e, w)' => Publishes(e, w)
      BY <1>1, <2>6 DEF Publishes
    <3>2. ASSUME NEW w \in Versions \ raced',
                 status'[w] \in {"tested", "approved", "published"}
                   \/ \E e \in Clients : Publishes(e, w)'
          PROVE  definition'[w] \in vetted'[w]
      BY <3>1, <3>2, <1>1, <2>4, <2>5 DEF GateHolds
    <3>3. QED BY <3>2 DEF GateHolds
  <2>10. CreateMayWrite'
    <3>1. ASSUME NEW e \in Clients PROVE pc'[e] = "create" => status'[req'[e].version] # "published"
      BY <1>1, <2>5, <2>6 DEF RequestFits, Fits, Writing
    <3>2. QED BY <3>1 DEF CreateMayWrite
  <2>11. OneBetween'
    <3>1. ASSUME promise' # "open" PROVE \A e \in Clients : ~Between(e)
      BY <3>1, <2>4
    <3>2. \A e \in Clients \ {c} : Between(e)' => Between(e)
      BY <1>1, <2>6 DEF Between
    <3>3. QED BY <3>1, <3>2, <2>4 DEF OneBetween
  <2>12. OnePublished'
    <3>1. Between(c)'
      BY <1>1, <1>2, <2>6 DEF Between
    <3>2. QED BY <3>1, <2>5 DEF OnePublished
  <2>13. QED BY <2>7, <2>8, <2>9, <2>10, <2>11, <2>12
<1>5. QED BY <1>3, <1>4

(* The version gets its status.  If it is published, nothing else is, and  *)
(* no other promote stands between its updates.                            *)
LEMMA SetStatusStep ==
  ASSUME VersionsAssumption, VersionsInv, NEW c \in Clients, NEW ok \in BOOLEAN,
         SetStatus(c, ok)
  PROVE  VersionsInv'
<1> DEFINE v == req[c].version
           s == req[c].status
           p == IF promise = "open" THEN "open"
                ELSE IF s = "published" THEN "one"
                ELSE IF status[v] = "published" THEN "none" ELSE promise
<1>1. /\ pc[c] = "set" /\ Return(c) /\ definition' = definition
      /\ faults' \in Nat /\ faults' >= faults
      /\ v \in Versions /\ s \in Status /\ status[v] # "absent"
  BY FaultsGrow DEF SetStatus, VersionsInv, RequestFits, Fits, Writing, TypeOK, Exists
<1>2. CASE ~ok
  BY <1>1, <1>2, Returns DEF SetStatus, table
<1>3. CASE ok
  <2>1. status' = [status EXCEPT ![v] = s] /\ Records(c, {v}, p)
    BY <1>3 DEF SetStatus
  <2>2. definition[v] \in Definitions /\ definition' = [definition EXCEPT ![v] = definition[v]]
    BY <1>1 DEF VersionsInv, TypeOK, Exists
  <2>3. p \in {"none", "one", "open"} /\ (promise = "open" => p = "open")
    BY DEF VersionsInv, TypeOK
  <2>4. s = "published" => v \in raced \/ definition[v] \in vetted[v]
    BY <1>1 DEF VersionsInv, GateHolds, Publishes
  <2>5. TypeOK' /\ RequestFits' /\ GateHolds' /\ CreateMayWrite' /\ OneBetween'
    <3> HIDE DEF v, s, p
    <3>1. QED BY <1>1, <2>1, <2>2, <2>3, <2>4, Written
  <2>6. OnePublished'
    <3>1. promise' \in {p, "open"}
      BY <2>1 DEF Records
    <3>2. /\ ~Between(c)'
          /\ \A e \in Clients : Between(e)' => Between(e)
          /\ \A e \in Clients \ {c} : Between(e)' <=> Between(e)
      BY <1>1 DEF Between, Return, VersionsInv, TypeOK
    <3>3. \A w \in Versions : status'[w] = (IF w = v THEN s ELSE status[w])
      BY <2>1 DEF VersionsInv, TypeOK
    <3>4. CASE promise = "open"
      BY <3>1, <3>4 DEF OnePublished
    <3>5. CASE promise # "open" /\ s = "published"
      <4>1. Between(c) /\ Published = {}
        BY <1>1, <3>5 DEF Between, VersionsInv, OnePublished, TypeOK
      <4>2. \A e \in Clients : ~Between(e)'
        BY <4>1, <3>2, <3>5 DEF VersionsInv, OneBetween
      <4>3. Published' = {v}
        BY <4>1, <1>1, <3>3, <3>5 DEF Published
      <4>4. QED BY <1>1, <3>1, <3>5, <4>2, <4>3 DEF OnePublished
    <3>6. CASE promise # "open" /\ s # "published" /\ status[v] = "published"
      <4>1. Published = {v}
        BY <1>1, <3>6 DEF Published, VersionsInv, OnePublished, TypeOK
      <4>2. Published' = {}
        BY <4>1, <3>3, <3>6 DEF Published
      <4>3. QED BY <3>1, <3>6, <4>2 DEF OnePublished
    <3>7. CASE promise # "open" /\ s # "published" /\ status[v] # "published"
      <4>1. Published' = Published
        BY <3>3, <3>7 DEF Published
      <4>2. \A e \in Clients : Between(e)' <=> Between(e)
        BY <3>2, <3>7 DEF Between
      <4>3. QED BY <3>1, <3>7, <4>1, <4>2 DEF OnePublished, VersionsInv
    <3>8. QED BY <3>4, <3>5, <3>6, <3>7
  <2>7. QED BY <2>5, <2>6 DEF VersionsInv
<1>4. QED BY <1>2, <1>3

-----------------------------------------------------------------------------
(* The steps of rollback. *)
LEMMA RollbackReadStep ==
  ASSUME VersionsAssumption, VersionsInv, NEW c \in Clients, NEW source \in Versions,
         NEW new \in 0..MaxVersion, NEW s \in Status, RollbackRead(c, source, new, s)
  PROVE  VersionsInv'
<1> DEFINE r == [version |-> new, source |-> IF new = 0 THEN source ELSE 0, status |-> s,
                 definition |-> definition[source]]
           to == IF new = 0 THEN "latest" ELSE "check"
<1>1. definition[source] \in Definitions
  BY DEF RollbackRead, Exists, VersionsInv, TypeOK
<1>2. /\ r \in Request /\ to \in PC /\ Fits(to, r)
      /\ to \in {"latest", "check"}
  BY <1>1 DEF VersionsAssumption, Request, PC, Writing, Versions, RollbackRead, Fits
<1>3. /\ pc' = [pc EXCEPT ![c] = to] /\ req' = [req EXCEPT ![c] = r]
      /\ UNCHANGED <<table, raced, vetted>> /\ ~Between(c)
      /\ faults' = faults /\ promise' = promise
  BY DEF RollbackRead, Start, Between
<1>4. faults' \in Nat /\ faults' >= faults
  BY <1>3 DEF VersionsInv, TypeOK
<1> HIDE DEF r, to
<1>5. QED BY <1>2, <1>3, <1>4, MovesOn

LEMMA RollbackLatestStep ==
  ASSUME VersionsAssumption, VersionsInv, NEW c \in Clients, NEW n \in 0..MaxVersion,
         NEW ok \in BOOLEAN, RollbackLatest(c, n, ok)
  PROVE  VersionsInv'
<1> DEFINE new == IF ok THEN n + 1 ELSE 1
           r == [req[c] EXCEPT !.version = new, !.source = 0]
<1>1. /\ pc[c] = "latest" /\ UNCHANGED <<table, raced, vetted>> /\ promise' = promise
      /\ faults' \in Nat /\ faults' >= faults /\ ~Between(c)
  BY FaultsGrow DEF RollbackLatest, history, Between
<1>2. CASE Return(c)
  BY <1>1, <1>2, Returns
<1>3. CASE /\ new <= MaxVersion
           /\ pc'  = [pc EXCEPT ![c] = "check"]
           /\ req' = [req EXCEPT ![c].version = new, ![c].source = 0]
  <2>1. req[c] \in Request /\ req[c].definition \in Definitions /\ req[c].status # "published"
    BY <1>1 DEF VersionsInv, TypeOK, Request, RequestFits, Fits
  <2>2. new \in Versions /\ new \in 0..MaxVersion /\ 0 \in 0..MaxVersion
    BY <1>3 DEF Versions, VersionsAssumption
  <2>3. r \in Request /\ "check" \in PC /\ Fits("check", r)
    BY <2>1, <2>2 DEF Request, PC, Fits
  <2>4. req' = [req EXCEPT ![c] = r]
    BY <1>3, <2>1 DEF VersionsInv, TypeOK
  <2> HIDE DEF r
  <2>5. QED BY <1>1, <1>3, <2>3, <2>4, MovesOn
<1>4. QED
  <2>1. new \in Nat /\ MaxVersion \in Nat
    BY DEF VersionsAssumption
  <2>2. QED BY <1>2, <1>3, <2>1 DEF RollbackLatest

LEMMA RollbackCheckStep ==
  ASSUME VersionsAssumption, VersionsInv, NEW c \in Clients, NEW ok \in BOOLEAN,
         RollbackCheck(c, ok)
  PROVE  VersionsInv'
<1>1. /\ pc[c] = "check" /\ UNCHANGED <<table, raced, vetted>> /\ promise' = promise
      /\ faults' \in Nat /\ faults' >= faults /\ ~Between(c)
  BY FaultsGrow DEF RollbackCheck, history, Between
<1>2. CASE Return(c)
  BY <1>1, <1>2, Returns
<1>3. CASE Goto(c, "check", "insert")
  <2>1. req[c] \in Request /\ req' = [req EXCEPT ![c] = req[c]]
    BY <1>3 DEF Goto, VersionsInv, TypeOK, Request
  <2>2. Fits("insert", req[c]) /\ "insert" \in PC
    BY <1>1 DEF VersionsInv, RequestFits, Fits, PC, Writing
  <2>3. QED BY <1>1, <1>3, <2>1, <2>2, MovesOn DEF Goto
<1>4. QED BY <1>2, <1>3 DEF RollbackCheck

LEMMA RollbackInsertStep ==
  ASSUME VersionsAssumption, VersionsInv, NEW c \in Clients, NEW ok \in BOOLEAN,
         RollbackInsert(c, ok)
  PROVE  VersionsInv'
<1>1. /\ pc[c] = "insert" /\ Return(c) /\ faults' \in Nat /\ faults' >= faults
      /\ req[c].version \in Versions
  BY FaultsGrow DEF RollbackInsert, VersionsInv, RequestFits, Fits, Writing
<1>2. CASE ok /\ ~Exists(req[c].version)
  BY <1>1, <1>2, WrittenUnpublished DEF RollbackInsert, Inserted, Exists
<1>3. CASE UNCHANGED <<table, history>>
  BY <1>1, <1>3, Returns DEF history, Between
<1>4. QED BY <1>2, <1>3 DEF RollbackInsert, Inserted

LEMMA AbandonStep ==
  ASSUME VersionsAssumption, VersionsInv, NEW c \in Clients, Abandon(c)
  PROVE  VersionsInv'
<1>1. faults' \in Nat /\ faults' >= faults
  BY FaultsGrow DEF Abandon
<1>2. QED BY <1>1, Returns DEF Abandon

-----------------------------------------------------------------------------
LEMMA NextInv == VersionsAssumption /\ VersionsInv /\ [Next]_vars => VersionsInv'
<1> SUFFICES ASSUME VersionsAssumption, VersionsInv, [Next]_vars PROVE VersionsInv'
  OBVIOUS
<1>1. CASE UNCHANGED vars
  BY <1>1 DEF vars, table, request, history, VersionsInv, TypeOK, RequestFits, Fits, GateHolds,
       CreateMayWrite, OneBetween, OnePublished, Exists, Published, Publishes, Between
<1>2. CASE Next
  BY <1>2, CreateReadStep, CreateWriteStep, PromoteReadStep, DemoteStep, SetStatusStep,
     RollbackReadStep, RollbackLatestStep, RollbackCheckStep, RollbackInsertStep, AbandonStep
     DEF Next
<1>3. QED BY <1>1, <1>2

LEMMA Invariant == Spec => []VersionsInv
<1>1. Init => VersionsInv
  BY InitInv, VersionsAssumption
<1>2. VersionsInv /\ [Next]_vars => VersionsInv'
  BY NextInv, VersionsAssumption
<1>3. QED BY <1>1, <1>2, PTL DEF Spec

(* Every variable keeps its type, and a row has a definition exactly when  *)
(* it exists.                                                              *)
THEOREM VersionsTypeOK == Spec => []TypeOK
<1>1. VersionsInv => TypeOK
  BY DEF VersionsInv
<1>2. QED BY <1>1, Invariant, PTL

(* Whatever creates, promotes and rollbacks overlap, fail or are left half *)
(* done, a version that no two of them raced for is published only with a  *)
(* definition that was 'tested' or 'approved' under it (main.py, the       *)
(* endpoints /workflows/version/...).                                      *)
THEOREM VersionsPublishedIsVetted == Spec => []PublishedIsVetted
<1>1. VersionsInv => PublishedIsVetted
  BY DEF VersionsInv, GateHolds, PublishedIsVetted, Published
<1>2. QED BY <1>1, Invariant, PTL

(* The promotes that did not cross, fail or race leave exactly the version *)
(* published that the last of them published, for any number of clients.   *)
THEOREM VersionsOnePublished == Spec => []OnePublished
<1>1. VersionsInv => OnePublished
  BY DEF VersionsInv
<1>2. QED BY <1>1, Invariant, PTL

(* Without a fault, a published definition changes only by a race.         *)
THEOREM VersionsPublishedIsKept == Spec => PublishedIsKept
<1> DEFINE Kept == \A v \in Published \ raced' : faults' = 0 => definition'[v] = definition[v]
<1>1. ASSUME VersionsAssumption, VersionsInv, [Next]_vars PROVE Kept
  <2>1. CASE UNCHANGED definition
    BY <2>1
  <2>2. ASSUME NEW c \in Clients, NEW v \in Versions, v = req[c].version, Put(v, req[c]),
               status[v] = "published" => faults' > 0 \/ v \in raced'
        PROVE  Kept
    BY <1>1, <2>2 DEF Put, Published, VersionsInv, TypeOK
  <2>3. ASSUME NEW c \in Clients, NEW ok \in BOOLEAN, CreateWrite(c, ok) PROVE Kept
    <3>1. /\ pc[c] = "create" /\ req[c].version \in Versions /\ faults' \in Nat
          /\ faults' >= faults
      BY <1>1, <2>3, FaultsGrow DEF CreateWrite, VersionsInv, RequestFits, Fits, Writing
    <3>2. status[req[c].version] = "published" => faults > 0 \/ req[c].version \in raced
      BY <1>1, <3>1 DEF VersionsInv, CreateMayWrite
    <3>3. raced \subseteq raced'
      BY <2>3 DEF CreateWrite, Records, history
    <3>4. faults \in Nat
      BY <1>1 DEF VersionsInv, TypeOK
    <3>5. UNCHANGED definition \/ Put(req[c].version, req[c])
      BY <2>3 DEF CreateWrite, table
    <3>6. QED BY <3>1, <3>2, <3>3, <3>4, <3>5, <2>1, <2>2
  <2>4. ASSUME NEW c \in Clients, NEW ok \in BOOLEAN, RollbackInsert(c, ok) PROVE Kept
    <3>1. req[c].version \in Versions
      BY <1>1, <2>4 DEF RollbackInsert, VersionsInv, RequestFits, Fits, Writing
    <3>2. \/ UNCHANGED definition
          \/ Put(req[c].version, req[c]) /\ status[req[c].version] # "published"
      BY <2>4 DEF RollbackInsert, Inserted, Exists, table
    <3>3. QED BY <3>1, <3>2, <2>1, <2>2
  <2>5. CASE Next /\ ~\E c \in Clients, ok \in BOOLEAN : CreateWrite(c, ok) \/ RollbackInsert(c, ok)
    <3>1. ASSUME NEW c \in Clients PROVE
            /\ \A v \in Versions, s \in Status :
                 /\ \A d \in Definitions, ok \in BOOLEAN :
                      CreateRead(c, v, s, d, ok) => UNCHANGED definition
                 /\ PromoteRead(c, v, s) => UNCHANGED definition
                 /\ \A new \in 0..MaxVersion : RollbackRead(c, v, new, s) => UNCHANGED definition
            /\ \A ok \in BOOLEAN :
                 /\ Demote(c, ok) \/ SetStatus(c, ok) \/ RollbackCheck(c, ok) => UNCHANGED definition
                 /\ \A n \in 0..MaxVersion : RollbackLatest(c, n, ok) => UNCHANGED definition
            /\ Abandon(c) => UNCHANGED definition
      BY DEF CreateRead, PromoteRead, RollbackRead, Start, Demote, SetStatus,
           RollbackLatest, RollbackCheck, Abandon, table
    <3>2. UNCHANGED definition
      BY <2>5, <3>1 DEF Next
    <3>3. QED BY <2>1, <3>2
  <2>6. CASE UNCHANGED vars
    BY <2>1, <2>6 DEF vars, table
  <2>7. QED BY <1>1, <2>3, <2>4, <2>5, <2>6
<1>2. VersionsInv /\ [Next]_vars => [Kept]_vars
  BY <1>1, VersionsAssumption
<1>3. QED BY <1>2, Invariant, PTL DEF PublishedIsKept, Spec

-----------------------------------------------------------------------------
(* Releases.  The argument follows one caller: as long as nobody has       *)
(* edited the tree since its request began, what it has read of the tree   *)
(* is still so (Fresh), and whoever writes the file that it is about to    *)
(* deliver either writes that tree, or says that the tree was edited       *)
(* (Deliverable), or tears the file; and whoever may still tear it opened  *)
(* the file beside this caller, which is contended then (Apart).           *)

(* A file that may be delivered: one that was written from an edited tree  *)
(* says so, any other is published and complete.                           *)
Complete(file) == file.status = "published" /\ Required \subseteq file.tree
Deliverable(file) == file # NoPackage /\ (file.dirty \/ Complete(file))

(* What a caller whose tree was left alone has read of it.                 *)
Fresh(c) ==
  /\ stage[c] \in {"checksum", "precheck"} => Valid(read[c].manifest)
  /\ stage[c] \in {"premanifest", "precheck"} => read[c].valid
  /\ stage[c] \in {"zip", "write"} /\ asked[c].op # "rollback" =>
       read[c].valid /\ (read[c].ready <=> Required \subseteq tree)
  /\ stage[c] = "write" /\ asked[c].op # "rollback" => read[c].manifest = tree
  /\ read[c].publishable => Required \subseteq tree
  /\ read[c].publishable /\ Holds(c) /\ stage[c] # "write" =>
       \/ Deliverable(package[Path(c)])
       \/ package[Path(c)] = Torn /\ contended[c]

(* The package a caller has written, until it has hashed it.               *)
WrittenByIt(c) == package[Path(c)] # NoPackage /\ package[Path(c)].status = PackageStatus(c)

Delivered(c) ==
  stage[c] = "record" /\ read[c].outcome = "delivered" /\ read[c].channel.kind = "file_drop" =>
    \/ stirred[c] \/ read[c].file.dirty
    \/ read[c].file = Torn /\ contended[c]
    \/ Complete(read[c].file)

Sound(c) ==
  /\ stage[c] = "idle" => read[c] = Unread
  /\ read[c].publishable => asked[c].op \in {"plan", "execute"}
  /\ stirred[c] \/ Fresh(c)
  /\ stage[c] = "hash" => contended[c] \/ WrittenByIt(c)
  /\ stage[c] = "row" =>
       \/ contended[c]
       \/ read[c].file # NoPackage /\ read[c].file.status = PackageStatus(c)
  /\ Delivered(c)

(* Nobody writes the file of a caller that is not contended. *)
Apart(c) ==
  \A d \in Callers \ {c} : Holds(c) /\ stage[d] = "write" /\ Path(d) = Path(c) => contended[c]

ReleaseInv == ReleaseTypeOK /\ (\A c \in Callers : Sound(c)) /\ (\A c \in Callers : Apart(c))

-----------------------------------------------------------------------------
(* Types. *)
LEMMA RecordsTyped ==
  /\ Nothing \in ReleaseRequest <=> Default \in Tenants
  /\ Seeded \in Channel /\ Unread \in Read
BY DEF Nothing, ReleaseRequest, Seeded, Channel, Kinds, Unread, Read, Trees, Outcomes

(* What a request has read, and where it writes. *)
LEMMA CallerTyped ==
  ASSUME ReleaseTypeOK, NEW c \in Callers
  PROVE  /\ asked[c] \in ReleaseRequest
         /\ asked[c].tenant \in Tenants /\ asked[c].settings \in Channel
         /\ read[c] \in Read /\ stage[c] \in Stages
         /\ Path(c) \in Paths /\ <<"publication", asked[c].tenant>> \in Paths
         /\ asked[c].op # "rollback" => Path(c) = <<"publication", asked[c].tenant>>
<1>1. asked[c] \in ReleaseRequest
  BY DEF ReleaseTypeOK
<1>2. asked[c].tenant \in Tenants /\ asked[c].settings \in Channel
  BY <1>1 DEF ReleaseRequest
<1>3. QED BY <1>1, <1>2 DEF ReleaseTypeOK, Path, Paths

(* A package is a file, and so is a torn one. *)
LEMMA PackedTyped ==
  ASSUME ReleaseAssumption, ReleaseTypeOK, NEW c \in Callers, NEW held \in Trees
  PROVE  /\ Packed(c, held) \in Package /\ Packed(c, held) # NoPackage
         /\ Torn \in Package /\ Torn # NoPackage
<1>1. PackageStatus(c) \in {"published", "blocked", "rollback"}
  BY DEF PackageStatus
<1>2. (stirred[c] /\ asked[c].op # "rollback") \in BOOLEAN
  BY DEF ReleaseTypeOK
<1>3. Packed(c, held) \in Package
  BY <1>1, <1>2 DEF Packed, Package
<1>4. Torn \in Package
  BY DEF Torn, Package, Trees
<1>5. QED BY <1>3, <1>4 DEF ReleaseAssumption

LEMMA InitTypeOK == ReleaseAssumption /\ ReleaseInit => ReleaseTypeOK
<1> SUFFICES ASSUME ReleaseAssumption, ReleaseInit PROVE ReleaseTypeOK
  OBVIOUS
<1>1. Nothing \in ReleaseRequest /\ Seeded \in Channel /\ Unread \in Read
  BY RecordsTyped DEF ReleaseAssumption
<1>2. /\ channel \in [Tenants -> Channel \cup {NoRow}]
      /\ memory \in [Processes -> [Tenants -> Channel \cup {NoRow}]]
  BY <1>1 DEF ReleaseInit
<1>3. /\ stage \in [Callers -> Stages]
      /\ asked \in [Callers -> ReleaseRequest] /\ read \in [Callers -> Read]
      /\ stirred \in [Callers -> BOOLEAN] /\ contended \in [Callers -> BOOLEAN]
  BY <1>1 DEF ReleaseInit, Stages
<1>4. QED BY <1>2, <1>3 DEF ReleaseInit, ReleaseTypeOK, ReleaseAssumption

LEMMA StatementTyped ==
  ASSUME ReleaseAssumption, ReleaseTypeOK, NEW ok \in BOOLEAN, Statement(ok)
  PROVE  troubles' \in 0..MaxTroubles
BY DEF ReleaseAssumption, ReleaseTypeOK, Statement

(* A step that only reads, and goes on. *)
LEMMA LearnTyped ==
  ASSUME ReleaseTypeOK, NEW c \in Callers, NEW from, NEW to \in Stages, GoOn(c, from, to),
         NEW facts \in Read, Learn(c, facts), troubles' \in 0..MaxTroubles
  PROVE  ReleaseTypeOK'
<1>1. stage' \in [Callers -> Stages] /\ read' \in [Callers -> Read]
  BY DEF ReleaseTypeOK, GoOn, Learn
<1>2. QED BY <1>1 DEF ReleaseTypeOK, GoOn, Learn, tables

(* The end of a request. *)
LEMMA ReturnTyped ==
  ASSUME ReleaseAssumption, ReleaseTypeOK, NEW c \in Callers, NEW from, Finish(c, from)
  PROVE  /\ stage' \in [Callers -> Stages]
         /\ asked' \in [Callers -> ReleaseRequest] /\ read' \in [Callers -> Read]
         /\ stirred' \in [Callers -> BOOLEAN] /\ contended' \in [Callers -> BOOLEAN]
<1>1. Nothing \in ReleaseRequest /\ Unread \in Read /\ "idle" \in Stages
  BY RecordsTyped DEF ReleaseAssumption, Stages
<1>2. /\ stage \in [Callers -> Stages]
      /\ asked \in [Callers -> ReleaseRequest] /\ read \in [Callers -> Read]
      /\ stirred \in [Callers -> BOOLEAN] /\ contended \in [Callers -> BOOLEAN]
  BY DEF ReleaseTypeOK
<1>3. QED BY <1>1, <1>2 DEF Finish

(* The four passes over the tree, and the hash. *)
LEMMA PassesTyped ==
  ASSUME ReleaseAssumption, ReleaseTypeOK, NEW c \in Callers,
         Manifest(c) \/ Checksum(c) \/ PreManifest(c) \/ PreCheck(c) \/ Hash(c)
  PROVE  ReleaseTypeOK'
<1>1. /\ read[c] \in Read /\ tree \in Trees /\ troubles \in 0..MaxTroubles
      /\ {} \in Trees /\ Unread \in Read
  BY RecordsTyped DEF ReleaseTypeOK, Trees
<1>2. Valid(read[c].manifest) \in BOOLEAN /\ read[c].valid \in BOOLEAN
      /\ read[c].publishable \in BOOLEAN /\ (Required \subseteq tree) \in BOOLEAN
  BY <1>1 DEF Valid, Read
<1>3. package[Path(c)] \in Package \cup {NoPackage}
  BY CallerTyped DEF ReleaseTypeOK
<1>4. CASE Manifest(c)
  <2>1. [read[c] EXCEPT !.manifest = tree] \in Read
    BY <1>1 DEF Read
  <2>2. (IF asked[c].op = "rollback" THEN "zip" ELSE "checksum") \in Stages
    BY DEF Stages
  <2>3. QED BY <1>1, <1>4, <2>1, <2>2, LearnTyped DEF Manifest
<1>5. CASE Checksum(c)
  <2>1. [read[c] EXCEPT !.valid = Valid(read[c].manifest), !.manifest = {}] \in Read
    BY <1>1, <1>2 DEF Read
  <2>2. QED BY <1>1, <1>5, <2>1, LearnTyped DEF Checksum, Stages
<1>6. CASE PreManifest(c)
  <2>1. [read[c] EXCEPT !.manifest = tree] \in Read
    BY <1>1 DEF Read
  <2>2. QED BY <1>1, <1>6, <2>1, LearnTyped DEF PreManifest, Stages
<1>7. CASE PreCheck(c)
  <2> DEFINE ready == Valid(read[c].manifest) /\ Required \subseteq tree
             facts == IF Plans(c)
                      THEN [Unread EXCEPT !.publishable = ready /\ read[c].valid, !.planned = TRUE]
                      ELSE [read[c] EXCEPT !.ready = ready, !.manifest = {}]
             to == IF ~Plans(c) THEN "zip" ELSE IF asked[c].bundle THEN "manifest" ELSE "list"
  <2>1. ready \in BOOLEAN
    OBVIOUS
  <2> HIDE DEF ready
  <2>2. facts \in Read
    BY <1>1, <1>2, <2>1 DEF Read
  <2>3. to \in Stages
    BY DEF Stages
  <2>4. GoOn(c, "precheck", to) /\ Learn(c, facts) /\ UNCHANGED troubles
    BY <1>7 DEF PreCheck, ready
  <2> HIDE DEF facts, to
  <2>5. QED BY <1>1, <2>2, <2>3, <2>4, LearnTyped
<1>8. CASE Hash(c)
  <2>1. /\ [read[c] EXCEPT !.file = package[Path(c)]] \in Read
        /\ [Unread EXCEPT !.publishable = read[c].publishable] \in Read
    BY <1>1, <1>2, <1>3 DEF Read
  <2>2. QED BY <1>1, <1>8, <2>1, LearnTyped DEF Hash, Stages
<1>9. QED BY <1>4, <1>5, <1>6, <1>7, <1>8

(* What is written of the file.                                            *)
LEMMA ZipTyped ==
  ASSUME ReleaseAssumption, ReleaseTypeOK, NEW c \in Callers,
         \/ OpenZip(c) \/ Append(c) \/ AbandonZip(c)
         \/ \E whole \in BOOLEAN, held \in Trees : CloseZip(c, whole, held)
  PROVE  ReleaseTypeOK'
<1>1. /\ read[c] \in Read /\ tree \in Trees /\ {} \in Trees
      /\ package \in [Paths -> Package \cup {NoPackage}]
  BY DEF ReleaseTypeOK, Trees
<1>2. \A manifest \in Trees : [read[c] EXCEPT !.manifest = manifest] \in Read
  BY <1>1 DEF Read
<1>3. CASE OpenZip(c)
  <2>1. package' \in [Paths -> Package \cup {NoPackage}]
    BY <1>1, <1>3, PackedTyped DEF OpenZip
  <2>2. stage' \in [Callers -> Stages]
    BY <1>3 DEF OpenZip, GoOn, ReleaseTypeOK, Stages
  <2>3. contended' \in [Callers -> BOOLEAN]
    BY <1>3 DEF OpenZip, Crossed, ReleaseTypeOK
  <2>4. read' \in [Callers -> Read]
    <3>1. [read EXCEPT ![c].manifest = tree] = [read EXCEPT ![c] = [read[c] EXCEPT !.manifest = tree]]
      OBVIOUS
    <3>2. QED BY <1>1, <1>2, <1>3, <3>1 DEF OpenZip, ReleaseTypeOK
  <2>5. UNCHANGED <<tree, channel, memory, executions, edits, troubles, asked, stirred>>
    BY <1>3 DEF OpenZip, GoOn
  <2>6. QED BY <2>1, <2>2, <2>3, <2>4, <2>5 DEF ReleaseTypeOK
<1>4. CASE Append(c)
  <2>1. package' \in [Paths -> Package \cup {NoPackage}]
    BY <1>1, <1>4, PackedTyped DEF Append
  <2>2. QED BY <1>4, <2>1 DEF Append, ReleaseTypeOK
<1>5. CASE AbandonZip(c)
  <2>1. /\ stage' \in [Callers -> Stages] /\ asked' \in [Callers -> ReleaseRequest]
        /\ read' \in [Callers -> Read]
        /\ stirred' \in [Callers -> BOOLEAN] /\ contended' \in [Callers -> BOOLEAN]
    BY <1>5, ReturnTyped DEF AbandonZip
  <2>2. troubles' \in 0..MaxTroubles
    BY <1>5, StatementTyped DEF AbandonZip
  <2>3. QED BY <1>5, <2>1, <2>2 DEF AbandonZip, ReleaseTypeOK, tables
<1>6. CASE \E whole \in BOOLEAN, held \in Trees : CloseZip(c, whole, held)
  <2> PICK whole \in BOOLEAN, held \in Trees : CloseZip(c, whole, held)
    BY <1>6
  <2>1. package' \in [Paths -> Package \cup {NoPackage}]
    BY <1>1, PackedTyped DEF CloseZip
  <2>2. stage' \in [Callers -> Stages]
    BY DEF CloseZip, GoOn, ReleaseTypeOK, Stages
  <2>3. read' \in [Callers -> Read]
    <3>1. [read EXCEPT ![c].manifest = {}] = [read EXCEPT ![c] = [read[c] EXCEPT !.manifest = {}]]
      OBVIOUS
    <3>2. QED BY <1>1, <1>2, <3>1 DEF CloseZip, ReleaseTypeOK
  <2>4. UNCHANGED <<tree, channel, memory, executions, edits, troubles, contended, asked, stirred>>
    BY DEF CloseZip, GoOn
  <2>5. QED BY <2>1, <2>2, <2>3, <2>4 DEF ReleaseTypeOK
<1>7. QED BY <1>3, <1>4, <1>5, <1>6

(* What is written of the channels and of their executions.                *)
LEMMA WritersTyped ==
  ASSUME ReleaseAssumption, ReleaseTypeOK, NEW c \in Callers,
         \/ \E ok \in BOOLEAN : Upsert(c, ok)
         \/ Remember(c)
         \/ \E ok \in BOOLEAN : Record(c, ok)
  PROVE  ReleaseTypeOK'
<1> USE CallerTyped
<1>1. Home[c] \in Processes /\ Default \in Tenants /\ troubles \in 0..MaxTroubles
  BY DEF ReleaseAssumption, ReleaseTypeOK
<1>3. CASE \E ok \in BOOLEAN : Upsert(c, ok)
  <2> PICK ok \in BOOLEAN : Upsert(c, ok)
    BY <1>3
  <2>1. channel' \in [Tenants -> Channel \cup {NoRow}]
    BY DEF Upsert, ReleaseTypeOK
  <2>2. stage' \in [Callers -> Stages]
    BY DEF Upsert, GoOn, ReleaseTypeOK, Stages
  <2>3. troubles' \in 0..MaxTroubles
    BY StatementTyped DEF Upsert
  <2>4. UNCHANGED <<tree, package, memory, executions, read, edits, contended, asked, stirred>>
    BY DEF Upsert, GoOn
  <2>5. QED BY <2>1, <2>2, <2>3, <2>4 DEF ReleaseTypeOK
<1>4. CASE Remember(c)
  <2>1. memory' \in [Processes -> [Tenants -> Channel \cup {NoRow}]]
    BY <1>1, <1>4 DEF Remember, ReleaseTypeOK
  <2>2. /\ stage' \in [Callers -> Stages] /\ asked' \in [Callers -> ReleaseRequest]
        /\ read' \in [Callers -> Read]
        /\ stirred' \in [Callers -> BOOLEAN] /\ contended' \in [Callers -> BOOLEAN]
    BY <1>4, ReturnTyped DEF Remember
  <2>3. UNCHANGED <<tree, package, channel, executions, edits, troubles>>
    BY <1>4 DEF Remember
  <2>4. QED BY <2>1, <2>2, <2>3 DEF ReleaseTypeOK
<1>5. CASE \E ok \in BOOLEAN : Record(c, ok)
  <2> PICK ok \in BOOLEAN : Record(c, ok)
    BY <1>5
  <2>1. executions' \subseteq Tenants
    BY <1>1 DEF Record, ReleaseTypeOK
  <2>2. /\ stage' \in [Callers -> Stages] /\ asked' \in [Callers -> ReleaseRequest]
        /\ read' \in [Callers -> Read]
        /\ stirred' \in [Callers -> BOOLEAN] /\ contended' \in [Callers -> BOOLEAN]
    BY ReturnTyped DEF Record
  <2>3. troubles' \in 0..MaxTroubles
    BY StatementTyped DEF Record
  <2>4. UNCHANGED <<tree, package, channel, memory, edits>>
    BY DEF Record
  <2>5. QED BY <2>1, <2>2, <2>3, <2>4 DEF ReleaseTypeOK
<1>6. QED BY <1>3, <1>4, <1>5

(* A request that begins, reads the list, is delivered or is answered.     *)
LEMMA RequestsTyped ==
  ASSUME ReleaseAssumption, ReleaseTypeOK, NEW c \in Callers,
         \/ \E a \in Requests : Begin(c, a)
         \/ \E ok \in BOOLEAN : List(c, ok)
         \/ \E sent \in {"delivered", "failed", "prepared"} : Deliver(c, sent)
         \/ InsertRow(c) \/ EndPlan(c)
  PROVE  ReleaseTypeOK'
<1> USE CallerTyped
<1>1. Home[c] \in Processes /\ read[c] \in Read
  BY DEF ReleaseAssumption
<1>2. CASE \E a \in Requests : Begin(c, a)
  <2> PICK a \in Requests : Begin(c, a)
    BY <1>2
  <2>1. a \in ReleaseRequest
    BY DEF ReleaseAssumption
  <2>2. stage' \in [Callers -> Stages] /\ asked' \in [Callers -> ReleaseRequest]
    BY <2>1 DEF Begin, ReleaseTypeOK, Stages
  <2>3. QED BY <2>2 DEF Begin, ReleaseTypeOK, tables
<1>3. CASE \E ok \in BOOLEAN : List(c, ok)
  <2> PICK ok \in BOOLEAN : List(c, ok)
    BY <1>3
  <2>1. Stored(c, ok) \in Channel \cup {NoRow} /\ Remembered(c) \in Channel \cup {NoRow}
    <3>1. asked[c].tenant \in Tenants
      BY CallerTyped DEF ReleaseRequest
    <3>2. QED BY <1>1, <3>1 DEF Stored, Remembered, ReleaseTypeOK
  <2>2. Listed(c, ok) \in Channel
    BY <2>1, RecordsTyped DEF Listed
  <2>3. [read[c] EXCEPT !.channel = Listed(c, ok)] \in Read
    BY <1>1, <2>2 DEF Read
  <2>4. troubles' \in 0..MaxTroubles
    BY StatementTyped DEF List
  <2>5. QED BY <2>3, <2>4, LearnTyped DEF List, Stages
<1>4. CASE \E sent \in {"delivered", "failed", "prepared"} : Deliver(c, sent)
  <2> PICK sent \in {"delivered", "failed", "prepared"} : Deliver(c, sent)
    BY <1>4
  <2>1. Execution(c, sent) \in Outcomes
    BY DEF Execution, Outcomes
  <2>2. package[Path(c)] \in Package \cup {NoPackage}
    BY DEF ReleaseTypeOK
  <2>3. [read[c] EXCEPT !.outcome = Execution(c, sent), !.file = package[Path(c)]] \in Read
    BY <1>1, <2>1, <2>2 DEF Read
  <2>4. read' = [read EXCEPT ![c] = [read[c] EXCEPT !.outcome = Execution(c, sent),
                                                    !.file = package[Path(c)]]]
    BY DEF Deliver, ReleaseTypeOK
  <2>5. read' \in [Callers -> Read] /\ stage' \in [Callers -> Stages]
    BY <2>3, <2>4 DEF Deliver, GoOn, ReleaseTypeOK, Stages
  <2>6. QED BY <2>5 DEF Deliver, GoOn, ReleaseTypeOK, tables
<1>5. CASE InsertRow(c) \/ EndPlan(c)
  <2>1. /\ stage' \in [Callers -> Stages] /\ asked' \in [Callers -> ReleaseRequest]
        /\ read' \in [Callers -> Read]
        /\ stirred' \in [Callers -> BOOLEAN] /\ contended' \in [Callers -> BOOLEAN]
    BY <1>5, ReturnTyped DEF InsertRow, EndPlan
  <2>2. UNCHANGED <<tree, tables, edits, troubles>>
    BY <1>5 DEF InsertRow, EndPlan
  <2>3. QED BY <2>1, <2>2 DEF ReleaseTypeOK, tables
<1>6. QED BY <1>2, <1>3, <1>4, <1>5

(* The tree is edited, and a process restarts. *)
LEMMA WorldTyped ==
  ASSUME ReleaseAssumption, ReleaseTypeOK,
         (\E files \in Trees : Edit(files)) \/ (\E p \in Processes : Restart(p))
  PROVE  ReleaseTypeOK'
<1>1. CASE \E files \in Trees : Edit(files)
  <2> PICK files \in Trees : Edit(files)
    BY <1>1
  <2>1. tree' \in Trees /\ edits' \in 0..MaxEdits
    BY DEF Edit, ReleaseTypeOK, ReleaseAssumption
  <2>2. \A c \in Callers : (stirred[c] \/ stage[c] # "idle") \in BOOLEAN
    BY DEF ReleaseTypeOK
  <2>3. stirred' \in [Callers -> BOOLEAN]
    BY <2>2 DEF Edit
  <2>4. QED BY <2>1, <2>3 DEF Edit, ReleaseTypeOK, tables
<1>2. CASE \E p \in Processes : Restart(p)
  <2> PICK p \in Processes : Restart(p)
    BY <1>2
  <2>1. Nothing \in ReleaseRequest /\ Seeded \in Channel /\ Unread \in Read
    BY RecordsTyped DEF ReleaseAssumption
  <2>2. troubles' \in 0..MaxTroubles
    BY DEF Restart, ReleaseTypeOK, ReleaseAssumption
  <2>3. /\ memory' \in [Processes -> [Tenants -> Channel \cup {NoRow}]]
        /\ channel' \in [Tenants -> Channel \cup {NoRow}]
    BY <2>1 DEF Restart, ReleaseTypeOK
  <2>4. /\ stage' \in [Callers -> Stages] /\ asked' \in [Callers -> ReleaseRequest]
        /\ read' \in [Callers -> Read]
        /\ stirred' \in [Callers -> BOOLEAN] /\ contended' \in [Callers -> BOOLEAN]
    BY <2>1 DEF Restart, ReleaseTypeOK, Stages
  <2>5. UNCHANGED <<tree, package, executions, edits>>
    BY DEF Restart
  <2>6. QED BY <2>2, <2>3, <2>4, <2>5 DEF ReleaseTypeOK
<1>3. QED BY <1>1, <1>2

LEMMA ReleaseTyped ==
  ASSUME ReleaseAssumption, ReleaseTypeOK, [ReleaseNext]_releaseVars
  PROVE  ReleaseTypeOK'
<1>1. CASE ReleaseNext
  BY <1>1, PassesTyped, ZipTyped, WritersTyped, RequestsTyped, WorldTyped DEF ReleaseNext
<1>2. CASE UNCHANGED releaseVars
  BY <1>2 DEF releaseVars, tables, ReleaseTypeOK
<1>3. QED BY <1>1, <1>2

-----------------------------------------------------------------------------
(* What each step leaves of the argument. *)

(* A caller that the step does not touch. *)
LEMMA LeftAlone ==
  ASSUME NEW c \in Callers, Sound(c), UNCHANGED <<tree, package>>,
         stage'[c] = stage[c], asked'[c] = asked[c], read'[c] = read[c],
         stirred'[c] = stirred[c], contended'[c] = contended[c]
  PROVE  Sound(c)'
BY DEF Sound, Fresh, Valid, WrittenByIt, Delivered, PackageStatus, Path, Holds

(* A caller that has been answered, or never asked. *)
LEMMA IdleSound ==
  ASSUME NEW c \in Callers, stage'[c] = "idle", read'[c] = Unread
  PROVE  Sound(c)'
<1>1. ~read'[c].publishable
  BY DEF Unread
<1>2. Fresh(c)'
  BY <1>1 DEF Fresh
<1>3. Delivered(c)'
  BY DEF Delivered
<1>4. QED BY <1>1, <1>2, <1>3 DEF Sound

(* The steps that answer. *)
LEMMA AnsweredSound ==
  ASSUME ReleaseInv, NEW c \in Callers,
         \/ InsertRow(c) \/ EndPlan(c) \/ Remember(c) \/ AbandonZip(c)
         \/ \E ok \in BOOLEAN : Record(c, ok)
  PROVE  \A d \in Callers : Sound(d)'
<1>1. (\E from : Finish(c, from)) /\ UNCHANGED <<tree, package>>
  BY DEF InsertRow, EndPlan, Remember, Record, AbandonZip, tables
<1>2. stage'[c] = "idle" /\ read'[c] = Unread
  BY <1>1 DEF Finish, ReleaseInv, ReleaseTypeOK
<1>3. \A d \in Callers \ {c} :
        /\ stage'[d] = stage[d] /\ asked'[d] = asked[d] /\ read'[d] = read[d]
        /\ stirred'[d] = stirred[d] /\ contended'[d] = contended[d]
  BY <1>1 DEF Finish, ReleaseInv, ReleaseTypeOK
<1>4. TAKE d \in Callers
<1>5. CASE d = c
  BY <1>2, <1>5, IdleSound
<1>6. CASE d # c
  BY <1>1, <1>3, <1>6, LeftAlone DEF ReleaseInv
<1>7. QED BY <1>5, <1>6

(* The passes over the tree: what is read of a tree that nobody edited     *)
(* since holds for as long as nobody does.                                 *)
LEMMA PassesSound ==
  ASSUME ReleaseInv, NEW c \in Callers, Manifest(c) \/ Checksum(c) \/ PreManifest(c)
  PROVE  Sound(c)'
<1>1. /\ stage \in [Callers -> Stages] /\ asked \in [Callers -> ReleaseRequest]
      /\ read \in [Callers -> Read] /\ read[c] \in Read
      /\ Sound(c)
  BY DEF ReleaseInv, ReleaseTypeOK
<1>2. UNCHANGED <<tree, package, asked, stirred, contended>>
  BY DEF Manifest, Checksum, PreManifest, GoOn, Learn, tables
<1>3. CASE Manifest(c)
  <2>1. /\ stage'[c] \in {"zip", "checksum"} /\ (stage'[c] = "zip" => asked[c].op = "rollback")
        /\ read'[c] = [read[c] EXCEPT !.manifest = tree]
    BY <1>1, <1>3 DEF Manifest, GoOn, Learn
  <2>2. read'[c].publishable = read[c].publishable /\ read'[c].manifest = tree
    BY <1>1, <2>1 DEF Read
  <2>3. stirred[c] \/ Fresh(c)'
    BY <1>1, <1>2, <2>1, <2>2 DEF Sound, Fresh, Valid, Holds
  <2>4. QED BY <1>1, <1>2, <2>1, <2>2, <2>3 DEF Sound, Delivered
<1>4. CASE Checksum(c)
  <2>1. /\ stage[c] = "checksum" /\ stage'[c] = "premanifest"
        /\ read'[c] = [read[c] EXCEPT !.valid = Valid(read[c].manifest), !.manifest = {}]
    BY <1>1, <1>4 DEF Checksum, GoOn, Learn
  <2>2. read'[c].publishable = read[c].publishable /\ read'[c].valid = Valid(read[c].manifest)
    BY <1>1, <2>1 DEF Read
  <2>3. stirred[c] \/ Fresh(c)'
    BY <1>1, <1>2, <2>1, <2>2 DEF Sound, Fresh, Holds
  <2>4. QED BY <1>1, <1>2, <2>1, <2>2, <2>3 DEF Sound, Delivered
<1>5. CASE PreManifest(c)
  <2>1. /\ stage[c] = "premanifest" /\ stage'[c] = "precheck"
        /\ read'[c] = [read[c] EXCEPT !.manifest = tree]
    BY <1>1, <1>5 DEF PreManifest, GoOn, Learn
  <2>2. /\ read'[c].publishable = read[c].publishable /\ read'[c].valid = read[c].valid
        /\ read'[c].manifest = tree
    BY <1>1, <2>1 DEF Read
  <2>3. stirred[c] \/ Fresh(c)'
    BY <1>1, <1>2, <2>1, <2>2 DEF Sound, Fresh, Valid, Holds
  <2>4. QED BY <1>1, <1>2, <2>1, <2>2, <2>3 DEF Sound, Delivered
<1>6. QED BY <1>3, <1>4, <1>5

(* The preflight: what it finds of an unedited tree is whether the tree    *)
(* has all that is required.                                               *)
LEMMA PreCheckSound ==
  ASSUME ReleaseInv, NEW c \in Callers, PreCheck(c)
  PROVE  Sound(c)'
<1>1. /\ stage \in [Callers -> Stages] /\ asked \in [Callers -> ReleaseRequest]
      /\ read \in [Callers -> Read] /\ read[c] \in Read
      /\ Sound(c)
  BY DEF ReleaseInv, ReleaseTypeOK
<1>2. UNCHANGED <<tree, package, asked, stirred, contended>> /\ stage[c] = "precheck"
  BY DEF PreCheck, GoOn, Learn, tables
<1>3. stirred[c] \/ (Valid(read[c].manifest) /\ read[c].valid)
  BY <1>1, <1>2 DEF Sound, Fresh, Holds
<1>4. CASE Plans(c)
  <2>1. /\ stage'[c] \in {"manifest", "list"} /\ (stage'[c] = "list" => ~asked[c].bundle)
        /\ LET ready == Valid(read[c].manifest) /\ Required \subseteq tree
           IN read'[c] = [Unread EXCEPT !.publishable = ready /\ read[c].valid, !.planned = TRUE]
    BY <1>1, <1>4 DEF PreCheck, GoOn, Learn
  <2>2. read'[c].publishable => Required \subseteq tree
    BY <2>1 DEF Unread
  <2>3. asked[c].op \in {"plan", "execute"}
    BY <1>4 DEF Plans
  <2>4. Fresh(c)'
    BY <1>2, <2>1, <2>2 DEF Fresh, Holds
  <2>5. QED BY <1>1, <1>2, <2>1, <2>3, <2>4 DEF Sound, Delivered
<1>5. CASE ~Plans(c)
  <2>1. /\ stage'[c] = "zip"
        /\ LET ready == Valid(read[c].manifest) /\ Required \subseteq tree
           IN read'[c] = [read[c] EXCEPT !.ready = ready, !.manifest = {}]
    BY <1>1, <1>5 DEF PreCheck, GoOn, Learn
  <2>2. /\ read'[c].publishable = read[c].publishable /\ read'[c].valid = read[c].valid
        /\ read'[c].ready = (Valid(read[c].manifest) /\ Required \subseteq tree)
    BY <1>1, <2>1 DEF Read
  <2>3. stirred[c] \/ Fresh(c)'
    BY <1>1, <1>2, <1>3, <2>1, <2>2 DEF Sound, Fresh, Holds
  <2>4. QED BY <1>1, <1>2, <2>1, <2>2, <2>3 DEF Sound, Delivered
<1>6. QED BY <1>4, <1>5

(* Opening a file truncates it; whoever holds it is contended from then on.*)
LEMMA OpenSound ==
  ASSUME ReleaseAssumption, ReleaseInv, NEW c \in Callers, OpenZip(c)
  PROVE  \A d \in Callers : Sound(d)'
<1>1. /\ stage \in [Callers -> Stages] /\ package \in [Paths -> Package \cup {NoPackage}]
      /\ read \in [Callers -> Read] /\ read[c] \in Read
      /\ contended \in [Callers -> BOOLEAN]
      /\ \A d \in Callers : Sound(d)
  BY DEF ReleaseInv, ReleaseTypeOK
<1>2. UNCHANGED <<tree, asked, stirred>> /\ stage[c] = "zip"
  BY DEF OpenZip, GoOn
<1>3. \A p \in Paths : package'[p] = IF p = Path(c) THEN Torn ELSE package[p]
  BY <1>1, CallerTyped DEF OpenZip, ReleaseInv
<1>4. \A d \in Callers : stage'[d] = IF d = c THEN "write" ELSE stage[d]
  BY <1>1 DEF OpenZip, GoOn
<1>5. \A d \in Callers \ {c} :
        /\ contended'[d] = (contended[d] \/ (Holds(d) /\ Path(d) = Path(c)))
        /\ read'[d] = read[d]
  BY <1>1 DEF OpenZip, Crossed
<1>6. TAKE d \in Callers
<1>7. /\ Path(d) \in Paths /\ Path(d)' = Path(d)
      /\ PackageStatus(d)' = PackageStatus(d)
  <2>1. read'[d].ready = read[d].ready /\ read'[d].valid = read[d].valid
    BY <1>1, <1>5 DEF OpenZip
  <2>2. QED BY <1>2, <2>1, CallerTyped DEF ReleaseInv, Path, PackageStatus
<1>8. CASE d = c
  <2>1. stage'[c] = "write" /\ read'[c].publishable = read[c].publishable
        /\ read'[c].valid = read[c].valid /\ read'[c].ready = read[c].ready
        /\ (asked[c].op # "rollback" => read'[c].manifest = tree)
    BY <1>1, <1>4 DEF OpenZip, Read
  <2>2. stirred[c] \/ Fresh(c)'
    BY <1>1, <1>2, <2>1 DEF Sound, Fresh
  <2>3. QED BY <1>1, <1>2, <1>8, <2>1, <2>2 DEF Sound, Delivered
<1>9. CASE d # c
  <2>1. /\ stage'[d] = stage[d] /\ read'[d] = read[d] /\ Sound(d) /\ (Holds(d)' <=> Holds(d))
        /\ contended'[d] = (contended[d] \/ (Holds(d) /\ Path(d) = Path(c)))
    BY <1>1, <1>2, <1>4, <1>5, <1>9 DEF Holds
  <2>2. package'[Path(d)] = IF Path(d) = Path(c) THEN Torn ELSE package[Path(d)]
    BY <1>3, <1>7
  <2>3. stirred[d] \/ Fresh(d)'
    BY <1>2, <1>7, <2>1, <2>2 DEF Sound, Fresh, Valid
  <2>4. stage[d] = "hash" => contended'[d] \/ WrittenByIt(d)'
    BY <1>7, <2>1, <2>2 DEF Sound, WrittenByIt, Holds
  <2>5. Delivered(d)'
    BY <1>2, <2>1 DEF Sound, Delivered
  <2>6. QED BY <1>2, <1>7, <2>1, <2>3, <2>4, <2>5 DEF Sound
<1>10. QED BY <1>8, <1>9

(* Whoever tears a file that others hold finds them contended.             *)
LEMMA AppendSound ==
  ASSUME ReleaseAssumption, ReleaseInv, NEW c \in Callers, Append(c)
  PROVE  \A d \in Callers : Sound(d)'
<1>1. /\ package \in [Paths -> Package \cup {NoPackage}]
      /\ \A d \in Callers : Sound(d) /\ Apart(d)
  BY DEF ReleaseInv, ReleaseTypeOK
<1>2. UNCHANGED <<tree, stage, asked, read, stirred, contended>> /\ stage[c] = "write"
  BY DEF Append
<1>3. \A p \in Paths : package'[p] = IF p = Path(c) THEN Torn ELSE package[p]
  BY <1>1, CallerTyped DEF Append, ReleaseInv
<1>4. TAKE d \in Callers
<1>5. /\ Path(d) \in Paths /\ Path(d)' = Path(d)
      /\ PackageStatus(d)' = PackageStatus(d) /\ (Holds(d)' <=> Holds(d))
  BY <1>2, CallerTyped DEF ReleaseInv, Path, PackageStatus, Holds
<1>6. CASE Holds(d) /\ stage[d] # "write" /\ Path(d) = Path(c)
  <2>1. contended[d]
    BY <1>1, <1>2, <1>6 DEF Apart
  <2>2. package'[Path(d)] = Torn
    BY <1>3, <1>5, <1>6
  <2>3. stirred[d] \/ Fresh(d)'
    BY <1>1, <1>2, <1>5, <2>1, <2>2 DEF Sound, Fresh, Valid
  <2>4. Delivered(d)'
    BY <1>1, <1>2 DEF Sound, Delivered
  <2>5. QED BY <1>1, <1>2, <1>5, <2>1, <2>3, <2>4 DEF Sound
<1>7. CASE Path(d) # Path(c)
  <2>1. package'[Path(d)] = package[Path(d)]
    BY <1>3, <1>5, <1>7
  <2>2. stirred[d] \/ Fresh(d)'
    BY <1>1, <1>2, <1>5, <2>1 DEF Sound, Fresh, Valid
  <2>3. Delivered(d)'
    BY <1>1, <1>2 DEF Sound, Delivered
  <2>4. QED BY <1>1, <1>2, <1>5, <2>1, <2>2, <2>3 DEF Sound, WrittenByIt
<1>8. CASE ~(Holds(d) /\ stage[d] # "write")
  <2>1. stage[d] # "hash"
    BY <1>8 DEF Holds
  <2>2. stirred[d] \/ Fresh(d)'
    BY <1>1, <1>2, <1>5, <1>8 DEF Sound, Fresh, Valid
  <2>3. Delivered(d)'
    BY <1>1, <1>2 DEF Sound, Delivered
  <2>4. QED BY <1>1, <1>2, <1>5, <2>1, <2>2, <2>3 DEF Sound
<1>9. QED BY <1>6, <1>7, <1>8

(* Whoever writes a publication of an unedited tree that is complete finds *)
(* it ready: what is written may be delivered.                             *)
LEMMA PackedDeliverable ==
  ASSUME ReleaseAssumption, ReleaseInv, NEW c \in Callers, NEW held \in Packing(c),
         stage[c] = "write", asked[c].op # "rollback", Required \subseteq tree
  PROVE  Deliverable(Packed(c, held))
<1>1. Packed(c, held) # NoPackage
  BY PackedTyped DEF ReleaseInv, Packing
<1>2. CASE stirred[c]
  BY <1>1, <1>2 DEF Packed, Deliverable
<1>3. CASE ~stirred[c]
  <2>1. read[c].ready /\ read[c].valid /\ read[c].manifest = tree
    BY <1>3 DEF ReleaseInv, Sound, Fresh
  <2>2. PackageStatus(c) = "published" /\ held = tree
    BY <2>1 DEF PackageStatus, Packing
  <2>3. QED BY <1>1, <2>2 DEF Packed, Deliverable, Complete
<1>4. QED BY <1>2, <1>3

(* The closed ZIP: its writer knows its status until somebody writes it    *)
(* again; for the others it is as good as their own, or they are contended.*)
LEMMA CloseSound ==
  ASSUME ReleaseAssumption, ReleaseInv, NEW c \in Callers, NEW whole \in BOOLEAN,
         NEW held \in Trees, CloseZip(c, whole, held)
  PROVE  \A d \in Callers : Sound(d)'
<1>1. /\ stage \in [Callers -> Stages] /\ package \in [Paths -> Package \cup {NoPackage}]
      /\ read \in [Callers -> Read] /\ read[c] \in Read
      /\ \A d \in Callers : Sound(d) /\ Apart(d)
  BY DEF ReleaseInv, ReleaseTypeOK
<1>2. /\ UNCHANGED <<tree, asked, stirred, contended>> /\ stage[c] = "write"
      /\ held \in Packing(c) /\ (whole \/ contended[c])
  BY DEF CloseZip, GoOn
<1>3. \A p \in Paths :
        package'[p] = IF p # Path(c) THEN package[p] ELSE IF whole THEN Packed(c, held) ELSE Torn
  BY <1>1, CallerTyped DEF CloseZip, ReleaseInv
<1>4. \A d \in Callers : stage'[d] = IF d = c THEN "hash" ELSE stage[d]
  BY <1>1 DEF CloseZip, GoOn
<1>5. TAKE d \in Callers
<1>6. /\ read'[d].publishable = read[d].publishable /\ read'[d].ready = read[d].ready
      /\ read'[d].valid = read[d].valid /\ read'[d].file = read[d].file
      /\ (d # c => read'[d] = read[d])
  BY <1>1 DEF CloseZip, Read
<1>7. /\ Path(d) \in Paths /\ Path(d)' = Path(d) /\ PackageStatus(d)' = PackageStatus(d)
  BY <1>2, <1>6, CallerTyped DEF ReleaseInv, Path, PackageStatus
<1>8. ASSUME read[d].publishable, ~stirred[d], d = c \/ (Holds(d) /\ stage[d] # "write")
      PROVE  \/ Deliverable(package'[Path(d)])
             \/ package'[Path(d)] = Torn /\ contended[d]
  <2>1. Required \subseteq tree /\ asked[d].op # "rollback"
    BY <1>1, <1>8 DEF Sound, Fresh
  <2>2. CASE Path(c) = Path(d) /\ whole
    <3>1. asked[c].op # "rollback"
      BY <2>1, <2>2 DEF Path
    <3>2. QED BY <1>2, <1>3, <1>7, <2>1, <2>2, <3>1, PackedDeliverable
  <2>3. CASE Path(c) = Path(d) /\ ~whole
    <3>1. contended[d]
      BY <1>1, <1>2, <1>8, <2>3 DEF Apart
    <3>2. QED BY <1>3, <1>7, <2>3, <3>1
  <2>4. CASE Path(c) # Path(d)
    <3>1. package'[Path(d)] = package[Path(d)] /\ d # c
      BY <1>3, <1>7, <2>4
    <3>2. QED BY <1>1, <1>8, <3>1 DEF Sound, Fresh
  <2>5. QED BY <2>2, <2>3, <2>4
<1>9. stage'[d] = "hash" => contended[d] \/ WrittenByIt(d)'
  <2>1. SUFFICES ASSUME stage'[d] = "hash", ~contended[d] PROVE WrittenByIt(d)'
    OBVIOUS
  <2>2. CASE d = c
    <3>1. package'[Path(c)] = Packed(c, held) /\ Packed(c, held) # NoPackage
      BY <1>2, <1>3, <1>7, <2>1, <2>2, PackedTyped DEF ReleaseInv
    <3>2. QED BY <1>7, <2>2, <3>1 DEF WrittenByIt, Packed
  <2>3. CASE d # c
    <3>1. stage[d] = "hash" /\ Path(d) # Path(c)
      BY <1>1, <1>2, <1>4, <2>1, <2>3 DEF Apart, Holds
    <3>2. WrittenByIt(d) /\ package'[Path(d)] = package[Path(d)]
      BY <1>1, <1>3, <1>7, <2>1, <3>1 DEF Sound
    <3>3. QED BY <1>7, <3>2 DEF WrittenByIt
  <2>4. QED BY <2>2, <2>3
<1>10. CASE d = c
  <2>1. stirred[c] \/ Fresh(c)'
    BY <1>1, <1>2, <1>4, <1>6, <1>7, <1>8, <1>10 DEF Sound, Fresh
  <2>2. QED BY <1>1, <1>2, <1>4, <1>6, <1>9, <1>10, <2>1 DEF Sound, Delivered
<1>11. CASE d # c
  <2>1. stage'[d] = stage[d] /\ read'[d] = read[d] /\ Sound(d) /\ (Holds(d)' <=> Holds(d))
    BY <1>1, <1>2, <1>4, <1>6, <1>11 DEF Holds
  <2>2. stirred[d] \/ Fresh(d)'
    BY <1>2, <1>7, <1>8, <2>1 DEF Sound, Fresh, Valid
  <2>3. Delivered(d)'
    BY <1>2, <2>1 DEF Sound, Delivered
  <2>4. QED BY <1>2, <1>7, <1>9, <2>1, <2>2, <2>3 DEF Sound
<1>12. QED BY <1>10, <1>11

(* The checksum is of the file that is there by now, which is the          *)
(* caller's own unless somebody wrote it since.                            *)
LEMMA HashSound ==
  ASSUME ReleaseInv, NEW c \in Callers, Hash(c)
  PROVE  Sound(c)'
<1>1. /\ stage \in [Callers -> Stages] /\ read \in [Callers -> Read] /\ read[c] \in Read
      /\ Sound(c)
  BY DEF ReleaseInv, ReleaseTypeOK
<1>2. UNCHANGED <<tree, package, asked, stirred, contended>> /\ stage[c] = "hash"
  BY DEF Hash, GoOn, Learn, tables
<1>3. CASE asked[c].op \in {"publish", "rollback"}
  <2>1. stage'[c] = "row" /\ read'[c] = [read[c] EXCEPT !.file = package[Path(c)]]
    BY <1>1, <1>3 DEF Hash, GoOn, Learn
  <2>2. /\ read'[c].publishable = read[c].publishable /\ read'[c].file = package[Path(c)]
        /\ read'[c].ready = read[c].ready /\ read'[c].valid = read[c].valid
    BY <1>1, <2>1 DEF Read
  <2>3. ~read[c].publishable
    BY <1>1, <1>3 DEF Sound
  <2>4. Fresh(c)'
    BY <2>1, <2>2, <2>3 DEF Fresh, Holds
  <2>5. contended[c] \/ WrittenByIt(c)
    BY <1>1, <1>2 DEF Sound
  <2>6. PackageStatus(c)' = PackageStatus(c)
    BY <1>2, <2>2 DEF PackageStatus
  <2>7. QED BY <1>2, <2>1, <2>2, <2>3, <2>4, <2>5, <2>6 DEF Sound, WrittenByIt, Delivered
<1>4. CASE asked[c].op \in {"plan", "execute"}
  <2>1. stage'[c] = "list" /\ read'[c] = [Unread EXCEPT !.publishable = read[c].publishable]
    BY <1>1, <1>4 DEF Hash, GoOn, Learn
  <2>2. read'[c].publishable = read[c].publishable
    BY <2>1 DEF Unread
  <2>3. stirred[c] \/ Fresh(c)'
    BY <1>1, <1>2, <2>1, <2>2 DEF Sound, Fresh, Holds, Path
  <2>4. QED BY <1>2, <1>4, <2>1, <2>2, <2>3 DEF Sound, Delivered
<1>5. QED BY <1>3, <1>4 DEF Hash

(* A request that begins, reads the list of channels, or writes its own.   *)
LEMMA RequestsSound ==
  ASSUME ReleaseInv, NEW c \in Callers,
         \/ \E a \in Requests : Begin(c, a)
         \/ \E ok \in BOOLEAN : List(c, ok) \/ Upsert(c, ok)
  PROVE  Sound(c)'
<1>1. /\ stage \in [Callers -> Stages] /\ asked \in [Callers -> ReleaseRequest]
      /\ read \in [Callers -> Read] /\ read[c] \in Read
      /\ Sound(c)
  BY DEF ReleaseInv, ReleaseTypeOK
<1>2. CASE \E a \in Requests : Begin(c, a)
  <2>1. /\ stage[c] = "idle" /\ stage'[c] \in {"upsert", "manifest"}
        /\ UNCHANGED <<tree, package, read, stirred, contended>>
    BY <1>1, <1>2 DEF Begin, tables
  <2>2. read[c] = Unread
    BY <1>1, <2>1 DEF Sound
  <2>3. ~read[c].publishable
    BY <2>2 DEF Unread
  <2>4. Fresh(c)'
    BY <2>1, <2>3 DEF Fresh, Holds
  <2>5. QED BY <2>1, <2>3, <2>4 DEF Sound, Delivered
<1>3. CASE \E ok \in BOOLEAN : List(c, ok)
  <2> PICK ok \in BOOLEAN : List(c, ok)
    BY <1>3
  <2>1. /\ stage[c] = "list" /\ stage'[c] = "deliver"
        /\ read'[c] = [read[c] EXCEPT !.channel = Listed(c, ok)]
        /\ UNCHANGED <<tree, package, asked, stirred, contended>>
    BY <1>1 DEF List, GoOn, Learn, tables
  <2>2. read'[c].publishable = read[c].publishable
    BY <1>1, <2>1 DEF Read
  <2>3. stirred[c] \/ Fresh(c)'
    BY <1>1, <2>1, <2>2 DEF Sound, Fresh, Holds, Path
  <2>4. QED BY <1>1, <2>1, <2>2, <2>3 DEF Sound, Delivered
<1>4. CASE \E ok \in BOOLEAN : Upsert(c, ok)
  <2>1. /\ stage[c] = "upsert" /\ stage'[c] = "remember"
        /\ UNCHANGED <<tree, package, read, asked, stirred, contended>>
    BY <1>1, <1>4 DEF Upsert, GoOn
  <2>2. stirred[c] \/ Fresh(c)'
    BY <1>1, <2>1 DEF Sound, Fresh, Holds, Path
  <2>3. QED BY <1>1, <2>1, <2>2 DEF Sound, Delivered
<1>5. QED BY <1>2, <1>3, <1>4

(* What a file_drop delivers was publishable when it was planned, and is   *)
(* the file that is at the path by now.                                    *)
LEMMA DeliverSound ==
  ASSUME ReleaseInv, NEW c \in Callers, NEW sent \in {"delivered", "failed", "prepared"},
         Deliver(c, sent)
  PROVE  Sound(c)'
<1>1. /\ stage \in [Callers -> Stages] /\ read \in [Callers -> Read] /\ read[c] \in Read
      /\ Sound(c)
  BY DEF ReleaseInv, ReleaseTypeOK
<1>2. /\ UNCHANGED <<tree, package, asked, stirred, contended>>
      /\ stage[c] = "deliver" /\ stage'[c] = "record" /\ asked[c].op = "execute"
  BY <1>1 DEF Deliver, GoOn, tables
<1>3. /\ read'[c].outcome = Execution(c, sent) /\ read'[c].file = package[Path(c)]
      /\ read'[c].channel = read[c].channel /\ read'[c].publishable = read[c].publishable
  BY <1>1 DEF Deliver, Read
<1>4. ASSUME ~stirred[c], read'[c].outcome = "delivered", read[c].channel.kind = "file_drop"
      PROVE  \/ read'[c].file.dirty
             \/ read'[c].file = Torn /\ contended[c]
             \/ Complete(read'[c].file)
  <2>1. read[c].publishable /\ asked[c].bundle
    BY <1>3, <1>4 DEF Execution, Ready
  <2>2. Deliverable(package[Path(c)]) \/ (package[Path(c)] = Torn /\ contended[c])
    BY <1>1, <1>2, <1>4, <2>1 DEF Sound, Fresh, Holds
  <2>3. QED BY <1>3, <2>2 DEF Deliverable
<1>5. stirred[c] \/ Fresh(c)'
  BY <1>1, <1>2, <1>3 DEF Sound, Fresh, Holds, Path
<1>6. QED BY <1>1, <1>2, <1>3, <1>4, <1>5 DEF Sound, Delivered

(* An edit stirs whoever is reading. *)
LEMMA EditSound ==
  ASSUME ReleaseInv, NEW files \in Trees, Edit(files)
  PROVE  \A c \in Callers : Sound(c)'
<1> TAKE c \in Callers
<1>1. Sound(c) /\ stirred \in [Callers -> BOOLEAN]
  BY DEF ReleaseInv, ReleaseTypeOK
<1>2. /\ UNCHANGED <<package, stage, asked, read, contended>>
      /\ stirred'[c] = (stirred[c] \/ stage[c] # "idle")
  BY DEF Edit, tables
<1>3. CASE stage[c] = "idle"
  BY <1>1, <1>2, <1>3, IdleSound DEF Sound
<1>4. CASE stage[c] # "idle"
  BY <1>1, <1>2, <1>4 DEF Sound, WrittenByIt, Delivered, PackageStatus, Path
<1>5. QED BY <1>3, <1>4

(* A restart ends the requests of its process. *)
LEMMA RestartSound ==
  ASSUME ReleaseInv, NEW p \in Processes, Restart(p)
  PROVE  \A c \in Callers : Sound(c)'
<1> TAKE c \in Callers
<1>1. CASE Home[c] = p
  <2>1. stage'[c] = "idle" /\ read'[c] = Unread
    BY <1>1 DEF Restart
  <2>2. QED BY <2>1, IdleSound
<1>2. CASE Home[c] # p
  <2>1. /\ stage'[c] = stage[c] /\ asked'[c] = asked[c] /\ read'[c] = read[c]
        /\ stirred'[c] = stirred[c] /\ contended'[c] = contended[c]
        /\ UNCHANGED <<tree, package>>
    BY <1>2 DEF Restart
  <2>2. QED BY <2>1, LeftAlone DEF ReleaseInv
<1>3. QED BY <1>1, <1>2

(* A step of one caller that writes neither the tree nor a file. *)
LEMMA OthersLeftAlone ==
  ASSUME ReleaseInv, NEW c \in Callers,
         \/ \E a \in Requests : Begin(c, a)
         \/ Manifest(c) \/ Checksum(c) \/ PreManifest(c) \/ PreCheck(c) \/ Hash(c)
         \/ \E ok \in BOOLEAN : List(c, ok) \/ Upsert(c, ok)
         \/ \E sent \in {"delivered", "failed", "prepared"} : Deliver(c, sent)
  PROVE  \A d \in Callers \ {c} : Sound(d)'
<1>1. /\ stage \in [Callers -> Stages] /\ asked \in [Callers -> ReleaseRequest]
      /\ read \in [Callers -> Read]
  BY DEF ReleaseInv, ReleaseTypeOK
<1>2. UNCHANGED <<tree, package, stirred, contended>>
  BY DEF Begin, Manifest, Checksum, PreManifest, PreCheck, Hash, List, Upsert, Deliver,
         GoOn, Learn, tables
<1>3. TAKE d \in Callers \ {c}
<1>4. stage'[d] = stage[d] /\ asked'[d] = asked[d] /\ read'[d] = read[d]
  <2>1. CASE \E a \in Requests : Begin(c, a)
    BY <1>1, <2>1 DEF Begin
  <2>2. CASE Manifest(c) \/ Checksum(c) \/ PreManifest(c)
    BY <1>1, <2>2 DEF Manifest, Checksum, PreManifest, GoOn, Learn
  <2>3. CASE PreCheck(c) \/ Hash(c)
    BY <1>1, <2>3 DEF PreCheck, Hash, GoOn, Learn
  <2>4. CASE \E ok \in BOOLEAN : List(c, ok) \/ Upsert(c, ok)
    BY <1>1, <2>4 DEF List, Upsert, GoOn, Learn
  <2>5. CASE \E sent \in {"delivered", "failed", "prepared"} : Deliver(c, sent)
    BY <1>1, <2>5 DEF Deliver, GoOn
  <2>6. QED BY <2>1, <2>2, <2>3, <2>4, <2>5
<1>5. QED BY <1>2, <1>4, LeftAlone DEF ReleaseInv

(* A step after which nobody writes who did not before, nobody holds a     *)
(* file who did not, and who holds one is no less contended.               *)
LEMMA ApartKept ==
  ASSUME \A c \in Callers : Apart(c),
         \A c \in Callers : Holds(c)' =>
           /\ Holds(c) /\ Path(c)' = Path(c) /\ (contended[c] => contended'[c])
           /\ stage'[c] = "write" => stage[c] = "write"
  PROVE  \A c \in Callers : Apart(c)'
<1>1. \A c \in Callers : stage'[c] = "write" => Holds(c)'
  BY DEF Holds
<1>2. SUFFICES ASSUME NEW c \in Callers, NEW d \in Callers \ {c},
                      Holds(c)', stage'[d] = "write", Path(d)' = Path(c)'
               PROVE  contended'[c]
  BY DEF Apart
<1>3. Holds(c) /\ stage[d] = "write" /\ Path(d) = Path(c)
  BY <1>1, <1>2
<1>4. contended[c]
  BY <1>3 DEF Apart
<1>5. QED BY <1>2, <1>4

(* The caller of the step may go on holding what it holds, and the others  *)
(* are left alone.                                                         *)
LEMMA ApartByOne ==
  ASSUME \A c \in Callers : Apart(c), NEW c \in Callers,
         \A d \in Callers \ {c} : /\ stage'[d] = stage[d] /\ asked'[d] = asked[d]
                                  /\ contended'[d] = contended[d],
         \/ ~Holds(c)'
         \/ /\ Holds(c) /\ asked'[c] = asked[c] /\ contended'[c] = contended[c]
            /\ stage'[c] # "write"
  PROVE  \A d \in Callers : Apart(d)'
<1>1. \A d \in Callers \ {c} : Holds(d)' =>
        /\ Holds(d) /\ Path(d)' = Path(d) /\ contended'[d] = contended[d] /\ stage'[d] = stage[d]
  BY DEF Holds, Path
<1>2. Holds(c)' => /\ Holds(c) /\ Path(c)' = Path(c) /\ contended'[c] = contended[c]
                   /\ stage'[c] # "write"
  BY DEF Path
<1>3. QED BY <1>1, <1>2, ApartKept

(* Opening a file contends whoever holds it, and the caller itself when    *)
(* somebody is writing it.                                                 *)
LEMMA ApartByOpen ==
  ASSUME ReleaseInv, NEW c \in Callers, OpenZip(c)
  PROVE  \A d \in Callers : Apart(d)'
<1>1. stage \in [Callers -> Stages] /\ UNCHANGED asked
  BY DEF ReleaseInv, ReleaseTypeOK, OpenZip, GoOn
<1>2. \A d \in Callers : stage'[d] = (IF d = c THEN "write" ELSE stage[d]) /\ Path(d)' = Path(d)
  BY <1>1 DEF OpenZip, GoOn, Path
<1>3. \A d \in Callers \ {c} : Holds(d)' <=> Holds(d)
  BY <1>1, <1>2 DEF Holds
<1>4. /\ \A d \in Callers \ {c} : contended'[d] = (contended[d] \/ (Holds(d) /\ Path(d) = Path(c)))
      /\ (\E e \in Callers \ {c} : stage[e] = "write" /\ Path(e) = Path(c)) => contended'[c]
  BY DEF OpenZip, Crossed
<1>5. SUFFICES ASSUME NEW d \in Callers, NEW e \in Callers \ {d},
                      Holds(d)', stage'[e] = "write", Path(e)' = Path(d)'
               PROVE  contended'[d]
  BY DEF Apart
<1>6. CASE d = c
  BY <1>2, <1>4, <1>5, <1>6
<1>7. CASE d # c /\ e = c
  BY <1>2, <1>3, <1>4, <1>5, <1>7
<1>8. CASE d # c /\ e # c
  <2>1. Holds(d) /\ stage[e] = "write" /\ Path(e) = Path(d)
    BY <1>2, <1>3, <1>5, <1>8
  <2>2. contended[d]
    BY <2>1 DEF ReleaseInv, Apart
  <2>3. QED BY <1>4, <1>8, <2>2
<1>9. QED BY <1>6, <1>7, <1>8

(* The other steps of a caller.                                            *)
LEMMA ApartByCaller ==
  ASSUME ReleaseInv, NEW c \in Callers,
         \/ \E a \in Requests : Begin(c, a)
         \/ Manifest(c) \/ Checksum(c) \/ PreManifest(c) \/ PreCheck(c)
         \/ AbandonZip(c) \/ \E whole \in BOOLEAN, held \in Trees : CloseZip(c, whole, held)
         \/ Hash(c) \/ InsertRow(c) \/ EndPlan(c) \/ Remember(c)
         \/ \E ok \in BOOLEAN : List(c, ok) \/ Record(c, ok) \/ Upsert(c, ok)
         \/ \E sent \in {"delivered", "failed", "prepared"} : Deliver(c, sent)
  PROVE  \A d \in Callers : Apart(d)'
<1>1. /\ stage \in [Callers -> Stages] /\ asked \in [Callers -> ReleaseRequest]
      /\ contended \in [Callers -> BOOLEAN] /\ \A d \in Callers : Apart(d)
  BY DEF ReleaseInv, ReleaseTypeOK
<1> DEFINE Alone == \A d \in Callers \ {c} : /\ stage'[d] = stage[d] /\ asked'[d] = asked[d]
                                             /\ contended'[d] = contended[d]
           HoldsOn == /\ Holds(c) /\ asked'[c] = asked[c] /\ contended'[c] = contended[c]
                      /\ stage'[c] # "write"
<1>2. CASE \E from : Finish(c, from)
  <2>1. Alone /\ stage'[c] = "idle"
    BY <1>1, <1>2 DEF Finish
  <2>2. Alone /\ ~Holds(c)'
    BY <2>1 DEF Holds
  <2> HIDE DEF Alone, HoldsOn
  <2>3. QED BY <1>1, <2>2, ApartByOne DEF Alone
<1>3. CASE \E a \in Requests : Begin(c, a)
  <2>1. Alone /\ stage'[c] \in {"upsert", "manifest"}
    BY <1>1, <1>3 DEF Begin
  <2>2. Alone /\ ~Holds(c)'
    BY <2>1 DEF Holds
  <2>3. QED BY <1>1, <2>2, ApartByOne
<1>4. ASSUME NEW from, NEW to, GoOn(c, from, to), UNCHANGED contended,
             to # "write",
             \/ to \notin {"hash", "list", "deliver"}
             \/ from \in {"write", "hash"}
             \/ from = "list" /\ to = "deliver"
             \/ to = "list" /\ ~asked[c].bundle
      PROVE  \A d \in Callers : Apart(d)'
  <2>1. Alone /\ stage[c] = from /\ stage'[c] = to /\ asked' = asked /\ contended' = contended
    BY <1>1, <1>4 DEF GoOn
  <2>2. CASE from \in {"write", "hash"}
    <3>1. HoldsOn
      BY <1>4, <2>1, <2>2 DEF Holds
    <3>2. QED BY <1>1, <2>1, <3>1, ApartByOne
  <2>3. CASE from = "list" /\ to = "deliver"
    <3>1. ~Holds(c)' \/ HoldsOn
      BY <1>4, <2>1, <2>3 DEF Holds
    <3>2. QED BY <1>1, <2>1, <3>1, ApartByOne
  <2>4. CASE to \notin {"hash", "list", "deliver"} \/ (to = "list" /\ ~asked[c].bundle)
    <3>1. ~Holds(c)'
      BY <1>4, <2>1, <2>4 DEF Holds
    <3>2. QED BY <1>1, <2>1, <3>1, ApartByOne
  <2>5. QED BY <1>4, <2>2, <2>3, <2>4
<1>5. CASE Manifest(c) \/ Checksum(c) \/ PreManifest(c)
  <2>1. \E from, to \in Stages : GoOn(c, from, to) /\ UNCHANGED contended
                         /\ to \in {"zip", "checksum", "premanifest", "precheck"}
    BY <1>5 DEF Manifest, Checksum, PreManifest, Learn, Stages
  <2>2. QED BY <1>4, <2>1
<1>6. CASE PreCheck(c)
  <2>1. \E from, to \in Stages : GoOn(c, from, to) /\ UNCHANGED contended
                         /\ (to \in {"zip", "manifest"} \/ (to = "list" /\ ~asked[c].bundle))
    BY <1>6 DEF PreCheck, Learn, Stages
  <2>2. QED BY <1>4, <2>1
<1>7. CASE Hash(c) \/ \E whole \in BOOLEAN, held \in Trees : CloseZip(c, whole, held)
  <2>1. \E from, to \in Stages : GoOn(c, from, to) /\ UNCHANGED contended
                         /\ to # "write" /\ from \in {"write", "hash"}
    BY <1>7 DEF Hash, CloseZip, Learn, Stages
  <2>2. QED BY <1>4, <2>1
<1>8. CASE \E ok \in BOOLEAN : List(c, ok)
  <2>1. GoOn(c, "list", "deliver") /\ UNCHANGED contended
    BY <1>8 DEF List, Learn
  <2>2. QED BY <1>4, <2>1
<1>9. CASE \E sent \in {"delivered", "failed", "prepared"} : Deliver(c, sent)
  <2>1. GoOn(c, "deliver", "record") /\ UNCHANGED contended
    BY <1>9 DEF Deliver
  <2>2. QED BY <1>4, <2>1
<1>10. CASE \E ok \in BOOLEAN : Upsert(c, ok)
  <2>1. GoOn(c, "upsert", "remember") /\ UNCHANGED contended
    BY <1>10 DEF Upsert
  <2>2. QED BY <1>4, <2>1
<1>11. CASE AbandonZip(c) \/ InsertRow(c) \/ EndPlan(c) \/ Remember(c) \/ \E ok \in BOOLEAN : Record(c, ok)
  <2>1. \E from : Finish(c, from)
    BY <1>11 DEF AbandonZip, InsertRow, EndPlan, Remember, Record
  <2>2. QED BY <1>2, <2>1
<1>12. QED BY <1>3, <1>5, <1>6, <1>7, <1>8, <1>9, <1>10, <1>11

LEMMA ApartNext ==
  ASSUME ReleaseInv, [ReleaseNext]_releaseVars
  PROVE  \A c \in Callers : Apart(c)'
<1>1. \A c \in Callers : Apart(c)
  BY DEF ReleaseInv
<1>2. CASE UNCHANGED releaseVars \/ (\E files \in Trees : Edit(files)) \/ \E c \in Callers : Append(c)
  <2>1. UNCHANGED <<stage, asked, contended>>
    BY <1>2 DEF releaseVars, Edit, Append
  <2>2. QED BY <1>1, <2>1, ApartKept DEF Holds, Path
<1>3. CASE \E p \in Processes : Restart(p)
  <2> PICK p \in Processes : Restart(p)
    BY <1>3
  <2>1. \A c \in Callers :
          \/ stage'[c] = "idle"
          \/ stage'[c] = stage[c] /\ asked'[c] = asked[c] /\ contended'[c] = contended[c]
    BY DEF Restart
  <2>2. \A c \in Callers : Holds(c)' =>
          /\ Holds(c) /\ Path(c)' = Path(c) /\ (contended[c] => contended'[c])
          /\ stage'[c] = "write" => stage[c] = "write"
    BY <2>1 DEF Holds, Path
  <2>3. QED BY <1>1, <2>2, ApartKept
<1>4. CASE ReleaseNext
  BY <1>2, <1>3, <1>4, ApartByOpen, ApartByCaller DEF ReleaseNext
<1>5. QED BY <1>2, <1>4

LEMMA ReleaseStep ==
  ASSUME ReleaseAssumption, ReleaseInv, [ReleaseNext]_releaseVars
  PROVE  ReleaseInv'
<1>1. ReleaseTypeOK'
  BY ReleaseTyped DEF ReleaseInv
<1>2. \A c \in Callers : Sound(c)'
  <2>1. ASSUME NEW c \in Callers,
               \/ \E a \in Requests : Begin(c, a)
               \/ Manifest(c) \/ Checksum(c) \/ PreManifest(c) \/ PreCheck(c) \/ Hash(c)
               \/ \E ok \in BOOLEAN : List(c, ok) \/ Upsert(c, ok)
               \/ \E sent \in {"delivered", "failed", "prepared"} : Deliver(c, sent)
        PROVE  \A d \in Callers : Sound(d)'
    <3>1. Sound(c)'
      BY <2>1, PassesSound, PreCheckSound, HashSound, RequestsSound, DeliverSound
    <3>2. \A d \in Callers \ {c} : Sound(d)'
      BY <2>1, OthersLeftAlone
    <3>3. QED BY <3>1, <3>2
  <2>2. ASSUME NEW c \in Callers,
               \/ InsertRow(c) \/ EndPlan(c) \/ Remember(c) \/ AbandonZip(c)
               \/ \E ok \in BOOLEAN : Record(c, ok)
        PROVE  \A d \in Callers : Sound(d)'
    BY <2>2, AnsweredSound
  <2>3. CASE UNCHANGED releaseVars
    BY <2>3, LeftAlone DEF ReleaseInv, releaseVars, tables
  <2>4. CASE ReleaseNext
    BY <2>1, <2>2, <2>4, OpenSound, AppendSound, CloseSound, EditSound, RestartSound
       DEF ReleaseNext
  <2>5. QED BY <2>3, <2>4
<1>3. QED BY <1>1, <1>2, ApartNext DEF ReleaseInv

LEMMA ReleaseStart == ReleaseAssumption /\ ReleaseInit => ReleaseInv
<1> SUFFICES ASSUME ReleaseAssumption, ReleaseInit PROVE ReleaseInv
  OBVIOUS
<1>1. \A c \in Callers : Sound(c)
  <2> TAKE c \in Callers
  <2>1. stage[c] = "idle" /\ read[c] = Unread /\ ~read[c].publishable
    BY DEF ReleaseInit, Unread
  <2>2. QED BY <2>1 DEF Sound, Fresh, Delivered
<1>2. \A c \in Callers : Apart(c)
  BY DEF ReleaseInit, Apart
<1>3. QED BY <1>1, <1>2, InitTypeOK DEF ReleaseInv

(* What a request has read of the tree, and the file that it may deliver,  *)
(* are sound at every moment, and whoever holds a file that another one    *)
(* is writing is known to be contended.                                    *)
THEOREM ReleaseInvariant == ReleaseSpec => []ReleaseInv
<1>1. ReleaseAssumption
  BY ReleaseAssumption
<1>2. QED BY <1>1, ReleaseStart, ReleaseStep, PTL DEF ReleaseSpec

(* Every variable of the builds, the files and the channels has its type.  *)
THEOREM ReleaseTypes == ReleaseSpec => []ReleaseTypeOK
<1>1. ReleaseInv => ReleaseTypeOK
  BY DEF ReleaseInv
<1>2. QED BY <1>1, ReleaseInvariant, PTL

(* A bundle that _execute_release_channel_item copies to a file_drop was   *)
(* published and complete, unless the tree was edited while the request    *)
(* that delivers it, or the one that wrote it last, was running, or it is  *)
(* torn and another request wrote the file since this one opened it.       *)
THEOREM ReleaseDeliveredWasReady == ReleaseSpec => []DeliveredWasReady
<1>1. ReleaseInv => DeliveredWasReady
  BY DEF ReleaseInv, Sound, Delivered, DeliveredWasReady, Complete
<1>2. QED BY <1>1, ReleaseInvariant, PTL

(* The row of a publication or of a rollback package has the status of the *)
(* whole package whose checksum it stores, unless another request wrote    *)
(* the file between the opening of the ZIP and the checksum.               *)
THEOREM ReleaseRowTellsPackage == ReleaseSpec => []RowTellsPackage
<1>1. ReleaseInv => RowTellsPackage
  BY DEF ReleaseInv, Sound, RowTellsPackage
<1>2. QED BY <1>1, ReleaseInvariant, PTL
=============================================================================
