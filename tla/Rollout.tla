------------------------------ MODULE Rollout -------------------------------
(***************************************************************************)
(* The reports that lead a connector from its credentials to live use:     *)
(* preflight, credential matrix, readiness, deployment plan, rollout       *)
(* bundle and persistence report (service/app/main.py), with the           *)
(* validation of the adapters (adapters/base.py), the workflow manifest    *)
(* (connectors.py) and the tables that the reports fill.                   *)
(*                                                                         *)
(* A report is a sequence of passes: over the credentials ("pre"), one     *)
(* service after the other, each read twice and then written to            *)
(* connector_credentials_meta; over the import files ("man"); or over one  *)
(* table.  A bundle makes the first two three times.  Credentials that are *)
(* secret references are read from the database each time, and a read that *)
(* fails finds nothing.  Reports run in threads of their own.              *)
(***************************************************************************)
EXTENDS Naturals, FiniteSets, Sequences, SequencesExt

CONSTANTS
  Callers,      \* requests in progress
  Tenants, Default,
  Catalog,      \* list_catalog(), a sequence of services
  Connector,    \* the spec of each service
  Keys,         \* names of credentials
  Bearer, Trio, \* per auth type: the token that is enough, the keys that do as well
  ImportFiles,  \* workflow files: [service, op, primary]
  Secrets,      \* the credentials that there may be at first
  Requests,     \* what each caller may ask
  MaxRequests,  \* bound on the requests
  MaxTroubles   \* bound on the statements that fail and on the changes of the
                \* credentials, of the files and of the database by others

Services == ToSet(Catalog)
(* EXPECTED_CONNECTOR_TABLES, in their order. *)
TableOrder == <<"connector_registry", "connector_credentials_meta", "connector_execution_log",
                "workflow_templates", "smoke_test_results">>
Tables == ToSet(TableOrder)
(* Those of them that DEFAULT_RETENTION_POLICIES names. *)
Retained == {"connector_execution_log", "smoke_test_results"}
Kinds == {"validate", "preflight", "matrix", "readiness", "deployment", "bundle",
          "sync", "persistence"}
Request == [kind : Kinds, tenant : Tenants, names : SUBSET Services, persist : BOOLEAN]

ASSUME RolloutAssumption ==
  /\ Default \in Tenants /\ IsFiniteSet(Keys)
  /\ Catalog \in Seq(Services)
  /\ \A s \in Services :
       /\ {"required", "optional", "base", "auth", "status", "mode", "ops"} \subseteq DOMAIN Connector[s]
       /\ Connector[s].ops # {}
  /\ Secrets \subseteq SUBSET Keys
  /\ Requests \in [Callers -> SUBSET Request]
  /\ MaxRequests \in Nat /\ MaxTroubles \in Nat

VARIABLES
  secret,       \* the keys that have a value now
  files,        \* the files in n8n/import
  migrated,     \* the tables that exist
  meta,         \* connector_credentials_meta: "yes" or "no", "none" without a row
  registry,     \* connector_registry: <<tenant, service>>
  filled,       \* the other tables that have rows
  place, asked,
  passes, todo, \* the passes a request has still to make, what is left of its pass
  missing,      \* what the first read of a service found missing
  views,        \* what the passes have found
  answer,
  requests, troubles

(* History variables. *)
VARIABLES
  calm,         \* nothing changed and nothing failed since the request began
  alone,        \* nor was there a request that was no longer calm when it began
  told,         \* the tenants whose rows of meta a calm report has written since
  cleaned       \* the tables that the cleanup has emptied since the request began

world == <<secret, files, migrated>>
database == <<meta, registry, filled>>
local == <<place, asked, passes, todo, missing, views, answer>>
rolloutVars == <<world, database, local, requests, troubles, calm, alone, told, cleaned>>

KeysOf(s) == Connector[s].required \cup Connector[s].optional
Rows == {r \in Tenants \X Services \X Keys : r[3] \in KeysOf(r[2])}

-----------------------------------------------------------------------------
(* BaseConnectorAdapter, given the keys for which _env finds a value.      *)
Bridges == {"placeholder_bridge", "manual_export_import"}

Missing(s, found) ==
  LET spec == Connector[s]
      lacking == spec.required \ found
      HasBearer == Bearer[spec.auth] \in found
      trio == Trio[spec.auth] \ found
      Unplaced == spec.base \notin found
  IN CASE spec.auth = "oauth_refresh_or_bearer" -> IF HasBearer THEN {} ELSE trio
       [] spec.auth = "oauth_bearer_or_client_credentials" ->
            IF Unplaced THEN {spec.base}
            ELSE IF HasBearer \/ trio = {} THEN {} ELSE lacking \cup trio
       [] spec.auth = "token_or_basic" -> IF Unplaced THEN {spec.base} ELSE {}
       [] spec.auth = "query_params" -> {}
       [] OTHER -> lacking

Present(s, found) == KeysOf(s) \cap found

(* What is asked for can be given. *)
ASSUME MissingAssumption == \A s \in Services, found \in SUBSET Keys : Missing(s, found) \subseteq Keys

(* What a pass tells of a service, and items of the reports made of it.    *)
Unread == [missing |-> {}, present |-> {}]
Configured(view) == view.missing = {}

(* Mutant of LiveReady: whether configured or not. *)
LiveReadyUnconfigured(s, view) ==
  Connector[s].status \in {"live_api", "partial_api"} /\ Connector[s].mode = "rest_api"

LiveReady(s, view) ==
  /\ Configured(view)
  /\ Connector[s].status \in {"live_api", "partial_api"}
  /\ Connector[s].mode \in {"rest_api", "sdk_wrapper", "webhook"}

(* build_workflow_manifest: the workflows packaged for a service, first    *)
(* those of the hints, and its operations that have one.                   *)
Packaged(s, found) == {f \in found : f.service = s /\ (f.primary \/ f.op \in Connector[s].ops)}
PackagedOps(s, found) == {f.op : f \in Packaged(s, found)} \cap Connector[s].ops
Importable(s, found) == Packaged(s, found) # {}

(* _choose_recommended_action *)
RecommendedAction(s, view, found) ==
  IF Importable(s, found)
  THEN IF Configured(view) \/ Connector[s].status \in Bridges
       THEN "import_packaged_workflow" ELSE "fill_credentials_then_import"
  ELSE IF Connector[s].ops # {}
       THEN IF Configured(view) THEN "use_workflow_draft" ELSE "fill_credentials_then_draft"
       ELSE "docs_or_manual_bridge"

PRIMARY_STEP_BY_ACTION ==
  [fill_credentials_then_import |-> "fill_credentials", import_packaged_workflow |-> "import_workflow",
   fill_credentials_then_draft |-> "fill_credentials", use_workflow_draft |-> "draft_workflow",
   docs_or_manual_bridge |-> "manual_bridge_review"]

PrimaryStep(s, view, found) ==
  IF ~Configured(view) THEN "fill_credentials"
  ELSE PRIMARY_STEP_BY_ACTION[RecommendedAction(s, view, found)]

(* _deployment_steps_for_item *)
Steps(s, view, found) ==
  LET spec == Connector[s]
      When(condition, step) == IF condition THEN <<step>> ELSE <<>>
      bridged == spec.status \in Bridges \/ spec.mode \in {"manual_bridge", "file_bridge", "local_bridge"}
  IN When(~Configured(view), "fill_credentials")
     \o <<"sync_registry">>
     \o When(Importable(s, found), "import_workflow")
     \o When(~Importable(s, found) /\ spec.ops # {}, "draft_workflow")
     \o When(bridged, "manual_bridge_review")
     \o When(~bridged /\ spec.status = "docs_only", "docs_only_review")
     \o <<IF LiveReady(s, view) THEN "live_smoke_test" ELSE "smoke_after_setup">>

-----------------------------------------------------------------------------
(* The answers.  chosen: the services asked for; pre, man: passes.         *)
ConfiguredCount(chosen, pre) == Cardinality({s \in chosen : Configured(pre[s])})
LiveCount(chosen, pre) == Cardinality({s \in chosen : LiveReady(s, pre[s])})

Preflight(chosen, pre) ==
  [kind |-> "preflight", configured |-> ConfiguredCount(chosen, pre), live |-> LiveCount(chosen, pre)]

(* _build_connector_credential_matrix: a key that a service needs, and     *)
(* that none misses, is fully ready.                                       *)
CredentialMatrix(chosen, pre) ==
  LET Needs(s, k) == k \in Connector[s].required \/ k = Connector[s].base
  IN [kind |-> "matrix",
      services |-> [s \in chosen |-> Configured(pre[s])],
      ready |-> {k \in UNION {KeysOf(s) \cup {Connector[s].base} : s \in chosen} :
                              /\ \E s \in chosen : Needs(s, k)
                              /\ \A s \in chosen : k \notin pre[s].missing}]

Readiness(chosen, pre, man) ==
  LET Doing(actions) == Cardinality({s \in chosen : RecommendedAction(s, pre[s], man) \in actions})
  IN [kind |-> "readiness", configured |-> ConfiguredCount(chosen, pre), live |-> LiveCount(chosen, pre),
      imports |-> Doing({"import_packaged_workflow"}),
      drafts |-> Doing({"use_workflow_draft", "fill_credentials_then_draft"})]

(* ready_to_import_count counts what still needs credentials, too.         *)
PlanItem(s, view, found) ==
  [configured |-> Configured(view), live |-> LiveReady(s, view),
   action |-> RecommendedAction(s, view, found), primary |-> PrimaryStep(s, view, found),
   importable |-> Importable(s, found), steps |-> Steps(s, view, found)]

Plan(chosen, pre, man) ==
  [kind |-> "deployment", configured |-> ConfiguredCount(chosen, pre), live |-> LiveCount(chosen, pre),
   imports |-> Cardinality({s \in chosen : Importable(s, man)}),
   requires |-> Cardinality({s \in chosen : ~Configured(pre[s])}),
   services |-> [s \in chosen |-> PlanItem(s, pre[s], man)]]

(* A bundle takes its counts from a readiness report, its services from a  *)
(* deployment plan, and what is present and packaged from passes of its    *)
(* own.                                                                    *)
Bundle(chosen, v) ==
  LET ready == Readiness(chosen, v[3], v[4])
      plan == Plan(chosen, v[5], v[6])
  IN [kind |-> "bundle", configured |-> ready.configured, live |-> ready.live,
      imports |-> plan.imports, requires |-> plan.requires, services |-> plan.services,
      preflight |-> Preflight(chosen, v[1]),
      present |-> [s \in chosen |-> v[1][s].present],
      packaged |-> [s \in chosen |-> PackagedOps(s, v[2])]]

(* Mutant of Satisfied: a count that failed is no zero. *)
SatisfiedUnlessZero(view) == view # "short"

(* _build_connector_persistence_report goes on to live use when it has no  *)
(* advice left; a count that failed is as good as zero.                    *)
Satisfied(view) == view = "enough"

Persistence(v) ==
  [kind |-> "persistence",
   advice |-> IF Len(v) < Len(TableOrder) THEN "start_postgresql"
              ELSE IF "absent" \in ToSet(v) THEN "apply_migrations"
              ELSE IF \A i \in DOMAIN v : Satisfied(v[i]) THEN "proceed" ELSE "populate"]

-----------------------------------------------------------------------------
Nothing == [kind |-> "preflight", tenant |-> Default, names |-> {}, persist |-> FALSE]
NoAnswer == [kind |-> "none"]

Chosen(a) == IF a.names = {} THEN Services ELSE a.names

Passes(a) ==
  CASE a.kind \in {"validate", "preflight"} -> <<"pre">>
    [] a.kind = "matrix" -> <<"pre", "pre">>
    [] a.kind \in {"readiness", "deployment"} -> <<"pre", "man">>
    [] a.kind = "bundle" -> <<"pre", "man", "pre", "man", "pre", "man">>
    [] a.kind = "sync" -> <<"sync">>
    [] a.kind = "persistence" -> TableOrder

RolloutInit ==
  /\ secret \in Secrets
  /\ files \in SUBSET ImportFiles
  /\ meta = [r \in Rows |-> "none"]
  /\ \/ migrated = {} /\ registry = {} /\ filled = {}
     \/ /\ migrated = Tables /\ registry = {Default} \X Services
        /\ filled = {"connector_execution_log", "workflow_templates", "smoke_test_results"}
  /\ place = [c \in Callers |-> "idle"] /\ asked = [c \in Callers |-> Nothing]
  /\ passes = [c \in Callers |-> <<>>] /\ todo = [c \in Callers |-> {}]
  /\ missing = [c \in Callers |-> {}] /\ views = [c \in Callers |-> <<>>]
  /\ answer = [c \in Callers |-> NoAnswer]
  /\ requests = 0 /\ troubles = 0
  /\ calm = [c \in Callers |-> FALSE] /\ alone = [c \in Callers |-> FALSE] /\ told = {}
  /\ cleaned = [c \in Callers |-> {}]

(* So many statements fail in a step. *)
Failing(n) == troubles + n <= MaxTroubles /\ troubles' = troubles + n

(* What changes the credentials, or hides them, disturbs every report.     *)
Disturb == calm' = [c \in Callers |-> FALSE] /\ told' = {}

(* A statement of _safe_db_execute that fails, or has no table, is lost:   *)
(* the report goes on.                                                     *)
Lose(c, lost) ==
  /\ calm' = IF lost THEN [calm EXCEPT ![c] = FALSE] ELSE calm
  /\ UNCHANGED told

BeginReport(c, a) ==
  /\ place[c] = "idle"
  /\ requests < MaxRequests /\ requests' = requests + 1
  /\ place' = [place EXCEPT ![c] = "next"]
  /\ asked' = [asked EXCEPT ![c] = a]
  /\ passes' = [passes EXCEPT ![c] = Passes(a)]
  /\ answer' = [answer EXCEPT ![c] = NoAnswer]
  /\ calm' = [calm EXCEPT ![c] = TRUE]
  /\ alone' = [alone EXCEPT ![c] = \A d \in Callers \ {c} : place[d] = "idle" \/ calm[d]]
  /\ cleaned' = [cleaned EXCEPT ![c] = {}]
  /\ UNCHANGED <<world, database, todo, missing, views, troubles, told>>

(* The next pass over the credentials. *)
BeginPass(c) ==
  /\ place[c] = "next" /\ passes[c] # <<>> /\ Head(passes[c]) = "pre"
  /\ place' = [place EXCEPT ![c] = "missing"]
  /\ todo' = [todo EXCEPT ![c] = Chosen(asked[c])]
  /\ views' = [views EXCEPT ![c] = Append(@, [s \in Services |-> Unread])]
  /\ UNCHANGED <<world, database, asked, passes, missing, answer, requests, troubles, calm, alone,
                 told, cleaned>>

(* A pass goes on with the first of the catalog that is left. *)
IsNext(c, s) ==
  /\ s \in todo[c]
  /\ \E i \in DOMAIN Catalog : Catalog[i] = s /\ \A j \in 1..(i - 1) : Catalog[j] \notin todo[c]

(* validate_config: _missing_credentials and then _present_credentials,    *)
(* each with reads of its own; a read that fails finds nothing.            *)
ReadMissing(c, s, failing) ==
  /\ place[c] = "missing" /\ IsNext(c, s)
  /\ place' = [place EXCEPT ![c] = "present"]
  /\ failing \subseteq KeysOf(s) \cap secret
  /\ Failing(Cardinality(failing))
  /\ IF failing # {} THEN Disturb ELSE UNCHANGED <<calm, told>>
  /\ missing' = [missing EXCEPT ![c] = Missing(s, secret \ failing)]
  /\ UNCHANGED <<world, database, asked, passes, todo, views, answer, requests, alone, cleaned>>

(* The rest of the pass, or the next one. *)
Proceed(c, s) ==
  /\ todo' = [todo EXCEPT ![c] = @ \ {s}]
  /\ IF todo[c] # {s}
     THEN place' = [place EXCEPT ![c] = "missing"] /\ UNCHANGED passes
     ELSE place' = [place EXCEPT ![c] = "next"] /\ passes' = [passes EXCEPT ![c] = Tail(@)]

ReadPresent(c, s, failing) ==
  LET view == [missing |-> missing[c], present |-> Present(s, secret \ failing)]
  IN /\ place[c] = "present" /\ IsNext(c, s)
     /\ failing \subseteq KeysOf(s) \cap secret
     /\ Failing(Cardinality(failing))
     /\ IF failing # {} THEN Disturb ELSE UNCHANGED <<calm, told>>
     /\ views' = [views EXCEPT ![c][Len(views[c])][s] = view]
     /\ missing' = [missing EXCEPT ![c] = {}]
     /\ IF asked[c].persist
        THEN place' = [place EXCEPT ![c] = "write"] /\ UNCHANGED <<passes, todo>>
        ELSE Proceed(c, s)
     /\ UNCHANGED <<world, database, asked, answer, requests, alone, cleaned>>

(* Mutant of Row: ON CONFLICT DO NOTHING. *)
RowKept(row, view) ==
  IF meta[row] # "none" THEN meta[row]
  ELSE IF row[3] \in view.present \ view.missing THEN "yes" ELSE "no"

(* A row that _upsert_credential_metadata writes. *)
Row(row, view) == IF row[3] \in view.present \ view.missing THEN "yes" ELSE "no"

WriteMeta(c, s, lost) ==
  LET view == views[c][Len(views[c])][s]
      mine == {r \in Rows : r[1] = asked[c].tenant /\ r[2] = s}
      written == IF "connector_credentials_meta" \in migrated THEN mine \ lost ELSE {}
  IN /\ place[c] = "write" /\ IsNext(c, s)
     /\ lost \subseteq mine
     /\ Failing(Cardinality(lost))
     /\ meta' = [r \in Rows |-> IF r \in written THEN Row(r, view) ELSE meta[r]]
     /\ Lose(c, written # mine)
     /\ Proceed(c, s)
     /\ UNCHANGED <<world, registry, filled, asked, missing, views, answer, requests, alone, cleaned>>

(* A pass in one step. *)
EndPass(c, view) ==
  /\ passes' = [passes EXCEPT ![c] = Tail(@)]
  /\ views' = [views EXCEPT ![c] = Append(@, view)]
  /\ UNCHANGED <<world, place, asked, todo, missing, answer, requests, alone>>

Manifest(c) ==
  /\ place[c] = "next" /\ passes[c] # <<>> /\ Head(passes[c]) = "man"
  /\ EndPass(c, files)
  /\ UNCHANGED <<database, troubles, calm, told, cleaned>>

(* _sync_connector_registry *)
Sync(c, lost) ==
  /\ place[c] = "next" /\ passes[c] # <<>> /\ Head(passes[c]) = "sync"
  /\ lost \subseteq Services /\ Failing(Cardinality(lost))
  /\ registry' = IF "connector_registry" \in migrated
                 THEN registry \cup ({asked[c].tenant} \X (Services \ lost)) ELSE registry
  /\ EndPass(c, "synced")
  /\ UNCHANGED <<meta, filled, calm, told, cleaned>>

(* The rows of every tenant are counted. *)
Enough(table) ==
  CASE table = "connector_registry" -> Cardinality(registry) >= Cardinality(Services)
    [] table = "connector_credentials_meta" -> \E r \in Rows : meta[r] # "none"
    [] OTHER -> table \in filled

(* _build_connector_persistence_report: whether the table exists, and what *)
(* it holds.  A failure of the first ends the report, one of the second is *)
(* noted.                                                                  *)
ReadTable(c, outcome) ==
  LET table == Head(passes[c])
      view == IF table \notin migrated THEN "absent" ELSE IF outcome = "count" THEN "unknown"
              ELSE IF Enough(table) THEN "enough" ELSE "short"
  IN /\ place[c] = "next" /\ passes[c] # <<>> /\ table \in Tables
     /\ Failing(IF outcome = "read" THEN 0 ELSE 1)
     /\ IF outcome = "exists"
        THEN /\ passes' = [passes EXCEPT ![c] = <<>>]
             /\ views' = [views EXCEPT ![c] = <<>>]
             /\ UNCHANGED <<world, place, asked, todo, missing, answer, requests, alone>>
        ELSE EndPass(c, view)
     /\ UNCHANGED <<database, calm, told, cleaned>>

(* The request is logged and answered. *)
Logged(lost) ==
  filled' = IF lost \/ "connector_execution_log" \notin migrated THEN filled
            ELSE filled \cup {"connector_execution_log"}

Report(c) ==
  LET a == asked[c]
      v == views[c]
  IN CASE a.kind \in {"validate", "preflight"} -> Preflight(Chosen(a), v[1])
       [] a.kind = "matrix" -> CredentialMatrix(Chosen(a), v[2])
       [] a.kind = "readiness" -> Readiness(Chosen(a), v[1], v[2])
       [] a.kind = "deployment" -> Plan(Chosen(a), v[1], v[2])
       [] a.kind = "bundle" -> Bundle(Chosen(a), v)
       [] a.kind = "sync" -> NoAnswer
       [] a.kind = "persistence" -> Persistence(v)

Answer(c, lost) ==
  LET a == asked[c]
      thorough == a.persist /\ Chosen(a) = Services /\ ~(a.kind \in {"sync", "persistence"})
  IN /\ place[c] = "next" /\ passes[c] = <<>>
     /\ Failing(IF lost THEN 1 ELSE 0)
     /\ Logged(lost)
     /\ answer' = [answer EXCEPT ![c] = Report(c)]
     /\ place' = [place EXCEPT ![c] = "idle"]
     /\ asked' = [asked EXCEPT ![c] = Nothing]
     /\ views' = [views EXCEPT ![c] = <<>>]
     /\ told' = IF thorough /\ calm[c] /\ alone[c] THEN told \cup {a.tenant} ELSE told
     /\ alone' = [alone EXCEPT ![c] = FALSE]
     /\ UNCHANGED <<world, meta, registry, passes, todo, missing, requests, calm, cleaned>>

(* /connectors/workflow-draft and /connectors/smoke-test leave a row each. *)
Exercise(table, lost) ==
  /\ requests < MaxRequests /\ requests' = requests + 1
  /\ lost \subseteq {table, "connector_execution_log"} /\ Failing(Cardinality(lost))
  /\ filled' = filled \cup (({table, "connector_execution_log"} \cap migrated) \ lost)
  /\ UNCHANGED <<world, meta, registry, local, calm, alone, told, cleaned>>

-----------------------------------------------------------------------------
(* Secrets are stored and emptied, workflows added and removed, and the    *)
(* migrations applied; the cleanup of old rows may empty a table.          *)
Change ==
  /\ troubles < MaxTroubles /\ troubles' = troubles + 1
  /\ UNCHANGED <<meta, registry, local, requests, alone>>

ChangeSecret(k) ==
  /\ Change
  /\ secret' = IF k \in secret THEN secret \ {k} ELSE secret \cup {k}
  /\ Disturb
  /\ UNCHANGED <<files, migrated, filled, cleaned>>

ChangeFile(f) ==
  /\ Change
  /\ files' = IF f \in files THEN files \ {f} ELSE files \cup {f}
  /\ calm' = [c \in Callers |-> FALSE]
  /\ UNCHANGED <<secret, migrated, filled, told, cleaned>>

Migrate ==
  /\ Change
  /\ migrated # Tables /\ migrated' = Tables
  /\ UNCHANGED <<secret, files, filled, calm, told, cleaned>>

CleanUp(table) ==
  /\ Change
  /\ table \in filled
  /\ filled' = filled \ {table}
  /\ cleaned' = [c \in Callers |-> cleaned[c] \cup {table}]
  /\ UNCHANGED <<world, calm, told>>

RolloutNext ==
  \/ \E c \in Callers :
       \/ \E a \in Requests[c] : BeginReport(c, a)
       \/ BeginPass(c)
       \/ \E s \in todo[c] :
            \/ \E failing \in SUBSET (KeysOf(s) \cap secret) :
                 ReadMissing(c, s, failing) \/ ReadPresent(c, s, failing)
            \/ \E lost \in SUBSET {r \in Rows : r[2] = s} : WriteMeta(c, s, lost)
       \/ Manifest(c)
       \/ \E lost \in SUBSET Services : Sync(c, lost)
       \/ \E outcome \in {"read", "count", "exists"} : ReadTable(c, outcome)
       \/ \E lost \in BOOLEAN : Answer(c, lost)
  \/ \E table \in {"workflow_templates", "smoke_test_results"} :
       \E lost \in SUBSET {table, "connector_execution_log"} : Exercise(table, lost)
  \/ \E k \in Keys : ChangeSecret(k)
  \/ \E f \in ImportFiles : ChangeFile(f)
  \/ Migrate
  \/ \E table \in Retained : CleanUp(table)

RolloutSpec == RolloutInit /\ [][RolloutNext]_rolloutVars

-----------------------------------------------------------------------------
RolloutTypeOK ==
  /\ secret \subseteq Keys /\ files \subseteq ImportFiles /\ migrated \subseteq Tables
  /\ meta \in [Rows -> {"none", "yes", "no"}]
  /\ registry \subseteq Tenants \X Services /\ filled \subseteq Tables
  /\ place \in [Callers -> {"idle", "next", "missing", "present", "write"}]
  /\ asked \in [Callers -> Request]
  /\ missing \in [Callers -> SUBSET Keys]
  /\ calm \in [Callers -> BOOLEAN] /\ alone \in [Callers -> BOOLEAN] /\ told \subseteq Tenants
  /\ cleaned \in [Callers -> SUBSET Retained]
  /\ requests \in 0..MaxRequests /\ troubles \in 0..MaxTroubles

(* The steps that a plan gives for a service lead to live use: it fills    *)
(* credentials before anything else if and only if it does not let the     *)
(* service go live, and its primary step is one of them.                   *)
Coherent(item) ==
  LET Has(step) == step \in ToSet(item.steps)
  IN /\ Has(item.primary)
     /\ ~(Has("fill_credentials") /\ Has("live_smoke_test"))
     /\ Has("fill_credentials") <=> ~item.configured
     /\ Has("fill_credentials") => Head(item.steps) = "fill_credentials" /\ item.primary = "fill_credentials"
     /\ item.live <=> Has("live_smoke_test")
     /\ Has("import_workflow") <=> item.importable

(* What a bundle tells is of one piece, and so are the credentials. *)
OneStory(a) ==
  LET Those == DOMAIN a.services
  IN /\ a.configured = Cardinality({s \in Those : a.services[s].configured})
     /\ a.live = Cardinality({s \in Those : a.services[s].live})
     /\ a.preflight.configured = a.configured /\ a.preflight.live = a.live
     /\ a.requires + a.configured = Cardinality(Those)
     /\ \A s \in Those :
          /\ a.services[s].configured <=> Missing(s, secret) = {}
          /\ a.present[s] = Present(s, secret)
          /\ a.packaged[s] # {} => a.services[s].importable

(* The deployment plan of every service is coherent, whatever changed      *)
(* while it was made.  A bundle, which reads everything three times, also  *)
(* tells one story of the credentials and the files as they are, unless    *)
(* one of them changed, or a read failed, since the request began.         *)
PlansAgree ==
  \A c \in Callers :
    /\ answer[c].kind \in {"deployment", "bundle"} =>
         \A s \in DOMAIN answer[c].services : Coherent(answer[c].services[s])
    /\ answer[c].kind = "bundle" /\ calm[c] => OneStory(answer[c])

(* Once a persisting report on all services ran, with nothing changed or   *)
(* failed since it began, and no report of before a change still running   *)
(* when it did, connector_credentials_meta tells the credentials of the    *)
(* tenant as they are, until they change.                                  *)
MetaTellsCredentials ==
  \A r \in Rows :
    r[1] \in told =>
      (meta[r] = "yes" <=> r[3] \in Present(r[2], secret) \ Missing(r[2], secret))

(* "Persistence tables are present and populated; proceed to live          *)
(* connector verification": they are, if not for this tenant, whatever     *)
(* failed, but for those that the cleanup has emptied since the request    *)
(* began.                                                                  *)
ProceedIsTrue ==
  \A c \in Callers :
    answer[c].kind = "persistence" /\ answer[c].advice = "proceed" =>
      \A table \in Tables : table \in migrated /\ (Enough(table) \/ table \in cleaned[c])
=============================================================================
