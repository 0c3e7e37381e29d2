------------------------------ MODULE RowScope ------------------------------
(***************************************************************************)
(* Which rows of a tenant's tables a request that passed the middleware is *)
(* shown: tenant_row_policies, enforce_tenant_row_policy and               *)
(* filter_records_for_tenant_scope of service/app/tenant_row.py, with the  *)
(* handlers that call them (_fetch_job_status_payload and the lists of     *)
(* service/app/main.py), and the two reports that predict the decision.    *)
(*                                                                         *)
(* A query reads its rows, its actor's memberships and the row policy, one *)
(* statement each; administrators write in between, and a read that raises *)
(* is answered from the defaults of the code.  A row is its tenant_id.     *)
(* The audit tables are left out.                                          *)
(***************************************************************************)
EXTENDS Naturals, FiniteSets

CONSTANTS
  Actors,      \* user_id of tokens
  Tokens,      \* the identities that may ask
  Bootstrap,   \* those of auth_bootstrap_users, and 'anonymous'
  Tenants,
  Default,     \* tenant_default_id
  NoTenant,    \* the tenant_id of a row that has none
  Tables,      \* the resource_tables that are queried
  Targets,     \* those DEFAULT_TENANT_QUERY_SCOPE_TARGETS lists
  Offered,     \* the policies administrators choose from
  NoPolicy,    \* no row for the table
  MaxChanges,  \* bound on writes of administrators, and restarts
  MaxFaults    \* bound on failing statements

Policy == [mode : {"inherit", "enforce", "relaxed"}, match : BOOLEAN, admin : BOOLEAN,
           service : BOOLEAN, global : BOOLEAN]
Settings == [strict : BOOLEAN, adminOverride : BOOLEAN]
Roles == {"admin", "service_account", "viewer"}
Token == [actor : Actors, home : Tenants, role : Roles]

ASSUME RowScopeAssumption ==
  /\ Tokens \subseteq Token /\ Tokens # {} /\ Tables # {}
  /\ Bootstrap \subseteq Actors
  /\ Default \in Tenants /\ NoTenant \notin Tenants
  /\ Targets \subseteq Tables
  /\ Offered \subseteq Policy /\ NoPolicy \notin Policy
  /\ MaxChanges \in Nat /\ MaxFaults \in Nat

(* tenant is the tenant_id the middleware left on the request, asked the   *)
(* tenant_id parameter of the handler.  A list selects by tenant, the      *)
(* connector list has rows without one, and a job is looked for by its id. *)
Query == {q \in [by : Tokens, tenant : Tenants, asked : Tenants, table : Tables,
                 kind : {"list", "catalog", "job"}, owner : Tenants] :
            q.kind # "job" => q.owner = q.tenant}

VARIABLES
  settings,    \* strict_tenant_row_isolation and tenant_allow_admin_override
  members,     \* the active rows of tenant_memberships: tenants of an actor
  policies,    \* tenant_row_policies
  pc,          \* what the query does next
  query,
  rows,        \* the rows its SELECT returned
  known,       \* the memberships it has read
  shown,       \* the rows it was answered with
  changes, faults

(* History variables. *)
VARIABLES
  since        \* the policies in force at some moment since the query began

tables  == <<settings, members, policies>>
locals  == <<pc, query, rows, known, shown, since>>
vars == <<tables, locals, changes, faults>>

NoQuery == CHOOSE q \in Query : TRUE
Busy == {"select", "fallback", "members", "policy"}
PC == Busy \cup {"idle", "answered", "absent", "denied"}

-----------------------------------------------------------------------------
(* DEFAULT_TENANT_ROW_POLICIES, and the fallback for any other table.      *)
Secrets == {"secrets", "connector_credentials_meta"}
TenantTables == {"tenant_memberships", "tenant_route_policies", "tenant_row_policies",
                 "tenant_access_audit", "tenant_row_access_audit", "tenant_query_scope_audit"}
AdminTables == {"release_channels", "release_channel_events", "release_channel_executions",
                "release_publications", "release_publication_events", "release_manifests",
                "rollback_packages", "audit_logs"}
DefaultPolicy(tb) ==
  [mode    |-> IF tb \in Secrets \cup TenantTables THEN "enforce" ELSE "inherit",
   match   |-> TRUE,
   admin   |-> tb \notin Secrets,
   service |-> tb \notin Secrets \cup TenantTables \cup AdminTables,
   global  |-> FALSE]

(* resolve_tenant_row_policy *)
InForce(t, tb) == IF policies[t][tb] = NoPolicy THEN DefaultPolicy(tb) ELSE policies[t][tb]

(* list_actor_tenant_memberships, when it answers and when it raises.      *)
Active(a) == members[a]
Fallback(a) == IF a \in Bootstrap THEN {Default} ELSE {}

-----------------------------------------------------------------------------
(* enforce_tenant_row_policy.  The policy is that of the tenant the        *)
(* request works for, the memberships are looked up for the one asked for. *)

Enforced(p) == settings.strict \/ p.mode = "enforce"

Overrides(role, p) ==
  \/ role = "admin" /\ p.admin /\ settings.adminOverride
  \/ role = "service_account" /\ p.service

Waived(asked, p) ==
  \/ ~p.match
  \/ p.global /\ asked = Default
  \/ ~Enforced(p)

(* Mutant of Allowed: who may override is not asked. *)
AllowedToMembers(by, asked, p, mine) == asked = by.home \/ asked \in mine \/ Waived(asked, p)
Allowed(by, asked, p, mine) ==
  \/ asked = by.home
  \/ Overrides(by.role, p)
  \/ asked \in mine
  \/ Waived(asked, p)

(* filter_records_for_tenant_scope *)
(* Mutant of Visible: the default tenant's rows instead of the own ones.   *)
VisibleEither(t, p) == IF p.global THEN {Default} ELSE {t}
Visible(t, p) == {t} \cup (IF p.global THEN {Default} ELSE {})
Relaxed(p) == p.mode = "relaxed" /\ ~settings.strict

(* Mutant of Shows: rows of other tenants are shown unless the policy is   *)
(* enforced. *)
ShowsUnlessEnforced(o, t, p) ==
  IF o = NoTenant THEN ~(Enforced(p) /\ p.match) ELSE o \in Visible(t, p) \/ ~Enforced(p)
Shows(o, t, p) ==
  IF o = NoTenant THEN ~(Enforced(p) /\ p.match) ELSE o \in Visible(t, p) \/ Relaxed(p)

-----------------------------------------------------------------------------
(* build_tenant_row_isolation_report spells the same decision out once     *)
(* more, for the policy of the tenant that is asked for.                   *)
ReportReason(by, asked, tb) ==
  LET p == InForce(asked, tb)
  IN IF asked = by.home THEN "same_tenant"
     ELSE IF by.role = "admin" /\ p.admin /\ settings.adminOverride THEN "admin_override"
     ELSE IF by.role = "service_account" /\ p.service THEN "service_account_override"
     ELSE IF ~p.match THEN "tenant_match_not_required"
     ELSE IF asked \in Active(by.actor) THEN "active_membership"
     ELSE IF p.global /\ asked = Default THEN "global_rows_allowed"
     ELSE IF p.mode = "relaxed" /\ ~settings.strict THEN "relaxed_policy"
     ELSE IF settings.strict \/ p.mode = "enforce" THEN "row_tenant_match_required"
     ELSE "row_isolation_not_enforced"

(* build_tenant_query_scope_report asks the enforcing function itself, and *)
(* build_tenant_query_coverage_report is refused with its first refusal.   *)
ScopeReported(by, t, asked, tb) == Allowed(by, asked, InForce(t, tb), Active(by.actor))
CoverageReported(by, t, asked) == \A tb \in Targets : ScopeReported(by, t, asked, tb)

-----------------------------------------------------------------------------
(* The service has started once on empty tables: the default tenant's      *)
(* policies are stored.                                                    *)
Init ==
  /\ settings \in Settings
  /\ members = [a \in Actors |-> Fallback(a)]
  /\ policies = [t \in Tenants |-> [tb \in Tables |->
                   IF t = Default THEN DefaultPolicy(tb) ELSE NoPolicy]]
  /\ pc = "idle"
  /\ query = NoQuery
  /\ rows = {} /\ known = {} /\ shown = {} /\ since = {}
  /\ changes = 0 /\ faults = 0

Goto(from, to) == pc = from /\ pc' = to

(* A statement answers, or raises, which the code notices and goes on.     *)
Read(ok) ==
  /\ ok \/ faults < MaxFaults
  /\ faults' = IF ok THEN faults ELSE faults + 1

(* resolve_effective_tenant let the request pass. *)
Admitted(q) ==
  \/ q.tenant = q.by.home
  \/ q.by.role = "admin" /\ settings.adminOverride
  \/ q.by.role = "service_account"
  \/ q.tenant \in Active(q.by.actor)

Begin(q) ==
  /\ Goto("idle", "select")
  /\ Admitted(q)
  /\ query' = q
  /\ since' = {InForce(q.tenant, q.table)}
  /\ UNCHANGED <<tables, rows, known, shown, changes, faults>>

(* A list selects the rows of the tenant (the connectors come from the     *)
(* catalog); a job of the tenant is answered without any filter.           *)
Select(ok) ==
  /\ Read(ok)
  /\ \/ /\ query.kind # "job"
        /\ Goto("select", "members")
        /\ rows' = IF query.kind = "catalog" THEN {NoTenant}
                   ELSE IF ok THEN {query.tenant} ELSE {}
        /\ UNCHANGED shown
     \/ /\ query.kind = "job" /\ ok /\ query.owner = query.tenant
        /\ Goto("select", "answered")
        /\ rows' = {query.owner}
        /\ shown' = {query.owner}
     \/ /\ query.kind = "job" /\ (~ok \/ query.owner # query.tenant)
        /\ Goto("select", "fallback")
        /\ UNCHANGED <<rows, shown>>
  /\ UNCHANGED <<tables, query, known, since, changes>>

(* The job is looked for in all tenants, and filtered afterwards. *)
SelectAnywhere(ok) ==
  /\ Read(ok)
  /\ Goto("fallback", IF ok THEN "members" ELSE "absent")
  /\ rows' = IF ok THEN {query.owner} ELSE {}
  /\ UNCHANGED <<tables, query, known, shown, since, changes>>

ReadMembers(ok) ==
  /\ Goto("members", "policy")
  /\ Read(ok)
  /\ known' = IF ok THEN Active(query.by.actor) ELSE Fallback(query.by.actor)
  /\ UNCHANGED <<tables, query, rows, shown, since, changes>>

(* The policy that filters is the one that has been enforced.              *)
Answer(p) ==
  IF Allowed(query.by, query.asked, p, known)
  THEN pc' = "answered" /\ shown' = {o \in rows : Shows(o, query.tenant, p)}
  ELSE pc' = "denied" /\ UNCHANGED shown

ReadPolicy(ok) ==
  /\ pc = "policy"
  /\ Read(ok)
  /\ Answer(IF ok THEN InForce(query.tenant, query.table) ELSE DefaultPolicy(query.table))
  /\ UNCHANGED <<tables, query, rows, known, since, changes>>

-----------------------------------------------------------------------------
(* The query is over, and its locals are gone.                             *)
(* Mutant of Forget: the answer is kept for the next query.                *)
ForgetOnlyRows ==
  /\ pc' = "idle"
  /\ query' = NoQuery
  /\ rows' = {} /\ known' = {} /\ since' = {}
  /\ UNCHANGED shown

Forget ==
  /\ pc' = "idle"
  /\ query' = NoQuery
  /\ rows' = {} /\ known' = {} /\ shown' = {} /\ since' = {}

Return ==
  /\ pc \in {"answered", "absent", "denied"}
  /\ Forget
  /\ UNCHANGED <<tables, changes, faults>>

-----------------------------------------------------------------------------
(* Administrators, and a restart of the service; a write that fails leaves *)
(* the tables as they were.  A query in progress sees what they write.     *)
Change == changes < MaxChanges /\ changes' = changes + 1

Observe == since' = IF pc \in Busy THEN since \cup {InForce(query.tenant, query.table)'}
                    ELSE since

SetMembership(a, M) ==
  /\ Change
  /\ members' = [members EXCEPT ![a] = M]
  /\ UNCHANGED <<settings, policies, pc, query, rows, known, shown, faults>>
  /\ Observe

(* upsert_tenant_row_policy *)
SetPolicy(t, tb, p) ==
  /\ Change
  /\ policies' = [policies EXCEPT ![t][tb] = p]
  /\ UNCHANGED <<settings, members, pc, query, rows, known, shown, faults>>
  /\ Observe

(* seed_tenant_row_policy_defaults finds its rows in place.  The query in  *)
(* progress is lost.                                                       *)
Restart ==
  /\ Change
  /\ settings' \in Settings
  /\ Forget
  /\ UNCHANGED <<members, policies, faults>>

-----------------------------------------------------------------------------
Next ==
  \/ \E q \in Query : Begin(q)
  \/ Return
  \/ \E ok \in BOOLEAN : Select(ok) \/ SelectAnywhere(ok) \/ ReadMembers(ok) \/ ReadPolicy(ok)
  \/ \E a \in Actors, M \in SUBSET Tenants : SetMembership(a, M)
  \/ \E t \in Tenants, tb \in Tables, p \in Offered : SetPolicy(t, tb, p)
  \/ Restart

Spec == Init /\ [][Next]_vars

-----------------------------------------------------------------------------
TypeOK ==
  /\ settings \in Settings
  /\ members \in [Actors -> SUBSET Tenants]
  /\ policies \in [Tenants -> [Tables -> Policy \cup {NoPolicy}]]
  /\ pc \in PC
  /\ query \in Query
  /\ rows \subseteq Tenants \cup {NoTenant}
  /\ known \subseteq Tenants
  /\ shown \subseteq rows
  /\ since \subseteq Policy
  /\ changes \in Nat /\ faults \in Nat

(* A row of another tenant than the one the middleware let the request     *)
(* work for is shown only if that tenant's own policy said so at some      *)
(* moment since the query began: it shares global rows and the row is the  *)
(* default tenant's, or it was relaxed and strict isolation is off.  A     *)
(* policy that could not be read shows nothing of the kind.                *)
ForeignRowsExplained ==
  \A o \in shown \ {query.tenant, NoTenant} :
    \E p \in since : Relaxed(p) \/ (p.global /\ o = Default)

(* Nothing of the own tenant is lost: a query that asks for its token's    *)
(* tenant is never denied, whatever policies and failing reads, and every  *)
(* answer holds all rows of the request's tenant that were selected.       *)
OwnRowsShown ==
  /\ pc = "denied" => query.asked # query.by.home
  /\ pc = "answered" => rows \cap {query.tenant} \subseteq shown

(* The reports say what a query would be told: for a request that works    *)
(* for the tenant it asks for, the isolation report denies exactly what    *)
(* would be denied, and the coverage report is answered exactly if every   *)
(* target is reported as allowed.                                          *)
ReportsAgree ==
  \A by \in Tokens, t \in Tenants :
    LET Denied(tb) == ReportReason(by, t, tb) = "row_tenant_match_required"
    IN /\ \A tb \in Tables :
            Denied(tb) <=> ~Allowed(by, t, InForce(t, tb), Active(by.actor))
       /\ CoverageReported(by, t, t) <=> \A tb \in Targets : ~Denied(tb)
=============================================================================
