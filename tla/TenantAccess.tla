--------------------------- MODULE TenantAccess ---------------------------
(***************************************************************************)
(* Which tenant a request may work for: the tables tenant_memberships and  *)
(* tenant_route_policies, resolve_effective_tenant and                     *)
(* enforce_tenant_route_policy of service/app/tenant.py, and the part of   *)
(* the HTTP middleware (service/app/main.py, with auth_required) that      *)
(* calls them one after the other.                                         *)
(*                                                                         *)
(* A request reads its memberships, the policies and its memberships once  *)
(* more; each read is a statement of its own, administrators write between *)
(* them, and a read that raises is answered from defaults in the code.     *)
(* Scopes (authorize_request) and the audit tables are left out.           *)
(***************************************************************************)
EXTENDS Naturals, FiniteSets

CONSTANTS
  Requests,    \* requests in progress at a time
  Actors,      \* user_id of tokens
  Bootstrap,   \* those of auth_bootstrap_users, and 'anonymous'
  Tenants,
  Default,     \* tenant_default_id
  Routes,      \* route prefixes, by the resource_type of their policy
  Offered,     \* the policies administrators choose from
  NoPolicy,    \* no row for the prefix
  MaxChanges,  \* bound on writes of administrators, and restarts
  MaxFaults    \* bound on failing statements

Guarded == {"secrets", "tenants", "admin", "release"}
Roles == {"admin", "service_account", "viewer"}
Policy == [mode : {"inherit", "enforce", "relaxed"}, membership : BOOLEAN,
           admin : BOOLEAN, service : BOOLEAN]

ASSUME TenantAssumption ==
  /\ Actors # {}
  /\ Bootstrap \subseteq Actors
  /\ Default \in Tenants
  /\ Routes \subseteq Guarded \cup {"connectors", "jobs", "workflows", "system"}
  /\ "system" \in Routes
  /\ Offered \subseteq Policy
  /\ NoPolicy \notin Policy
  /\ MaxChanges \in Nat /\ MaxFaults \in Nat

VARIABLES
  settings,    \* strict_tenant_enforcement and tenant_allow_admin_override
  membership,  \* tenant_memberships: "none" without a row, else is_active
  policies,    \* tenant_route_policies
  pc,          \* what the middleware does next for a request
  req,         \* its token (actor, home, role) and what it asks for
  read,        \* the policy it has read
  changes, faults

(* History variables. *)
VARIABLES
  blind,       \* the reads of a request that raised
  since        \* what was in force at some moment since the request arrived

tables  == <<membership, policies>>
request == <<pc, req, read, blind, since>>
vars == <<settings, tables, request, changes, faults>>

Settings == [strict : BOOLEAN, adminOverride : BOOLEAN]
Busy == {"resolve", "policy", "decide"}
PC == Busy \cup {"idle", "admitted", "denied"}
Request == [actor : Actors, home : Tenants, role : Roles, tenant : Tenants, route : Routes]

-----------------------------------------------------------------------------
(* DEFAULT_TENANT_ROUTE_POLICIES; "system" is the prefix '/'.              *)
DefaultPolicy(g) ==
  [mode |-> IF g \in Guarded THEN "enforce" ELSE "inherit",
   membership |-> g # "system", admin |-> g # "secrets", service |-> g \notin Guarded]

(* The longest stored prefix decides, and '/' is a prefix of every route;  *)
(* the defaults of the code are for tenants that have stored neither.      *)
(* Mutant of InForce: no defaults. *)
StoredOnly(t, g) == IF policies[t][g] # NoPolicy THEN policies[t][g] ELSE policies[t]["system"]
InForce(t, g) ==
  IF \E p \in {g, "system"} : policies[t][p] # NoPolicy THEN StoredOnly(t, g)
  ELSE DefaultPolicy(g)

(* list_actor_tenant_memberships.  Mutant of Active: is_active is not read. *)
ActiveOrNot(a) == {t \in Tenants : membership[a][t] # "none"}
Active(a) == {t \in Tenants : membership[a][t] = "active"}
Fallback(a) == IF a \in Bootstrap THEN {Default} ELSE {}

Crosses(r) == req[r].tenant # req[r].home

(* The roles that may cross into another tenant, and the policies that     *)
(* agree.                                                                  *)
MayOverride(r) ==
  \/ req[r].role = "admin" /\ settings.adminOverride
  \/ req[r].role = "service_account" /\ ~settings.strict
Overrides(r, p) ==
  /\ MayOverride(r)
  /\ req[r].role = "admin" => p.admin
  /\ req[r].role = "service_account" => p.service

(* The membership, if the policy does not ask for one. *)
Waived(p) == ~p.membership \/ (p.mode = "relaxed" /\ ~settings.strict)

(* Mutant of Allowed: memberships do not count. *)
AllowedByPolicy(r, members) == ~Crosses(r) \/ Overrides(r, read[r]) \/ Waived(read[r])
Allowed(r, members) ==
  \/ ~Crosses(r)
  \/ Overrides(r, read[r])
  \/ Waived(read[r])
  \/ req[r].tenant \in members

-----------------------------------------------------------------------------
Seeded(A) == [a \in Actors |-> IF a \in A THEN [membership[a] EXCEPT ![Default] = "active"]
                               ELSE membership[a]]

(* The service has started once on empty tables. *)
Init ==
  /\ settings \in Settings
  /\ membership = [a \in Actors |-> [t \in Tenants |->
                     IF a \in Bootstrap /\ t = Default THEN "active" ELSE "none"]]
  /\ policies = [t \in Tenants |-> [g \in Routes |->
                     IF t = Default THEN DefaultPolicy(g) ELSE NoPolicy]]
  /\ pc = [r \in Requests |-> "idle"]
  /\ req = [r \in Requests |-> CHOOSE q \in Request : TRUE]
  /\ read = [r \in Requests |-> NoPolicy]
  /\ changes = 0 /\ faults = 0
  /\ blind = [r \in Requests |-> {}]
  /\ since = [r \in Requests |-> [held |-> FALSE, lapsed |-> FALSE, policies |-> {}]]

(* What the tables say of a request, for the history.                      *)
Member(a, t) == membership[a][t] = "active"
Seen(q) == [held |-> Member(q.actor, q.tenant), lapsed |-> ~Member(q.actor, q.tenant),
            policies |-> {InForce(q.tenant, q.route)}]

Observe ==
  since' = [r \in Requests |->
    IF pc[r] \notin Busy THEN since[r]
    ELSE LET now == Seen(req[r])'
         IN [held     |-> since[r].held \/ now.held,
             lapsed   |-> since[r].lapsed \/ now.lapsed,
             policies |-> since[r].policies \cup now.policies]]

(* A statement answers, or raises and is answered by a default.            *)
Read(r, what, ok) ==
  IF ok THEN UNCHANGED <<faults, blind>>
  ELSE /\ faults < MaxFaults
       /\ faults' = faults + 1
       /\ blind' = [blind EXCEPT ![r] = @ \cup {what}]

Goto(r, from, to) == pc[r] = from /\ pc' = [pc EXCEPT ![r] = to]

-----------------------------------------------------------------------------
Arrive(r, q) ==
  /\ pc[r] \notin Busy
  /\ pc'    = [pc EXCEPT ![r] = "resolve"]
  /\ req'   = [req EXCEPT ![r] = q]
  /\ read'  = [read EXCEPT ![r] = NoPolicy]
  /\ blind' = [blind EXCEPT ![r] = {}]
  /\ since' = [since EXCEPT ![r] = Seen(q)]
  /\ UNCHANGED <<settings, tables, changes, faults>>

(* resolve_effective_tenant reads memberships only when nothing else lets  *)
(* the request pass; its fallback does not look at the tenant.             *)
Resolve(r) ==
  /\ \/ /\ ~Crosses(r) \/ MayOverride(r)
        /\ Goto(r, "resolve", "policy")
        /\ UNCHANGED <<faults, blind>>
     \/ /\ Crosses(r) /\ ~MayOverride(r)
        /\ \E ok \in BOOLEAN :
             /\ Read(r, "members", ok)
             /\ IF \/ ok /\ req[r].tenant \in Active(req[r].actor)
                   \/ ~ok /\ Fallback(req[r].actor) # {}
                THEN Goto(r, "resolve", "policy") ELSE Goto(r, "resolve", "denied")
  /\ UNCHANGED <<settings, tables, req, read, since, changes>>

(* enforce_tenant_route_policy: the policy, then the memberships.          *)
(* Mutant of ReadPolicy: it is the policy of the actor's own tenant. *)
ReadHomePolicy(r) ==
  /\ Goto(r, "policy", "decide")
  /\ read' = [read EXCEPT ![r] = InForce(req[r].home, req[r].route)]
  /\ UNCHANGED <<settings, tables, req, since, blind, changes, faults>>

ReadPolicy(r) ==
  /\ Goto(r, "policy", "decide")
  /\ \E ok \in BOOLEAN :
       /\ Read(r, "policy", ok)
       /\ read' = [read EXCEPT ![r] = IF ok THEN InForce(req[r].tenant, req[r].route)
                                      ELSE DefaultPolicy(req[r].route)]
  /\ UNCHANGED <<settings, tables, req, since, changes>>

Decide(r) ==
  /\ pc[r] = "decide"
  /\ \E ok \in BOOLEAN :
       /\ Read(r, "members", ok)
       /\ LET members == IF ok THEN Active(req[r].actor) ELSE Fallback(req[r].actor)
          IN IF Allowed(r, members) THEN Goto(r, "decide", "admitted")
                                    ELSE Goto(r, "decide", "denied")
  /\ UNCHANGED <<settings, tables, req, read, since, changes>>

-----------------------------------------------------------------------------
(* upsert_tenant_membership and upsert_tenant_route_policy, by an          *)
(* administrator; a failing write leaves the tables as they were.          *)
Change == changes < MaxChanges /\ changes' = changes + 1

SetMembership(a, t, s) ==
  /\ Change
  /\ membership' = [membership EXCEPT ![a][t] = s]
  /\ UNCHANGED <<settings, policies, pc, req, read, blind, faults>>
  /\ Observe

SetPolicy(t, g, p) ==
  /\ Change
  /\ policies' = [policies EXCEPT ![t][g] = p]
  /\ UNCHANGED <<settings, membership, pc, req, read, blind, faults>>
  /\ Observe

(* A restart ends the requests in progress and may bring other settings.   *)
(* seed_tenant_defaults gives the bootstrap users their membership, also   *)
(* one that was taken from them; seed_tenant_policy_defaults finds its     *)
(* rows in place and does nothing.                                         *)
Restart ==
  /\ Change
  /\ settings' \in Settings
  /\ \/ membership' = Seeded(Bootstrap) /\ UNCHANGED faults
     \/ /\ faults < MaxFaults
        /\ faults' = faults + 1
        /\ \E A \in SUBSET Bootstrap : membership' = Seeded(A)
  /\ pc' = [r \in Requests |-> "idle"]
  /\ UNCHANGED <<policies, req, read, blind, since>>

-----------------------------------------------------------------------------
Next ==
  \/ \E r \in Requests :
       \/ \E q \in Request : Arrive(r, q)
       \/ Resolve(r) \/ ReadPolicy(r) \/ Decide(r)
  \/ \E a \in Actors, t \in Tenants, s \in {"active", "inactive"} : SetMembership(a, t, s)
  \/ \E t \in Tenants, g \in Routes, p \in Offered : SetPolicy(t, g, p)
  \/ Restart

Spec == Init /\ [][Next]_vars

-----------------------------------------------------------------------------
TypeOK ==
  /\ settings \in Settings
  /\ membership \in [Actors -> [Tenants -> {"none", "active", "inactive"}]]
  /\ policies \in [Tenants -> [Routes -> Policy \cup {NoPolicy}]]
  /\ pc \in [Requests -> PC]
  /\ req \in [Requests -> Request]
  /\ read \in [Requests -> Policy \cup {NoPolicy}]
  /\ blind \in [Requests -> SUBSET {"members", "policy"}]
  /\ since \in [Requests -> [held : BOOLEAN, lapsed : BOOLEAN, policies : SUBSET Policy]]
  /\ changes \in Nat /\ faults \in Nat
  /\ \A r \in Requests : pc[r] = "decide" => read[r] \in Policy

(* A request that crosses into another tenant and whose role does not      *)
(* override is admitted only if its actor was a member at some moment      *)
(* since it arrived, whatever the route's policy waives: the two gates of  *)
(* the middleware are one after the other.  The exception is a bootstrap   *)
(* user whose memberships could not be read.                               *)
OutsidersStayOut ==
  \A r \in Requests :
    pc[r] = "admitted" /\ Crosses(r) /\ ~MayOverride(r) =>
      \/ since[r].held
      \/ req[r].actor \in Bootstrap /\ "members" \in blind[r]

(* Where every policy in force since a request arrived asks for a          *)
(* membership and gives its role no override, it is admitted only with     *)
(* one, although policies and memberships change between the reads of      *)
(* enforce_tenant_route_policy; a failing read of the memberships lets     *)
(* bootstrap users into the default tenant and nobody anywhere else.       *)
BoundRoutesNeedMembership ==
  \A r \in Requests :
    /\ pc[r] = "admitted" /\ Crosses(r) /\ "policy" \notin blind[r]
    /\ \A p \in since[r].policies : ~Overrides(r, p) /\ ~Waived(p)
    => \/ since[r].held
       \/ /\ req[r].actor \in Bootstrap /\ req[r].tenant = Default
          /\ "members" \in blind[r]

(* Nobody is kept out of the own tenant, and no member out of a tenant,    *)
(* whatever the policies say and whichever reads fail: a request is denied *)
(* only if its actor was not a member at some moment since it arrived, or  *)
(* if the memberships could not be read.                                   *)
MembersGetIn ==
  \A r \in Requests :
    pc[r] = "denied" =>
      Crosses(r) /\ (since[r].lapsed \/ "members" \in blind[r])
=============================================================================
