----------------------------- MODULE RowProofs -----------------------------
(***************************************************************************)
(* The rows a query is shown, for any actors, tenants, tables and          *)
(* policies.  While a query is under way the policy in force is among      *)
(* those its history names, nothing has been shown yet, and the settings   *)
(* stay: so the policy that filters explains every foreign row, and the    *)
(* default that replaces an unreadable policy shows none.                  *)
(***************************************************************************)
EXTENDS RowScope, TLAPS

(* The history of a query under way covers the present. *)
SinceCoversNow == pc \in Busy => InForce(query.tenant, query.table) \in since

(* Nothing is shown before the answer. *)
NothingYet == pc # "answered" => shown = {}

RowInv == TypeOK /\ SinceCoversNow /\ NothingYet /\ ForeignRowsExplained /\ OwnRowsShown

-----------------------------------------------------------------------------
(* The defaults of the code are policies, which share nothing. *)
LEMMA DefaultTyped ==
  \A tb : /\ DefaultPolicy(tb) \in Policy
          /\ DefaultPolicy(tb).mode # "relaxed" /\ ~DefaultPolicy(tb).global
BY DEF DefaultPolicy, Policy

(* What is in force for a tenant and a table is a policy. *)
LEMMA InForceTyped ==
  ASSUME RowScopeAssumption, policies \in [Tenants -> [Tables -> Policy \cup {NoPolicy}]],
         NEW t \in Tenants, NEW tb \in Tables
  PROVE  InForce(t, tb) \in Policy
<1>1. policies[t][tb] \in Policy \cup {NoPolicy}
  OBVIOUS
<1>2. QED BY <1>1, DefaultTyped DEF InForce

(* The fields of a query. *)
LEMMA QueryTyped ==
  ASSUME NEW q \in Query
  PROVE  /\ q.by \in Tokens /\ q.tenant \in Tenants /\ q.asked \in Tenants
         /\ q.table \in Tables /\ q.owner \in Tenants
         /\ q.kind \in {"list", "catalog", "job"}
BY DEF Query

(* There is a query to start with. *)
LEMMA NoQueryTyped == RowScopeAssumption => NoQuery \in Query
<1> SUFFICES ASSUME RowScopeAssumption PROVE \E q : q \in Query
  BY DEF NoQuery
<1>1. PICK by \in Tokens, tb \in Tables : TRUE
  BY DEF RowScopeAssumption
<1>2. [by |-> by, tenant |-> Default, asked |-> Default, table |-> tb, kind |-> "list",
       owner |-> Default] \in Query
  BY DEF Query, RowScopeAssumption
<1>3. QED BY <1>2

(* The memberships a failing read leaves. *)
LEMMA FallbackTyped == RowScopeAssumption => \A a : Fallback(a) \subseteq Tenants
BY DEF RowScopeAssumption, Fallback

-----------------------------------------------------------------------------
(* The first state. *)
LEMMA InitInv == RowScopeAssumption /\ Init => RowInv
<1> SUFFICES ASSUME RowScopeAssumption, Init PROVE RowInv
  OBVIOUS
<1>1. TypeOK
  <2>1. policies \in [Tenants -> [Tables -> Policy \cup {NoPolicy}]]
    BY DefaultTyped DEF Init
  <2>2. members \in [Actors -> SUBSET Tenants]
    BY FallbackTyped DEF Init
  <2>3. QED BY <2>1, <2>2, NoQueryTyped DEF Init, TypeOK, PC, Busy
<1>2. QED
  BY <1>1 DEF Init, RowInv, SinceCoversNow, NothingYet, ForeignRowsExplained, OwnRowsShown, Busy

(* A query starts: the policy in force is the first of its history. *)
LEMMA BeginStep ==
  ASSUME RowScopeAssumption, RowInv, NEW q \in Query, Begin(q)
  PROVE  RowInv'
<1>1. InForce(q.tenant, q.table) \in Policy
  BY QueryTyped, InForceTyped DEF RowInv, TypeOK
<1>2. /\ pc = "idle" /\ pc' = "select" /\ query' = q /\ since' = {InForce(q.tenant, q.table)}
      /\ UNCHANGED <<settings, members, policies, rows, known, shown, changes, faults>>
  BY DEF Begin, Goto, tables
<1>3. shown' = {}
  BY <1>2 DEF RowInv, NothingYet
<1>4. TypeOK'
  BY <1>1, <1>2 DEF RowInv, TypeOK, PC, Busy
<1>5. SinceCoversNow'
  BY <1>2 DEF SinceCoversNow, InForce
<1>6. QED
  BY <1>2, <1>3, <1>4, <1>5 DEF RowInv, NothingYet, ForeignRowsExplained, OwnRowsShown

(* The rows are selected; a job of the tenant is answered at once. *)
LEMMA SelectStep ==
  ASSUME RowScopeAssumption, RowInv, NEW ok \in BOOLEAN, Select(ok)
  PROVE  RowInv'
<1>1. /\ pc = "select" /\ faults' \in Nat
      /\ UNCHANGED <<settings, members, policies, query, known, since, changes>>
  BY DEF Select, Goto, Read, tables, RowInv, TypeOK
<1>2. /\ query.owner \in Tenants /\ query.tenant \in Tenants /\ shown = {}
      /\ InForce(query.tenant, query.table) \in since
  BY <1>1, QueryTyped DEF RowInv, TypeOK, SinceCoversNow, NothingYet, Busy
<1>3. SinceCoversNow'
  BY <1>1, <1>2 DEF SinceCoversNow, InForce
<1>4. CASE query.kind # "job" /\ pc' = "members" /\ shown' = shown
           /\ rows' \subseteq {query.tenant, NoTenant}
  BY <1>1, <1>2, <1>3, <1>4
     DEF RowInv, TypeOK, NothingYet, ForeignRowsExplained, OwnRowsShown, PC, Busy
<1>5. CASE query.owner = query.tenant /\ pc' = "answered" /\ rows' = {query.owner}
           /\ shown' = {query.owner}
  BY <1>1, <1>2, <1>3, <1>5
     DEF RowInv, TypeOK, NothingYet, ForeignRowsExplained, OwnRowsShown, PC, Busy
<1>6. CASE pc' = "fallback" /\ UNCHANGED <<rows, shown>>
  BY <1>1, <1>2, <1>3, <1>6
     DEF RowInv, TypeOK, NothingYet, ForeignRowsExplained, OwnRowsShown, PC, Busy
<1>7. QED BY <1>4, <1>5, <1>6 DEF Select, Goto

(* The job is selected in all tenants. *)
LEMMA SelectAnywhereStep ==
  ASSUME RowScopeAssumption, RowInv, NEW ok \in BOOLEAN, SelectAnywhere(ok)
  PROVE  RowInv'
<1>1. /\ pc = "fallback" /\ pc' \in {"members", "absent"} /\ faults' \in Nat
      /\ rows' \subseteq {query.owner}
      /\ UNCHANGED <<settings, members, policies, query, known, shown, since, changes>>
  BY DEF SelectAnywhere, Goto, Read, tables, RowInv, TypeOK
<1>2. query.owner \in Tenants /\ shown = {}
  BY <1>1, QueryTyped DEF RowInv, TypeOK, NothingYet
<1>3. SinceCoversNow'
  BY <1>1 DEF RowInv, SinceCoversNow, InForce, Busy
<1>4. QED
  BY <1>1, <1>2, <1>3
     DEF RowInv, TypeOK, NothingYet, ForeignRowsExplained, OwnRowsShown, PC, Busy

(* The memberships are read. *)
LEMMA ReadMembersStep ==
  ASSUME RowScopeAssumption, RowInv, NEW ok \in BOOLEAN, ReadMembers(ok)
  PROVE  RowInv'
<1>1. /\ pc = "members" /\ pc' = "policy" /\ faults' \in Nat
      /\ UNCHANGED <<settings, members, policies, query, rows, shown, since, changes>>
  BY DEF ReadMembers, Goto, Read, tables, RowInv, TypeOK
<1>2. known' \subseteq Tenants
  <2>1. query.by.actor \in Actors
    BY QueryTyped DEF RowInv, TypeOK, RowScopeAssumption, Token
  <2>2. members[query.by.actor] \subseteq Tenants
    BY <2>1 DEF RowInv, TypeOK
  <2>3. QED BY <2>2, FallbackTyped DEF ReadMembers, Active
<1>3. SinceCoversNow'
  BY <1>1 DEF RowInv, SinceCoversNow, InForce, Busy
<1>4. QED
  BY <1>1, <1>2, <1>3
     DEF RowInv, TypeOK, NothingYet, ForeignRowsExplained, OwnRowsShown, PC, Busy

(* The decision, by a policy of the query's history or by a default.       *)
LEMMA ReadPolicyStep ==
  ASSUME RowScopeAssumption, RowInv, NEW ok \in BOOLEAN, ReadPolicy(ok)
  PROVE  RowInv'
<1> DEFINE p == IF ok THEN InForce(query.tenant, query.table) ELSE DefaultPolicy(query.table)
<1>1. /\ pc = "policy" /\ faults' \in Nat /\ Answer(p)
      /\ UNCHANGED <<settings, members, policies, query, rows, known, since, changes>>
  BY DEF ReadPolicy, Read, tables, RowInv, TypeOK
<1>2. InForce(query.tenant, query.table) \in since /\ shown = {}
      /\ query.tenant \in Tenants /\ query.tenant # NoTenant
  BY <1>1, QueryTyped DEF RowInv, TypeOK, SinceCoversNow, NothingYet, Busy, RowScopeAssumption
<1>3. CASE ~Allowed(query.by, query.asked, p, known)
  <2>1. pc' = "denied" /\ shown' = {}
    BY <1>1, <1>2, <1>3 DEF Answer
  <2>2. query.asked # query.by.home
    BY <1>3 DEF Allowed
  <2>3. QED
    BY <1>1, <2>1, <2>2 DEF RowInv, TypeOK, SinceCoversNow, NothingYet, ForeignRowsExplained,
                            OwnRowsShown, PC, Busy
<1>4. CASE Allowed(query.by, query.asked, p, known)
  <2>1. pc' = "answered" /\ shown' = {o \in rows : Shows(o, query.tenant, p)}
    BY <1>1, <1>4 DEF Answer
  <2>2. Shows(query.tenant, query.tenant, p)
    BY <1>2 DEF Shows, Visible
  <2>3. ASSUME NEW o \in shown' \ {query.tenant, NoTenant}
        PROVE  \E x \in since : Relaxed(x) \/ (x.global /\ o = Default)
    <3>1. Relaxed(p) \/ (p.global /\ o = Default)
      BY <2>1, <2>3 DEF Shows, Visible
    <3>2. ok
      BY <3>1, DefaultTyped DEF Relaxed
    <3>3. p \in since
      BY <1>2, <3>2
    <3>4. QED BY <3>1, <3>3
  <2>4. ForeignRowsExplained'
    BY <1>1, <2>3 DEF ForeignRowsExplained, Relaxed
  <2>5. OwnRowsShown'
    BY <1>1, <2>1, <2>2 DEF OwnRowsShown
  <2>6. TypeOK'
    BY <1>1, <2>1 DEF RowInv, TypeOK, PC
  <2>7. QED
    BY <1>1, <2>1, <2>4, <2>5, <2>6 DEF RowInv, SinceCoversNow, NothingYet, Busy
<1>5. QED BY <1>3, <1>4

(* The end of a query and a restart leave nothing behind. *)
LEMMA ForgetStep ==
  ASSUME RowScopeAssumption, RowInv, Forget, settings' \in Settings,
         UNCHANGED <<members, policies, faults>>, changes' \in Nat
  PROVE  RowInv'
BY NoQueryTyped DEF Forget, RowInv, TypeOK, SinceCoversNow, NothingYet, ForeignRowsExplained,
                    OwnRowsShown, PC, Busy

(* Administrators: the history takes in what they put in force. *)
LEMMA ObserveStep ==
  ASSUME RowScopeAssumption, RowInv, Observe, changes' \in Nat,
         members' \in [Actors -> SUBSET Tenants],
         policies' \in [Tenants -> [Tables -> Policy \cup {NoPolicy}]],
         UNCHANGED <<settings, pc, query, rows, known, shown, faults>>
  PROVE  RowInv'
<1>1. InForce(query.tenant, query.table)' \in Policy
  <2>1. query.tenant \in Tenants /\ query.table \in Tables
    BY QueryTyped DEF RowInv, TypeOK
  <2>2. policies'[query.tenant][query.table] \in Policy \cup {NoPolicy}
    BY <2>1
  <2>3. QED BY <2>2, DefaultTyped DEF InForce, DefaultPolicy
<1>2. /\ since \subseteq since' /\ since' \subseteq Policy
      /\ pc \in Busy => InForce(query.tenant, query.table)' \in since'
  BY <1>1 DEF Observe, RowInv, TypeOK
<1>3. TypeOK'
  BY <1>2 DEF RowInv, TypeOK
<1>4. SinceCoversNow'
  BY <1>2 DEF SinceCoversNow
<1>5. NothingYet' /\ OwnRowsShown'
  BY DEF RowInv, NothingYet, OwnRowsShown
<1>6. ForeignRowsExplained'
  BY <1>2 DEF RowInv, ForeignRowsExplained, Relaxed
<1>7. QED BY <1>3, <1>4, <1>5, <1>6 DEF RowInv

-----------------------------------------------------------------------------
(* The inductive invariant of the row scope: the history of a query covers *)
(* the present, nothing is shown before the answer, and an answer was      *)
(* explained when it was given.                                            *)
THEOREM RowScopeInvariant == Spec => []RowInv
<1>1. RowScopeAssumption
  BY RowScopeAssumption
<1>2. RowInv /\ [Next]_vars => RowInv'
  <2> SUFFICES ASSUME RowInv, [Next]_vars PROVE RowInv'
    OBVIOUS
  <2>1. CASE \E q \in Query : Begin(q)
    BY <1>1, <2>1, BeginStep
  <2>2. CASE Return
    BY <1>1, <2>2, ForgetStep DEF Return, tables, RowInv, TypeOK
  <2>3. CASE \E ok \in BOOLEAN : Select(ok) \/ SelectAnywhere(ok) \/ ReadMembers(ok)
                                 \/ ReadPolicy(ok)
    BY <1>1, <2>3, SelectStep, SelectAnywhereStep, ReadMembersStep, ReadPolicyStep
  <2>4. ASSUME NEW a \in Actors, NEW M \in SUBSET Tenants, SetMembership(a, M)
        PROVE  RowInv'
    <3>1. members' \in [Actors -> SUBSET Tenants] /\ policies' = policies /\ changes' \in Nat
      BY <2>4 DEF SetMembership, Change, RowInv, TypeOK
    <3>2. policies' \in [Tenants -> [Tables -> Policy \cup {NoPolicy}]]
      BY <3>1 DEF RowInv, TypeOK
    <3>3. QED BY <1>1, <2>4, <3>1, <3>2, ObserveStep DEF SetMembership
  <2>5. ASSUME NEW t \in Tenants, NEW tb \in Tables, NEW p \in Offered, SetPolicy(t, tb, p)
        PROVE  RowInv'
    <3>1. /\ policies' = [policies EXCEPT ![t][tb] = p] /\ members' = members
          /\ changes' \in Nat
      BY <2>5 DEF SetPolicy, Change, RowInv, TypeOK
    <3>2. p \in Policy
      BY <1>1 DEF RowScopeAssumption
    <3>3. policies' \in [Tenants -> [Tables -> Policy \cup {NoPolicy}]]
      BY <3>1, <3>2 DEF RowInv, TypeOK
    <3>4. members' \in [Actors -> SUBSET Tenants]
      BY <3>1 DEF RowInv, TypeOK
    <3>5. QED BY <1>1, <2>5, <3>1, <3>3, <3>4, ObserveStep DEF SetPolicy
  <2>6. CASE Restart
    BY <1>1, <2>6, ForgetStep DEF Restart, Change, RowInv, TypeOK
  <2>7. CASE UNCHANGED vars
    BY <2>7 DEF vars, tables, locals, RowInv, TypeOK, SinceCoversNow, NothingYet,
                ForeignRowsExplained, OwnRowsShown, InForce, Relaxed
  <2>8. QED BY <2>1, <2>2, <2>3, <2>4, <2>5, <2>6, <2>7 DEF Next
<1>3. QED BY <1>1, <1>2, InitInv, PTL DEF Spec

(* Every reachable state is well typed, and no row is shown that was not   *)
(* selected.                                                               *)
THEOREM RowTypeOK == Spec => []TypeOK
BY RowScopeInvariant, PTL DEF RowInv

(* A foreign row is shown only by a policy of the own tenant that was in   *)
(* force while the query ran: the filter of tenant_row.py, behind the      *)
(* unscoped SELECT of _fetch_job_status_payload.                           *)
THEOREM RowForeignExplained == Spec => []ForeignRowsExplained
BY RowScopeInvariant, PTL DEF RowInv

(* The filter takes nothing from the own tenant. *)
THEOREM RowOwnShown == Spec => []OwnRowsShown
BY RowScopeInvariant, PTL DEF RowInv

(* The two copies of the decision in tenant_row.py, in the report and in   *)
(* the enforcing function, agree for every policy, role and membership.    *)
THEOREM RowReportsAgree == Spec => []ReportsAgree
<1>1. ReportsAgree
  <2> SUFFICES ASSUME NEW by \in Tokens, NEW t \in Tenants
               PROVE  /\ \A tb \in Tables :
                           ReportReason(by, t, tb) = "row_tenant_match_required"
                             <=> ~Allowed(by, t, InForce(t, tb), Active(by.actor))
                      /\ CoverageReported(by, t, t) <=>
                           \A tb \in Targets :
                             ~(ReportReason(by, t, tb) = "row_tenant_match_required")
    BY DEF ReportsAgree
  <2>1. \A tb : ReportReason(by, t, tb) = "row_tenant_match_required"
                  <=> ~Allowed(by, t, InForce(t, tb), Active(by.actor))
    BY DEF ReportReason, Allowed, Overrides, Waived, Enforced
  <2>2. QED BY <2>1 DEF CoverageReported, ScopeReported
<1>2. QED BY <1>1, PTL
=============================================================================
