--------------------------- MODULE TenantProofs ---------------------------
(***************************************************************************)
(* Who is admitted, for any number of requests, actors, tenants, routes    *)
(* and policies.  A property of an admitted request follows from what the  *)
(* request had established when it passed the first gate (PassedFirst) and *)
(* from the policy it has read (ReadInForce); both last because history    *)
(* only grows, and the history covers the present while a request is on    *)
(* its way (SinceCoversNow).                                               *)
(***************************************************************************)
EXTENDS TenantAccess, TLAPS

(* What the history of a request on its way says of this moment.           *)
SinceCoversNow ==
  \A r \in Requests : pc[r] \in Busy =>
    /\ Member(req[r].actor, req[r].tenant) => since[r].held
    /\ ~Member(req[r].actor, req[r].tenant) => since[r].lapsed
    /\ InForce(req[r].tenant, req[r].route) \in since[r].policies

(* A request behind the first gate had a reason to pass it.                *)
PassedFirst ==
  \A r \in Requests :
    pc[r] \in {"policy", "decide", "admitted"} /\ Crosses(r) /\ ~MayOverride(r) =>
      \/ since[r].held
      \/ req[r].actor \in Bootstrap /\ "members" \in blind[r]

(* A policy that was read without a fault was in force since the arrival.  *)
ReadInForce ==
  \A r \in Requests :
    pc[r] = "decide" /\ "policy" \notin blind[r] => read[r] \in since[r].policies

AccessInv ==
  TypeOK /\ SinceCoversNow /\ PassedFirst /\ ReadInForce
    /\ BoundRoutesNeedMembership /\ MembersGetIn

-----------------------------------------------------------------------------
(* The defaults of the code are policies. *)
LEMMA DefaultTyped == \A g : DefaultPolicy(g) \in Policy
BY DEF DefaultPolicy, Policy

(* What is in force for a tenant and a route is a policy. *)
LEMMA InForceTyped ==
  ASSUME TenantAssumption, policies \in [Tenants -> [Routes -> Policy \cup {NoPolicy}]],
         NEW t \in Tenants, NEW g \in Routes
  PROVE  InForce(t, g) \in Policy
<1>1. policies[t][g] \in Policy \cup {NoPolicy} /\ policies[t]["system"] \in Policy \cup {NoPolicy}
  BY DEF TenantAssumption
<1>2. QED BY <1>1, DefaultTyped DEF InForce, StoredOnly

(* The history of an arriving request is well typed. *)
LEMMA SeenTyped ==
  ASSUME TenantAssumption, TypeOK, NEW q \in Request
  PROVE  Seen(q) \in [held : BOOLEAN, lapsed : BOOLEAN, policies : SUBSET Policy]
<1>1. InForce(q.tenant, q.route) \in Policy
  BY InForceTyped DEF TypeOK, Request
<1>2. QED BY <1>1 DEF Seen, Member

(* The first state. *)
LEMMA InitInv == TenantAssumption /\ Init => AccessInv
<1> SUFFICES ASSUME TenantAssumption, Init PROVE AccessInv OBVIOUS
<1> USE DEF Init
<1>1. Request # {}
  <2>1. PICK a \in Actors : TRUE BY DEF TenantAssumption
  <2>2. [actor |-> a, home |-> Default, role |-> "admin", tenant |-> Default,
         route |-> "system"] \in Request
    BY DEF TenantAssumption, Request, Roles
  <2>3. QED BY <2>2
<1>2. (CHOOSE q \in Request : TRUE) \in Request
  BY <1>1
<1>3. TypeOK
  <2>1. policies \in [Tenants -> [Routes -> Policy \cup {NoPolicy}]]
    BY DefaultTyped
  <2>2. \A r \in Requests : pc[r] = "idle"
    OBVIOUS
  <2>3. membership \in [Actors -> [Tenants -> {"none", "active", "inactive"}]]
    OBVIOUS
  <2>4. pc \in [Requests -> PC] /\ settings \in Settings
    BY DEF PC, Busy
  <2>5. req \in [Requests -> Request]
    BY <1>2
  <2>6. since \in [Requests -> [held : BOOLEAN, lapsed : BOOLEAN, policies : SUBSET Policy]]
    OBVIOUS
  <2>7. QED BY <2>1, <2>2, <2>3, <2>4, <2>5, <2>6 DEF TypeOK
<1>4. QED
  BY <1>3 DEF AccessInv, SinceCoversNow, PassedFirst, ReadInForce,
              BoundRoutesNeedMembership, MembersGetIn, Busy

-----------------------------------------------------------------------------
(* A step of the gates: the tables, the requests and their history stay.   *)
Frozen == UNCHANGED <<settings, tables, req, since>>

LEMMA FrozenFacts ==
  ASSUME Frozen
  PROVE  /\ \A a, t : Member(a, t)' <=> Member(a, t)
         /\ \A t, g : InForce(t, g)' = InForce(t, g)
         /\ \A r : Crosses(r)' <=> Crosses(r)
         /\ \A r : MayOverride(r)' <=> MayOverride(r)
         /\ \A r, p : Overrides(r, p)' <=> Overrides(r, p)
         /\ \A p : Waived(p)' <=> Waived(p)
BY DEF Frozen, tables, Member, InForce, StoredOnly, DefaultPolicy, Crosses, MayOverride,
       Overrides, Waived

(* A request that is on its way after a step of the gates was before. *)
LEMMA FrozenCovers ==
  ASSUME Frozen, SinceCoversNow, \A r \in Requests : pc'[r] \in Busy => pc[r] \in Busy
  PROVE  SinceCoversNow'
<1>1. req' = req /\ since' = since
  BY DEF Frozen
<1>2. QED BY <1>1, FrozenFacts DEF SinceCoversNow

(* A read that raises is remembered, and one that answers changes nothing. *)
LEMMA ReadGrows ==
  ASSUME TypeOK, NEW r \in Requests, NEW w \in {"members", "policy"}, NEW ok \in BOOLEAN,
         Read(r, w, ok)
  PROVE  /\ blind' \in [Requests -> SUBSET {"members", "policy"}]
         /\ faults' \in Nat
         /\ \A s \in Requests : blind[s] \subseteq blind'[s]
         /\ \A s \in Requests \ {r} : blind'[s] = blind[s]
         /\ ok => blind'[r] = blind[r]
         /\ ~ok => blind'[r] = blind[r] \cup {w}
<1>1. CASE ok
  BY <1>1 DEF Read, TypeOK
<1>2. CASE ~ok
  <2>1. faults' = faults + 1 /\ blind' = [blind EXCEPT ![r] = @ \cup {w}]
    BY <1>2 DEF Read
  <2>2. blind \in [Requests -> SUBSET {"members", "policy"}] /\ faults \in Nat
    BY DEF TypeOK
  <2>3. /\ blind' \in [Requests -> SUBSET {"members", "policy"}] /\ faults' \in Nat
    BY <2>1, <2>2
  <2>4. \A s \in Requests : blind'[s] = IF s = r THEN blind[r] \cup {w} ELSE blind[s]
    BY <2>1, <2>2
  <2>5. QED BY <1>2, <2>3, <2>4
<1>3. QED BY <1>1, <1>2

(* An arriving request. *)
LEMMA ArriveStep ==
  ASSUME TenantAssumption, AccessInv, NEW r \in Requests, NEW q \in Request, Arrive(r, q)
  PROVE  AccessInv'
<1> USE DEF AccessInv
<1>1. /\ pc' = [pc EXCEPT ![r] = "resolve"] /\ req' = [req EXCEPT ![r] = q]
      /\ read' = [read EXCEPT ![r] = NoPolicy] /\ blind' = [blind EXCEPT ![r] = {}]
      /\ since' = [since EXCEPT ![r] = Seen(q)]
      /\ UNCHANGED <<settings, tables, changes, faults>>
  BY DEF Arrive
<1>2. /\ \A a, t : Member(a, t)' <=> Member(a, t)
      /\ \A t, g : InForce(t, g)' = InForce(t, g)
      /\ \A p : Waived(p)' <=> Waived(p)
  BY <1>1 DEF tables, Member, InForce, StoredOnly, DefaultPolicy, Waived
<1>3. \A s \in Requests \ {r} :
        /\ pc'[s] = pc[s] /\ req'[s] = req[s] /\ read'[s] = read[s]
        /\ blind'[s] = blind[s] /\ since'[s] = since[s]
  BY <1>1 DEF TypeOK
<1>4. pc'[r] = "resolve" /\ req'[r] = q /\ since'[r] = Seen(q)
  BY <1>1 DEF TypeOK
<1>5. \A s \in Requests \ {r} :
        /\ Crosses(s)' <=> Crosses(s)
        /\ MayOverride(s)' <=> MayOverride(s)
        /\ \A p : Overrides(s, p)' <=> Overrides(s, p)
  BY <1>1, <1>3 DEF Crosses, MayOverride, Overrides
<1>6. TypeOK'
  BY <1>1, <1>3, <1>4, SeenTyped DEF TypeOK, PC, Busy, tables
<1>7. SinceCoversNow'
  <2> SUFFICES ASSUME NEW s \in Requests, pc'[s] \in Busy
               PROVE  /\ Member(req[s].actor, req[s].tenant)' => since'[s].held
                      /\ ~Member(req[s].actor, req[s].tenant)' => since'[s].lapsed
                      /\ InForce(req[s].tenant, req[s].route)' \in since'[s].policies
    BY DEF SinceCoversNow
  <2>1. CASE s = r
    <3>1. /\ since'[s].held = Member(q.actor, q.tenant)
          /\ since'[s].lapsed = ~Member(q.actor, q.tenant)
          /\ since'[s].policies = {InForce(q.tenant, q.route)}
      BY <2>1, <1>4 DEF Seen
    <3>2. membership' = membership /\ req'[s] = q
      BY <1>1, <1>4, <2>1 DEF tables
    <3>3. InForce(req[s].tenant, req[s].route)' = InForce(q.tenant, q.route)
      BY <3>2, <1>2
    <3>4. QED BY <3>1, <3>2, <3>3 DEF Member
  <2>2. CASE s # r
    BY <2>2, <1>2, <1>3 DEF SinceCoversNow
  <2>3. QED BY <2>1, <2>2
<1>8. PassedFirst' /\ ReadInForce'
  BY <1>3, <1>4, <1>5 DEF PassedFirst, ReadInForce
<1>9. BoundRoutesNeedMembership' /\ MembersGetIn'
  BY <1>2, <1>3, <1>4, <1>5 DEF BoundRoutesNeedMembership, MembersGetIn
<1>10. QED BY <1>6, <1>7, <1>8, <1>9

(* The first gate. *)
LEMMA ResolveStep ==
  ASSUME TenantAssumption, AccessInv, NEW r \in Requests, Resolve(r)
  PROVE  AccessInv'
<1> USE DEF AccessInv
<1>1. Frozen /\ UNCHANGED <<read, changes>> /\ pc[r] = "resolve"
  BY DEF Resolve, Frozen, Goto
<1>2. PICK to \in {"policy", "denied"} : pc' = [pc EXCEPT ![r] = to]
  BY DEF Resolve, Goto
<1>3. pc'[r] \in {"policy", "denied"} /\ \A s \in Requests \ {r} : pc'[s] = pc[s]
  BY <1>2 DEF TypeOK
<1>4. /\ blind' \in [Requests -> SUBSET {"members", "policy"}] /\ faults' \in Nat
      /\ \A s \in Requests \ {r} : blind'[s] = blind[s]
  <2>1. CASE UNCHANGED <<faults, blind>>
    BY <2>1 DEF TypeOK
  <2>2. CASE \E ok \in BOOLEAN : Read(r, "members", ok)
    BY <2>2, ReadGrows
  <2>3. QED BY <2>1, <2>2 DEF Resolve
<1>5. /\ \A s \in Requests : req'[s] = req[s] /\ since'[s] = since[s] /\ read'[s] = read[s]
      /\ UNCHANGED <<settings, membership, policies, changes>>
  BY <1>1 DEF Frozen, tables
<1>6. TypeOK'
  BY <1>1, <1>2, <1>3, <1>4, <1>5 DEF TypeOK, PC, Busy, Frozen
<1>7. SinceCoversNow'
  BY <1>1, <1>3, FrozenCovers DEF Busy
<1>8. pc'[r] = "policy" /\ Crosses(r) /\ ~MayOverride(r) =>
        \/ since[r].held
        \/ req[r].actor \in Bootstrap /\ "members" \in blind'[r]
  <2> SUFFICES ASSUME pc'[r] = "policy", Crosses(r), ~MayOverride(r)
               PROVE  \/ since[r].held
                      \/ req[r].actor \in Bootstrap /\ "members" \in blind'[r]
    OBVIOUS
  <2>1. PICK ok \in BOOLEAN :
          /\ Read(r, "members", ok)
          /\ IF \/ ok /\ req[r].tenant \in Active(req[r].actor)
                \/ ~ok /\ Fallback(req[r].actor) # {}
             THEN Goto(r, "resolve", "policy") ELSE Goto(r, "resolve", "denied")
    BY DEF Resolve
  <2>2. \/ ok /\ req[r].tenant \in Active(req[r].actor)
        \/ ~ok /\ Fallback(req[r].actor) # {}
    <3>1. ~Goto(r, "resolve", "denied")
      BY DEF Goto, TypeOK
    <3>2. QED BY <2>1, <3>1
  <2>3. CASE ok /\ req[r].tenant \in Active(req[r].actor)
    <3>1. Member(req[r].actor, req[r].tenant)
      BY <2>3 DEF Active, Member
    <3>2. QED BY <3>1, <1>1 DEF SinceCoversNow, Busy
  <2>4. CASE ~ok /\ Fallback(req[r].actor) # {}
    <3>1. req[r].actor \in Bootstrap
      BY <2>4 DEF Fallback
    <3>2. "members" \in blind'[r]
      BY <2>1, <2>4, ReadGrows
    <3>3. QED BY <3>1, <3>2
  <2>5. QED BY <2>2, <2>3, <2>4
<1>9. pc'[r] = "denied" =>
        Crosses(r) /\ (since[r].lapsed \/ "members" \in blind'[r])
  <2> SUFFICES ASSUME pc'[r] = "denied"
               PROVE  Crosses(r) /\ (since[r].lapsed \/ "members" \in blind'[r])
    OBVIOUS
  <2>1. ~Goto(r, "resolve", "policy")
    BY DEF Goto, TypeOK
  <2>2. Crosses(r)
    BY <2>1 DEF Resolve
  <2>3. PICK ok \in BOOLEAN :
          /\ Read(r, "members", ok)
          /\ ~(ok /\ req[r].tenant \in Active(req[r].actor))
    BY <2>1 DEF Resolve
  <2>4. CASE ok
    <3>1. ~Member(req[r].actor, req[r].tenant)
      BY <2>3, <2>4 DEF Active, Member, TypeOK, Request
    <3>2. QED BY <3>1, <2>2, <1>1 DEF SinceCoversNow, Busy
  <2>5. CASE ~ok
    BY <2>2, <2>3, <2>5, ReadGrows
  <2>6. QED BY <2>4, <2>5
<1>10. PassedFirst'
  <2> SUFFICES ASSUME NEW s \in Requests, pc'[s] \in {"policy", "decide", "admitted"},
                      Crosses(s), ~MayOverride(s)
               PROVE  \/ since[s].held
                      \/ req[s].actor \in Bootstrap /\ "members" \in blind'[s]
    BY <1>1, <1>5, FrozenFacts DEF PassedFirst
  <2>1. CASE s = r
    BY <2>1, <1>3, <1>8
  <2>2. CASE s # r
    BY <2>2, <1>3, <1>4 DEF PassedFirst
  <2>3. QED BY <2>1, <2>2
<1>11. ReadInForce' /\ BoundRoutesNeedMembership'
  BY <1>1, <1>3, <1>4, <1>5, FrozenFacts DEF ReadInForce, BoundRoutesNeedMembership
<1>12. MembersGetIn'
  <2> SUFFICES ASSUME NEW s \in Requests, pc'[s] = "denied"
               PROVE  Crosses(s) /\ (since[s].lapsed \/ "members" \in blind'[s])
    BY <1>1, <1>5, FrozenFacts DEF MembersGetIn
  <2>1. CASE s = r
    BY <2>1, <1>9
  <2>2. CASE s # r
    BY <2>2, <1>3, <1>4 DEF MembersGetIn
  <2>3. QED BY <2>1, <2>2
<1>13. QED BY <1>6, <1>7, <1>10, <1>11, <1>12

(* The second gate reads the policy. *)
LEMMA ReadPolicyStep ==
  ASSUME TenantAssumption, AccessInv, NEW r \in Requests, ReadPolicy(r)
  PROVE  AccessInv'
<1> USE DEF AccessInv
<1>1. /\ Frozen /\ UNCHANGED changes
      /\ pc[r] = "policy" /\ pc' = [pc EXCEPT ![r] = "decide"]
  BY DEF ReadPolicy, Frozen, Goto
<1>2. pc'[r] = "decide" /\ \A s \in Requests \ {r} : pc'[s] = pc[s]
  BY <1>1 DEF TypeOK
<1>3. PICK ok \in BOOLEAN :
        /\ Read(r, "policy", ok)
        /\ read' = [read EXCEPT ![r] = IF ok THEN InForce(req[r].tenant, req[r].route)
                                       ELSE DefaultPolicy(req[r].route)]
  BY DEF ReadPolicy
<1>4. /\ blind' \in [Requests -> SUBSET {"members", "policy"}] /\ faults' \in Nat
      /\ \A s \in Requests \ {r} : blind'[s] = blind[s]
      /\ blind[r] \subseteq blind'[r]
      /\ ~ok => "policy" \in blind'[r]
  BY <1>3, ReadGrows
<1>5. /\ \A s \in Requests : req'[s] = req[s] /\ since'[s] = since[s]
      /\ UNCHANGED <<settings, membership, policies, changes>>
  BY <1>1 DEF Frozen, tables
<1>6. /\ read' \in [Requests -> Policy \cup {NoPolicy}] /\ read'[r] \in Policy
      /\ \A s \in Requests \ {r} : read'[s] = read[s]
      /\ ok => read'[r] = InForce(req[r].tenant, req[r].route)
  <2>1. InForce(req[r].tenant, req[r].route) \in Policy
    BY InForceTyped DEF TypeOK, Request
  <2>2. DefaultPolicy(req[r].route) \in Policy
    BY DefaultTyped
  <2>3. read \in [Requests -> Policy \cup {NoPolicy}]
    BY DEF TypeOK
  <2>4. QED BY <1>3, <2>1, <2>2, <2>3
<1>7. TypeOK'
  BY <1>1, <1>2, <1>4, <1>5, <1>6 DEF TypeOK, PC, Busy, Frozen
<1>8. SinceCoversNow'
  BY <1>1, <1>2, FrozenCovers DEF Busy
<1>9. PassedFirst'
  BY <1>1, <1>2, <1>4, <1>5, FrozenFacts DEF PassedFirst
<1>10. ReadInForce'
  <2> SUFFICES ASSUME NEW s \in Requests, pc'[s] = "decide", "policy" \notin blind'[s]
               PROVE  read'[s] \in since[s].policies
    BY <1>5 DEF ReadInForce
  <2>1. CASE s = r
    BY <2>1, <1>1, <1>4, <1>6 DEF SinceCoversNow, Busy
  <2>2. CASE s # r
    BY <2>2, <1>2, <1>4, <1>6 DEF ReadInForce
  <2>3. QED BY <2>1, <2>2
<1>11. BoundRoutesNeedMembership' /\ MembersGetIn'
  BY <1>1, <1>2, <1>4, <1>5, FrozenFacts DEF BoundRoutesNeedMembership, MembersGetIn
<1>12. QED BY <1>7, <1>8, <1>9, <1>10, <1>11

(* The second gate reads the memberships and decides. *)
LEMMA DecideStep ==
  ASSUME TenantAssumption, AccessInv, NEW r \in Requests, Decide(r)
  PROVE  AccessInv'
<1> USE DEF AccessInv
<1>1. PICK ok \in BOOLEAN :
        /\ Read(r, "members", ok)
        /\ LET members == IF ok THEN Active(req[r].actor) ELSE Fallback(req[r].actor)
           IN IF Allowed(r, members) THEN Goto(r, "decide", "admitted")
                                     ELSE Goto(r, "decide", "denied")
  BY DEF Decide
<1> DEFINE members == IF ok THEN Active(req[r].actor) ELSE Fallback(req[r].actor)
<1>2. Frozen /\ UNCHANGED <<read, changes>> /\ pc[r] = "decide"
  BY DEF Decide, Frozen
<1>3. /\ blind' \in [Requests -> SUBSET {"members", "policy"}] /\ faults' \in Nat
      /\ \A s \in Requests \ {r} : blind'[s] = blind[s]
      /\ blind[r] \subseteq blind'[r]
      /\ ~ok => "members" \in blind'[r]
  BY <1>1, ReadGrows
<1>4. PICK to \in {"admitted", "denied"} : pc' = [pc EXCEPT ![r] = to]
  BY <1>1 DEF Goto
<1>5. pc'[r] \in {"admitted", "denied"} /\ \A s \in Requests \ {r} : pc'[s] = pc[s]
  BY <1>4 DEF TypeOK
<1>6. /\ pc'[r] = "admitted" => Allowed(r, members)
      /\ pc'[r] = "denied" => ~Allowed(r, members)
  BY <1>1 DEF Goto, TypeOK
<1>7. /\ \A s \in Requests : req'[s] = req[s] /\ since'[s] = since[s] /\ read'[s] = read[s]
      /\ UNCHANGED <<settings, membership, policies, changes>>
  BY <1>2 DEF Frozen, tables
<1>8. TypeOK'
  BY <1>2, <1>3, <1>4, <1>5, <1>7 DEF TypeOK, PC, Busy, Frozen
<1>9. SinceCoversNow'
  BY <1>2, <1>5, FrozenCovers DEF Busy
<1>10. PassedFirst' /\ ReadInForce'
  BY <1>2, <1>3, <1>5, <1>7, FrozenFacts DEF PassedFirst, ReadInForce
<1>11. req[r].tenant \in members =>
         \/ since[r].held
         \/ /\ req[r].actor \in Bootstrap /\ req[r].tenant = Default
            /\ "members" \in blind'[r]
  <2>1. CASE ok
    BY <2>1, <1>2 DEF SinceCoversNow, Busy, Active, Member
  <2>2. CASE ~ok
    BY <2>2, <1>3 DEF Fallback
  <2>3. QED BY <2>1, <2>2
<1>12. req[r].tenant \notin members => since[r].lapsed \/ "members" \in blind'[r]
  <2>1. CASE ok
    BY <2>1, <1>2 DEF SinceCoversNow, Busy, Active, Member, TypeOK, Request
  <2>2. CASE ~ok
    BY <2>2, <1>3
  <2>3. QED BY <2>1, <2>2
<1>13. BoundRoutesNeedMembership'
  <2> SUFFICES ASSUME NEW s \in Requests, pc'[s] = "admitted", Crosses(s),
                      "policy" \notin blind'[s],
                      \A p \in since[s].policies : ~Overrides(s, p) /\ ~Waived(p)
               PROVE  \/ since[s].held
                      \/ /\ req[s].actor \in Bootstrap /\ req[s].tenant = Default
                         /\ "members" \in blind'[s]
    BY <1>2, <1>7, FrozenFacts DEF BoundRoutesNeedMembership
  <2>1. CASE s = r
    <3>1. read[r] \in since[r].policies
      BY <2>1, <1>2, <1>3 DEF ReadInForce
    <3>2. ~Overrides(r, read[r]) /\ ~Waived(read[r])
      BY <2>1, <3>1
    <3>3. req[r].tenant \in members
      BY <2>1, <3>2, <1>6 DEF Allowed
    <3>4. QED BY <2>1, <3>3, <1>11
  <2>2. CASE s # r
    BY <2>2, <1>3, <1>5 DEF BoundRoutesNeedMembership
  <2>3. QED BY <2>1, <2>2
<1>14. MembersGetIn'
  <2> SUFFICES ASSUME NEW s \in Requests, pc'[s] = "denied"
               PROVE  Crosses(s) /\ (since[s].lapsed \/ "members" \in blind'[s])
    BY <1>2, <1>7, FrozenFacts DEF MembersGetIn
  <2>1. CASE s = r
    BY <2>1, <1>6, <1>12 DEF Allowed
  <2>2. CASE s # r
    BY <2>2, <1>3, <1>5 DEF MembersGetIn
  <2>3. QED BY <2>1, <2>2
<1>15. QED BY <1>8, <1>9, <1>10, <1>13, <1>14

(* A write of an administrator: the tables change under the requests. *)
LEMMA ChangeStep ==
  ASSUME TenantAssumption, AccessInv, Observe,
         UNCHANGED <<settings, pc, req, read, blind, faults>>,
         changes' = changes + 1,
         membership' \in [Actors -> [Tenants -> {"none", "active", "inactive"}]],
         policies' \in [Tenants -> [Routes -> Policy \cup {NoPolicy}]]
  PROVE  AccessInv'
<1> USE DEF AccessInv
<1>1. /\ \A s : Crosses(s)' <=> Crosses(s)
      /\ \A s : MayOverride(s)' <=> MayOverride(s)
      /\ \A s, p : Overrides(s, p)' <=> Overrides(s, p)
      /\ \A p : Waived(p)' <=> Waived(p)
  BY DEF Crosses, MayOverride, Overrides, Waived
<1>2. \A s \in Requests : Seen(req[s])' \in
        [held : BOOLEAN, lapsed : BOOLEAN, policies : SUBSET Policy]
  <2> SUFFICES ASSUME NEW s \in Requests
               PROVE  Seen(req[s])' \in
                        [held : BOOLEAN, lapsed : BOOLEAN, policies : SUBSET Policy]
    OBVIOUS
  <2>1. req'[s] \in Request
    BY DEF TypeOK
  <2>2. InForce(req[s].tenant, req[s].route)' \in Policy
    <3>1. policies'[req'[s].tenant]["system"] \in Policy \cup {NoPolicy}
      BY <2>1 DEF Request, TenantAssumption
    <3>2. policies'[req'[s].tenant][req'[s].route] \in Policy \cup {NoPolicy}
      BY <2>1 DEF Request
    <3>3. QED BY <3>1, <3>2, DefaultTyped DEF InForce, StoredOnly, DefaultPolicy
  <2>3. QED BY <2>2 DEF Seen, Member
<1>3. \A s \in Requests : pc[s] \in Busy =>
        /\ since'[s].held = (since[s].held \/ Seen(req[s])'.held)
        /\ since'[s].lapsed = (since[s].lapsed \/ Seen(req[s])'.lapsed)
        /\ since'[s].policies = since[s].policies \cup Seen(req[s])'.policies
  BY DEF Observe
<1>4. \A s \in Requests : pc[s] \notin Busy => since'[s] = since[s]
  BY DEF Observe
<1>5. since' \in [Requests -> [held : BOOLEAN, lapsed : BOOLEAN, policies : SUBSET Policy]]
  BY <1>2 DEF Observe, TypeOK
<1>6. TypeOK'
  BY <1>5 DEF TypeOK
<1>7. SinceCoversNow'
  BY <1>3 DEF SinceCoversNow, Seen
<1>8. \A s \in Requests :
        /\ since[s].held => since'[s].held
        /\ since[s].policies \subseteq since'[s].policies
  BY <1>3, <1>4
<1>9. PassedFirst' /\ ReadInForce'
  BY <1>1, <1>8 DEF PassedFirst, ReadInForce
<1>10. BoundRoutesNeedMembership' /\ MembersGetIn'
  BY <1>1, <1>4 DEF BoundRoutesNeedMembership, MembersGetIn, Busy
<1>11. QED BY <1>6, <1>7, <1>9, <1>10

(* A restart leaves no request on its way. *)
LEMMA RestartStep ==
  ASSUME TenantAssumption, AccessInv, Restart
  PROVE  AccessInv'
<1> USE DEF AccessInv
<1>1. /\ settings' \in Settings /\ pc' = [s \in Requests |-> "idle"]
      /\ changes' = changes + 1
      /\ UNCHANGED <<policies, req, read, blind, since>>
  BY DEF Restart, Change
<1>2. \A A : Seeded(A) \in [Actors -> [Tenants -> {"none", "active", "inactive"}]]
  BY DEF Seeded, TypeOK, TenantAssumption
<1>3. /\ membership' \in [Actors -> [Tenants -> {"none", "active", "inactive"}]]
      /\ faults' \in Nat
  BY <1>2 DEF Restart, TypeOK
<1>4. TypeOK'
  BY <1>1, <1>3 DEF TypeOK, PC, Busy
<1>5. QED
  BY <1>1, <1>4 DEF SinceCoversNow, PassedFirst, ReadInForce, BoundRoutesNeedMembership,
                    MembersGetIn, Busy

(* Nothing happens. *)
LEMMA StutterStep ==
  ASSUME AccessInv, UNCHANGED vars
  PROVE  AccessInv'
<1>1. /\ Frozen /\ UNCHANGED <<pc, read, blind, changes, faults>>
  BY DEF vars, request, tables, Frozen
<1>2. TypeOK'
  BY <1>1 DEF AccessInv, TypeOK, Frozen, tables
<1>3. SinceCoversNow'
  BY <1>1, FrozenCovers DEF AccessInv
<1>4. PassedFirst' /\ ReadInForce'
  BY <1>1, FrozenFacts DEF AccessInv, PassedFirst, ReadInForce, Frozen
<1>5. BoundRoutesNeedMembership' /\ MembersGetIn'
  BY <1>1, FrozenFacts DEF AccessInv, BoundRoutesNeedMembership, MembersGetIn, Frozen
<1>6. QED BY <1>2, <1>3, <1>4, <1>5 DEF AccessInv

-----------------------------------------------------------------------------
(* AccessInv holds always. *)
THEOREM TenantAccessInv == Spec => []AccessInv
<1>1. TenantAssumption
  BY TenantAssumption
<1>2. Init => AccessInv
  BY <1>1, InitInv
<1>3. AccessInv /\ [Next]_vars => AccessInv'
  <2> SUFFICES ASSUME AccessInv, [Next]_vars PROVE AccessInv'
    OBVIOUS
  <2>1. ASSUME NEW r \in Requests, NEW q \in Request, Arrive(r, q) PROVE AccessInv'
    BY <1>1, <2>1, ArriveStep
  <2>2. ASSUME NEW r \in Requests, Resolve(r) PROVE AccessInv'
    BY <1>1, <2>2, ResolveStep
  <2>3. ASSUME NEW r \in Requests, ReadPolicy(r) PROVE AccessInv'
    BY <1>1, <2>3, ReadPolicyStep
  <2>4. ASSUME NEW r \in Requests, Decide(r) PROVE AccessInv'
    BY <1>1, <2>4, DecideStep
  <2>5. ASSUME NEW a \in Actors, NEW t \in Tenants, NEW s \in {"active", "inactive"},
               SetMembership(a, t, s)
        PROVE  AccessInv'
    <3>1. membership' \in [Actors -> [Tenants -> {"none", "active", "inactive"}]]
      BY <2>5 DEF SetMembership, AccessInv, TypeOK
    <3>2. policies' \in [Tenants -> [Routes -> Policy \cup {NoPolicy}]]
      BY <2>5 DEF SetMembership, AccessInv, TypeOK
    <3>3. QED BY <1>1, <2>5, <3>1, <3>2, ChangeStep DEF SetMembership, Change
  <2>6. ASSUME NEW t \in Tenants, NEW g \in Routes, NEW p \in Offered, SetPolicy(t, g, p)
        PROVE  AccessInv'
    <3>1. membership' \in [Actors -> [Tenants -> {"none", "active", "inactive"}]]
      BY <2>6 DEF SetPolicy, AccessInv, TypeOK
    <3>2. policies' \in [Tenants -> [Routes -> Policy \cup {NoPolicy}]]
      BY <1>1, <2>6 DEF SetPolicy, AccessInv, TypeOK, TenantAssumption
    <3>3. QED BY <1>1, <2>6, <3>1, <3>2, ChangeStep DEF SetPolicy, Change
  <2>7. CASE Restart
    BY <1>1, <2>7, RestartStep
  <2>8. CASE UNCHANGED vars
    BY <2>8, StutterStep
  <2>9. QED BY <2>1, <2>2, <2>3, <2>4, <2>5, <2>6, <2>7, <2>8 DEF Next
<1>4. QED BY <1>2, <1>3, PTL DEF Spec

(* Every reachable state is well typed. *)
THEOREM TenantTypeOK == Spec => []TypeOK
<1>1. AccessInv => TypeOK
  BY DEF AccessInv
<1>2. QED BY <1>1, TenantAccessInv, PTL

(* Nobody without override crosses into a tenant he was at no moment a     *)
(* member of, but for bootstrap users whose memberships could not be read. *)
THEOREM TenantOutsidersStayOut == Spec => []OutsidersStayOut
<1>1. AccessInv => OutsidersStayOut
  BY DEF AccessInv, PassedFirst, OutsidersStayOut
<1>2. QED BY <1>1, TenantAccessInv, PTL

(* A route whose policy binds throughout lets in members only. *)
THEOREM TenantBoundRoutes == Spec => []BoundRoutesNeedMembership
<1>1. AccessInv => BoundRoutesNeedMembership
  BY DEF AccessInv
<1>2. QED BY <1>1, TenantAccessInv, PTL

(* Nobody is kept out of the own tenant, and no member out of a tenant. *)
THEOREM TenantMembersGetIn == Spec => []MembersGetIn
<1>1. AccessInv => MembersGetIn
  BY DEF AccessInv
<1>2. QED BY <1>1, TenantAccessInv, PTL
=============================================================================
