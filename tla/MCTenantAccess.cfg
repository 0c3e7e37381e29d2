SPECIFICATION Spec
CONSTANTS
  Requests = {r1}
  Actors = {admin, guest}
  Bootstrap = {admin}
  Tenants = {default, other}
  Default = default
  Routes = {"secrets", "system"}
  Offered <- MCOffered
  NoPolicy = NoPolicy
  MaxChanges = 2
  MaxFaults = 2
INVARIANTS TypeOK OutsidersStayOut BoundRoutesNeedMembership MembersGetIn
