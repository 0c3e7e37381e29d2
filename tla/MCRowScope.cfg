SPECIFICATION Spec
CONSTANTS
  admin = admin
  guest = guest
  Actors = {admin, guest}
  other = other
  Tokens <- MCTokens
  Bootstrap = {admin}
  Tenants = {default, other}
  Default = default
  NoTenant = NoTenant
  Tables = {"secrets", "jobs"}
  Targets = {"jobs"}
  Offered <- MCOffered
  NoPolicy = NoPolicy
  MaxChanges = 2
  MaxFaults = 1
INVARIANTS TypeOK ForeignRowsExplained OwnRowsShown ReportsAgree
