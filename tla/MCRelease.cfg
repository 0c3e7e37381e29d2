SPECIFICATION ReleaseSpec
CONSTANTS
  Callers = {c1, c2}
  Processes = {p}
  Home <- MCHome
  Tenants = {default}
  Default = default
  Files = {guide}
  Required = {guide}
  Requests <- MCRequests
  NoRow = NoRow
  NoPackage = NoPackage
  MaxEdits = 1
  MaxTroubles = 1
INVARIANTS DeliveredWasReady RowTellsPackage
SYMMETRY Symmetric
