CONSTANTS
  Callers = {c1, c2}
  c1 = c1
  c2 = c2
  default = default
  base = base
  bearer = bearer
  client = client
  token = token
  refresh = refresh
  url = url
  Secrets <- MCSecrets
  MaxRequests = 2
  Tenants = {default}
  Default = default
  Keys = {base, bearer, client, token, refresh}
  Catalog <- MCCatalog
  Connector <- MCConnector
  Bearer <- MCBearer
  Trio <- MCTrio
  ImportFiles <- MCImportFiles
  Requests <- MCRequests
  MaxTroubles = 1

SPECIFICATION RolloutSpec

INVARIANT PlansAgree
INVARIANT MetaTellsCredentials
INVARIANT ProceedIsTrue

CHECK_DEADLOCK FALSE
