CONSTANTS
  Callers = {c1}
  llama = llama
  embedder = embedder
  extra = extra
  plugin = plugin
  Local = llama
  SeedModels <- MCSeedModels
  SeedPrompts <- MCSeedPrompts
  Models <- MCModels
  Prompts <- MCPrompts
  Requests <- MCRequests
  NoVersion = NoVersion
  NoModel = NoModel
  NoRun = NoRun
  MaxRegistered = 3
  MaxTroubles = 2

SPECIFICATION RoutingSpec

INVARIANT RouteIsBest
INVARIANT AnswerIsRecorded
