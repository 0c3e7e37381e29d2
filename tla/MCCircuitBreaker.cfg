SPECIFICATION MCSpec
CONSTANTS
  s1 = s1
  s2 = s2
  Servers = {s1, s2}
  Policies <- Switched
  DefaultPolicy <- Enforced
  Window = 1
  MaxAge = 2
  MaxRows = 3
  MaxStreak = 3
  MaxBroken = 1
  MaxFaults = 1
SYMMETRY Symmetry
INVARIANTS
  BudgetRespected
  BreakerKnowsConnector
PROPERTY CooldownHonoured
