SPECIFICATION Spec
CONSTANTS
  Callers = {c1, c2}
  Posts = {post}
  Bundles = {bundle}
  Actors = {author, reviewer}
  NoArtifact = NoArtifact
  NoActor = NoActor
  NoCap = NoCap
  Granted <- MCGranted
  Caps <- MCCaps
  DefaultCap <- MCDefaultCap
  MaxStarts = 3
  MaxFaults = 1
  MaxRequests = 3
  MaxChanges = 1
INVARIANTS TypeOK PublishedWasReviewed StepsTellStatus CapHonoured
SYMMETRY Symmetric
CHECK_DEADLOCK FALSE
