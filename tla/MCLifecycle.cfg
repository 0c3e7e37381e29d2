SPECIFICATION Spec
CONSTANTS
  Letters = {l1, l2}
  Cleaners = {c1, c2}
  Policies <- Operators
  Default <- MCDefault
  MaxAge = 3
  MaxFaults = 2
  MaxChanges = 2
  MaxRestarts = 1
  None = None
SYMMETRY Symmetry
INVARIANT EvidenceKept
PROPERTY RetentionHonoured
