SPECIFICATION Spec
CONSTANTS
  Clients = {c1, c2}
  MaxVersion = 2
  Definitions = {d1, d2}
  NoDefinition = NoDefinition
  MaxFaults = 1
SYMMETRY Symmetry
INVARIANTS
  PublishedIsVetted
  OnePublished
PROPERTY PublishedIsKept
