SPECIFICATION Spec
CONSTANTS
  Handoffs = {h1, h2}
  Drafts = {d1, d2}
  MaxOwnerActs = 1
INVARIANT OnlyArtifacts
SYMMETRY Symmetry
CHECK_DEADLOCK FALSE
