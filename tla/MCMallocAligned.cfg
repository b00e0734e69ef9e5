CONSTANTS
  Base = 1
  ArenaSize = 7
  Sizes = {0, 1, 2, 3}
  Alignments = {0, 2}
  SizeModulus = 64
  AlignedAnywhere = TRUE
SPECIFICATION Spec
INVARIANT RegionsDisjoint
