CONSTANTS
  N = 5
  Int32 <- SmallInts
  IntModulus = 8
  Thresholds = {0, 2}
  Samples = {1, 2}
  Variants = {"stack", "recursive"}
SPECIFICATION Spec
INVARIANTS
  TypeOK
  PendingSeparated
PROPERTIES
  ImplementsSorting
  Terminates
CHECK_DEADLOCK FALSE
