CONSTANTS
  Maps = {m1, m2}
  Keys = {1, 2, 3}
  Values = {1, 2}
  Kinds = {"map", "set"}
  Nodes = {n1, n2, n3, n4}
  IntModulus = 8
  NULL = NULL
SPECIFICATION Spec
SYMMETRY Symmetry
INVARIANTS
  TypeOK
  ListsWellLinked
  WalkMissesNoKey
  ObserversAgree
PROPERTIES
  LosesOnlyRefusedCopies
  ImplementsMap
