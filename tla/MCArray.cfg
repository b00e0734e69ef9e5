CONSTANTS
  Arrays = {a1, a2}
  Values <- SmallInts
  MaxLength = 2
  Radix = 2
  IntSize = 2
  Widths = {2, 3}
  MaxOpen = 2
  SizeMax = 7
  IntModulus = 16
  Torn <- NotAValue
  None = None
SPECIFICATION Spec
SYMMETRY Symmetry
INVARIANTS
  TypeOK
  ObserversAgree
PROPERTIES
  ImplementsArchive
