CONSTANTS
  Value = {e0, e1}
  Default = e0
  Capacity = 4
  MaxRequest = 5
SPECIFICATION Spec
INVARIANTS
  TypeOK
  StagedInPlace
  ObserversAgree
  ReadWindowsCoverContent
  WriteWindowsCoverFree
  PeekMemWithinContent
  ArrayRoundTrip
PROPERTY ImplementsQueue
