CONSTANTS
  Value = {e0, e1}
  Default = e0
  Capacity = 3
  MaxRequest = 4
SPECIFICATION Spec
INVARIANT PeekAddrWindowReadable
