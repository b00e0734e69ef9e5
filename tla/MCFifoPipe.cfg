CONSTANTS
  Value = {e0, e1}
  Default = e0
  SrcCapacity = 3
  TgtCapacity = 3
  MaxTransfer = 4
SPECIFICATION PipeSpec
INVARIANTS
  PipeTypeOK
  MovesAllItCan
PROPERTIES
  RoundKeepsOrder
  CallReturns
