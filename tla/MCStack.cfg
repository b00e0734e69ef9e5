CONSTANTS
  Threads = {t1, t2}
  Value = {v1, v2}
  Nodes = {n1, n2, n3}
  NULL = NULL
  None = None
  Clients = {"safe", "managed"}
SPECIFICATION Spec
INVARIANTS
  TypeOK
  ReadsAnElement
  ElementsInOnePlace
PROPERTIES
  ImplementsStack
  LockReleased
