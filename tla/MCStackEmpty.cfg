CONSTANTS
  Threads = {t1, t2}
  Value = {v1, v2}
  Nodes = {n1, n2, n3}
  NULL = NULL
  None = None
  Clients = {"reckless"}
SPECIFICATION Spec
INVARIANT ReadsAnElement
