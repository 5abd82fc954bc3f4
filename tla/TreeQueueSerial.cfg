SPECIFICATION Spec
CONSTANTS
  r = r
  a = a
  b = b
  c = c
  NoNode = NoNode
  Node = {r, a, b, c}
  Root = r
  Ops = {"cancel_node"}
INVARIANT SerialProcessing
INVARIANT ParentSettledFirst
PROPERTY RefinesSerialQueue
CHECK_DEADLOCK FALSE
