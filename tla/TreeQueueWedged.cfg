SPECIFICATION FairSpec
CONSTANTS
  r = r
  a = a
  b = b
  NoNode = NoNode
  Node = {r, a, b}
  Root = r
  Ops = {"cancel_node"}
PROPERTY QueueServed
CHECK_DEADLOCK FALSE
