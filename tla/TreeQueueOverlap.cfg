SPECIFICATION Spec
CONSTANTS
  r = r
  a = a
  b = b
  NoNode = NoNode
  Node = {r, a, b}
  Root = r
  Ops = {"cancel_tree"}
INVARIANT OneRunAtATime
CHECK_DEADLOCK FALSE
