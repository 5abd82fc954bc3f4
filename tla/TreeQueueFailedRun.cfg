SPECIFICATION Spec
CONSTANTS
  r = r
  a = a
  b = b
  NoNode = NoNode
  Node = {r, a, b}
  Root = r
  Ops = {}
INVARIANT CompletedMeansSuccess
CHECK_DEADLOCK FALSE
