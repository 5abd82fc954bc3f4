SPECIFICATION FairSpec
CONSTANTS
  r = r
  a = a
  b = b
  NoNode = NoNode
  Node = {r, a, b}
  Root = r
  Ops = {"cancel_tree", "clear_all"}
INVARIANT BusyMeansLive
PROPERTY QueueServed
CHECK_DEADLOCK FALSE
