SPECIFICATION Spec
CONSTANTS
  r = r
  a = a
  b = b
  NoNode = NoNode
  Node = {r, a, b}
  Root = r
  Ops = {"cancel_tree", "cancel_node", "cancel_branch", "clear_all"}
SYMMETRY ReplySymmetry
CONSTRAINT OneClear
INVARIANT TypeOK
INVARIANT NoIdleBacklog
INVARIANT WaitingOnce
 
PROPERTY StoppedNeverRuns
PROPERTY CompletedIsFinal
CHECK_DEADLOCK FALSE
