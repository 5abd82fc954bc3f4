-------------------------- MODULE TreeQueueProofs --------------------------
(***************************************************************************)
(* Proofs about TreeQueue: type correctness and the queue invariants for   *)
(* every set of operations, serial processing for those without cancel_tree*)
(* and clear_all, live tasks for those without single-node stops, the      *)
(* action properties, and the implementation of SerialQueue.               *)
(***************************************************************************)
EXTENDS TreeQueue, FiniteSetTheorems, SequenceTheorems, TLAPS

-----------------------------------------------------------------------------
(* The filter of the queue.                                                *)

\* What Without gives is made of elements of q outside S, in increasing positions.
LEMMA WithoutProperties ==
    ASSUME NEW E, NEW q \in Seq(E), NEW S, NEW r \in Without(q, S)
    PROVE  /\ r \in Seq(E)
           /\ \E f \in [1..Len(r) -> DOMAIN q] :
                 /\ \A i \in 1..Len(r) : r[i] = q[f[i]] /\ r[i] \notin S
                 /\ \A i, j \in 1..Len(r) : i < j => f[i] < f[j]
<1> DEFINE K == Kept(q, S)
<1> DEFINE c == Cardinality(K)
<1>1. c \in Nat
  <2>1. IsFiniteSet(1..Len(q))
    BY FS_Interval
  <2>2. K \subseteq 1..Len(q)
    BY DEF Kept
  <2> QED
    BY <2>1, <2>2, FS_Subset, FS_CardinalityType
<1>2. PICK f \in Increasing(K) : r = [i \in 1..c |-> q[f[i]]]
  BY DEF Without
<1>3. f \in [1..c -> K] /\ \A i, j \in 1..c : i < j => f[i] < f[j]
  BY <1>2 DEF Increasing
<1>4. \A k \in K : k \in DOMAIN q /\ q[k] \in E /\ q[k] \notin S
  BY ElementOfSeq DEF Kept
<1>5. r \in [1..c -> E]
  BY <1>2, <1>3, <1>4
<1>6. r \in Seq(E) /\ Len(r) = c
  BY <1>1, <1>5
<1> QED
  BY <1>2, <1>3, <1>4, <1>6

\* A sequence that is not empty has a head and a tail.
LEMMA HeadTail ==
    ASSUME NEW E, NEW q \in Seq(E), q # << >>
    PROVE  /\ Head(q) \in E
           /\ Tail(q) \in Seq(E)
           /\ Len(Tail(q)) = Len(q) - 1
           /\ 1 \in DOMAIN q /\ Head(q) = q[1]
           /\ \A i \in DOMAIN Tail(q) : i + 1 \in DOMAIN q /\ Tail(q)[i] = q[i + 1]
  BY HeadTailProperties, LenProperties

-----------------------------------------------------------------------------
(* Type correctness.                                                       *)

LEMMA PhaseFacts ==
    /\ Phase = {"none", "created", "starting", "running", "stopping", "finishing", "done"}
    /\ Live = {"created", "starting", "running", "stopping", "finishing"}
    /\ Active = {"starting", "running", "stopping", "finishing"}
  BY DEF Phase, Live, Active

LEMMA MarkedErrorType ==
    ASSUME TypeOK, NEW n \in Node
    PROVE  MarkedError(n) \in [Node -> MessageState]
  BY DEF TypeOK, MarkedError, MessageState

\* _process_next, whatever task calls it, keeps the types.
LEMMA ProcessNextType ==
    ASSUME TypeOK, NEW tasks \in [Node -> Phase], ProcessNext(tasks)
    PROVE  /\ queue' \in Seq(Node)
           /\ isProcessing' \in BOOLEAN
           /\ currentNode' \in Node \cup {NoNode}
           /\ currentTask' \in Node \cup {NoNode}
           /\ task' \in [Node -> Phase]
<1>1. CASE queue = << >>
  BY <1>1 DEF TypeOK, ProcessNext
<1>2. CASE queue # << >>
  <2>1. Head(queue) \in Node /\ Tail(queue) \in Seq(Node)
    BY <1>2, HeadTail DEF TypeOK
  <2>2. queue' = Tail(queue) /\ BeginProcessing(Head(queue), tasks)
    BY <1>2 DEF ProcessNext
  <2> QED
    BY <2>1, <2>2, PhaseFacts DEF BeginProcessing, StartTask, TypeOK
<1> QED
  BY <1>1, <1>2

LEMMA TypeInit == Init => TypeOK
<1> SUFFICES ASSUME NEW s \in MessageState, NEW t \in [Node -> Phase], NEW b \in BOOLEAN,
                    NewTree(s, t, b)
             PROVE  TypeOK
  BY PhaseFacts DEF Init, InitCreated, InitRestored, Settled, MessageState
<1> QED
  BY NodeAssumption, EmptySeq DEF NewTree, TypeOK, MessageState

LEMMA TypeStep == TypeOK /\ [Next]_vars => TypeOK'
<1> SUFFICES ASSUME TypeOK, [Next]_vars PROVE TypeOK'
  OBVIOUS
<1> USE NodeAssumption, PhaseFacts
<1>1. ASSUME NEW n \in Node, NEW p \in Node, Reply(n, p) PROVE TypeOK'
  <2>1. queue' \in Seq(Node)
    BY <1>1, AppendProperties DEF Reply, TypeOK
  <2>2. nodes' \in SUBSET Node /\ parent' \in [Node -> Node \cup {NoNode}]
    BY <1>1 DEF Reply, TypeOK
  <2>3. /\ task' \in [Node -> Phase]
        /\ isProcessing' \in BOOLEAN
        /\ currentNode' \in Node \cup {NoNode}
        /\ currentTask' \in Node \cup {NoNode}
    BY <1>1 DEF Reply, StartTask, TypeOK
  <2> QED
    BY <1>1, <2>1, <2>2, <2>3 DEF Reply, TypeOK
<1>2. ASSUME NEW n \in Node, DieUnstarted(n) PROVE TypeOK'
  BY <1>2 DEF DieUnstarted, TypeOK
<1>3. ASSUME NEW n \in Node, Skip(n) PROVE TypeOK'
  <2>1. [task EXCEPT ![n] = "done"] \in [Node -> Phase]
    BY DEF TypeOK
  <2> QED
    BY <1>3, <2>1, ProcessNextType DEF Skip, TypeOK
<1>4. ASSUME NEW n \in Node, Start(n) PROVE TypeOK'
  BY <1>4 DEF Start, UpdateState, TypeOK, MessageState
<1>5. ASSUME NEW n \in Node, Acquire(n) PROVE TypeOK'
  BY <1>5 DEF Acquire, TypeOK
<1>6. ASSUME NEW n \in Node, SessionInfo(n) PROVE TypeOK'
  BY <1>6 DEF SessionInfo, UpdateState, TypeOK, MessageState
<1>7. ASSUME NEW n \in Node, CliError(n) PROVE TypeOK'
  BY <1>7, MarkedErrorType DEF CliError, TypeOK
<1>8. ASSUME NEW n \in Node, NEW code \in {"ok", "failed"}, CliExit(n, code) PROVE TypeOK'
  <2>1. state' \in [Node -> MessageState]
    BY <1>8, MarkedErrorType DEF CliExit, CompletedFrom, TypeOK, MessageState
  <2> QED
    BY <1>8, <2>1 DEF CliExit, TypeOK
<1>9. ASSUME NEW n \in Node, Fails(n) PROVE TypeOK'
  BY <1>9, MarkedErrorType DEF Fails, TypeOK
<1>10. ASSUME NEW n \in Node, DeliverCancel(n) PROVE TypeOK'
  BY <1>10 DEF DeliverCancel, TypeOK
<1>11. ASSUME NEW n \in Node, StopDone(n) PROVE TypeOK'
  BY <1>11 DEF StopDone, UpdateState, TypeOK, MessageState
<1>12. ASSUME NEW n \in Node, Finish(n) PROVE TypeOK'
  <2>1. [task EXCEPT ![n] = "done"] \in [Node -> Phase]
    BY DEF TypeOK
  <2> QED
    BY <1>12, <2>1, ProcessNextType DEF Finish, TypeOK
<1>13. CancelCurrent \in SUBSET Node
  BY DEF CancelCurrent, TaskCancellable, TypeOK
<1>14. ASSUME CancelTreeStep
       PROVE  /\ cancelling' \in SUBSET Node
              /\ state' \in [Node -> MessageState]
              /\ queue' \in Seq(Node)
              /\ isProcessing' \in BOOLEAN
              /\ currentNode' \in Node \cup {NoNode}
  BY <1>13, <1>14, EmptySeq DEF CancelTreeStep, TypeOK, MessageState
<1>15. CASE CancelTree
  BY <1>14, <1>15 DEF CancelTree, TypeOK
<1>16. ASSUME NEW n \in Node, CancelNode(n) PROVE TypeOK'
  <2>1. queue' \in Seq(Node)
    BY <1>16, WithoutProperties DEF CancelNode, TypeOK
  <2> QED
    BY <1>13, <1>16, <2>1 DEF CancelNode, TypeOK, MessageState
<1>17. ASSUME NEW b \in Node, CancelBranch(b) PROVE TypeOK'
  <2> DEFINE open == {n \in Descendants(b) : state[n] \notin Settled}
  <2>1. queue' \in Seq(Node)
    BY <1>17, WithoutProperties DEF CancelBranch, TypeOK
  <2>2. state' = [n \in Node |-> IF n \in open THEN "error" ELSE state[n]]
    BY <1>17 DEF CancelBranch
  <2>3. state' \in [Node -> MessageState]
    BY <2>2 DEF TypeOK, MessageState
  <2>4. cancelling' \in SUBSET Node
    BY <1>13, <1>17 DEF CancelBranch, TypeOK
  <2> QED
    BY <1>17, <2>1, <2>3, <2>4 DEF CancelBranch, TypeOK
<1>18. ASSUME NEW b \in Node, RemoveBranch(b) PROVE TypeOK'
  <2>1. CASE b # Root
    BY <1>18, <2>1 DEF RemoveBranch, TypeOK
  <2>2. CASE b = Root /\ registered
    BY <1>14, <1>18, <2>2 DEF RemoveBranch, TypeOK
  <2>3. CASE b = Root /\ ~registered
    BY <1>18, <2>3 DEF RemoveBranch, TypeOK
  <2> QED
    BY <2>1, <2>2, <2>3 DEF TypeOK
<1>19. CASE ClearAll
  BY <1>14, <1>19 DEF ClearAll, TypeOK
<1>20. CASE ReplaceManager
  BY <1>20 DEF ReplaceManager, TypeOK
<1>21. CASE UNCHANGED vars
  BY <1>21 DEF vars, TypeOK
<1> QED
  BY <1>1, <1>2, <1>3, <1>4, <1>5, <1>6, <1>7, <1>8, <1>9, <1>10, <1>11, <1>12,
     <1>15, <1>16, <1>17, <1>18, <1>19, <1>20, <1>21 DEF Next, TaskEvent, TaskProgress

\* Every reachable state of every instance is well typed.
THEOREM TypeCorrect == Spec => []TypeOK
  BY TypeInit, TypeStep, PTL DEF Spec

-----------------------------------------------------------------------------
(* The queue, under every set of operations.  WaitingOnce is not inductive *)
(* alone: a reply must not already be in the queue or have a task, which   *)
(* is what it means for its id to be fresh.                                *)

QueueInv ==
    /\ NoIdleBacklog
    /\ WaitingOnce
    /\ \A i \in DOMAIN queue : ~Fresh(queue[i]) /\ queue[i] # Root
    /\ \A n \in Node : task[n] # "none" => ~Fresh(n)

\* Taking ids out of the queue keeps what is said of those that stay.
LEMMA WithoutKeepsQueueInv ==
    ASSUME TypeOK, QueueInv, NEW S, queue' \in Without(queue, S),
           UNCHANGED <<parent, task, isProcessing>>
    PROVE  QueueInv'
<1>1. PICK f \in [1..Len(queue') -> DOMAIN queue] :
         /\ \A i \in 1..Len(queue') : queue'[i] = queue[f[i]] /\ queue'[i] \notin S
         /\ \A i, j \in 1..Len(queue') : i < j => f[i] < f[j]
  <2>1. queue \in Seq(Node)
    BY DEF TypeOK
  <2> QED
    BY <2>1, WithoutProperties
<1>2. queue \in Seq(Node) /\ queue' \in Seq(Node)
  BY WithoutProperties DEF TypeOK
<1>3. DOMAIN queue' = 1..Len(queue') /\ Len(queue') \in Nat /\ DOMAIN queue \subseteq Nat
  BY <1>2, LenProperties
<1>4. ASSUME NEW i \in DOMAIN queue', NEW j \in DOMAIN queue', queue'[i] = queue'[j] PROVE i = j
  <2>1. f[i] = f[j]
    BY <1>1, <1>3, <1>4 DEF QueueInv, WaitingOnce
  <2> QED
    BY <1>1, <1>3, <2>1
<1>5. queue' # << >> => queue # << >>
  <2> SUFFICES ASSUME queue' # << >> PROVE queue # << >>
    OBVIOUS
  <2>1. 1 \in DOMAIN queue'
    BY <1>2, HeadTail
  <2> QED
    BY <1>1, <1>3, <2>1
<1>6. \A i \in DOMAIN queue' : f[i] \in DOMAIN queue /\ queue'[i] = queue[f[i]]
  BY <1>1, <1>3
<1> QED
  BY <1>4, <1>5, <1>6 DEF QueueInv, WaitingOnce, NoIdleBacklog, Fresh

LEMMA ProcessNextKeepsQueueInv ==
    ASSUME TypeOK, QueueInv, NEW n \in Node, task[n] \in Live,
           ProcessNext([task EXCEPT ![n] = "done"]), UNCHANGED parent
    PROVE  QueueInv'
<1> USE PhaseFacts
<1>1. \A i \in DOMAIN queue : queue[i] # n
  BY DEF QueueInv, WaitingOnce
<1>2. CASE queue = << >>
  BY <1>2 DEF ProcessNext, QueueInv, NoIdleBacklog, WaitingOnce, TypeOK, Fresh
<1>3. CASE queue # << >>
  <2> DEFINE h == Head(queue)
  <2>1. queue' = Tail(queue) /\ BeginProcessing(h, [task EXCEPT ![n] = "done"])
    BY <1>3 DEF ProcessNext
  <2>2. /\ h \in Node /\ h = queue[1] /\ 1 \in DOMAIN queue
        /\ \A i \in DOMAIN queue' : i + 1 \in DOMAIN queue /\ queue'[i] = queue[i + 1]
    BY <1>3, <2>1, HeadTail DEF TypeOK
  <2>3. DOMAIN queue' \subseteq Nat \ {0}
    BY <1>3, <2>1, HeadTail, LenProperties DEF TypeOK
  <2>4. \A m \in Node : m # n /\ m # h => task'[m] = task[m]
    BY <2>1, <2>2 DEF BeginProcessing, StartTask, TypeOK
  <2>5. \A i \in DOMAIN queue' : queue'[i] # h /\ queue'[i] # n /\ queue'[i] \in Node
    <3>1. \A i \in DOMAIN queue' : queue[i + 1] # queue[1]
      BY <2>2, <2>3 DEF QueueInv, WaitingOnce
    <3> QED
      BY <1>1, <2>2, <3>1, ElementOfSeq DEF TypeOK
  <2>6. isProcessing'
    BY <2>1 DEF BeginProcessing
  <2>7. WaitingOnce'
    BY <2>2, <2>3, <2>4, <2>5 DEF QueueInv, WaitingOnce
  <2>8. \A m \in Node : task'[m] # "none" => ~Fresh(m)'
    BY <2>2, <2>4 DEF QueueInv, Fresh
  <2> QED
    BY <2>2, <2>6, <2>7, <2>8 DEF QueueInv, NoIdleBacklog, Fresh
<1> QED
  BY <1>2, <1>3

LEMMA ReplyKeepsQueueInv ==
    ASSUME TypeOK, QueueInv, NEW n \in Node, NEW p \in Node, Reply(n, p)
    PROVE  QueueInv'
<1> USE NodeAssumption
<1>1. Fresh(n) /\ task[n] = "none" /\ n # Root /\ \A i \in DOMAIN queue : queue[i] # n
  BY DEF Reply, QueueInv, Fresh
<1>2. \A m \in Node : ~Fresh(m) \/ m = n => ~Fresh(m)'
  BY DEF Reply, Fresh, TypeOK
<1>3. \A i \in DOMAIN queue : queue[i] \in Node
  BY ElementOfSeq DEF TypeOK
<1>4. CASE isProcessing
  <2>1. queue' = Append(queue, n) /\ UNCHANGED <<task, isProcessing>>
    BY <1>4 DEF Reply
  <2>2. /\ Len(queue) \in Nat
        /\ DOMAIN queue = 1..Len(queue)
        /\ DOMAIN queue' = 1..(Len(queue) + 1)
        /\ \A i \in DOMAIN queue : queue'[i] = queue[i]
        /\ queue'[Len(queue) + 1] = n
    BY <2>1, AppendProperties, LenProperties DEF TypeOK
  <2>3. \A i \in DOMAIN queue' : i \in DOMAIN queue \/ i = Len(queue) + 1
    BY <2>2
  <2>4. WaitingOnce'
    BY <1>1, <2>1, <2>2, <2>3 DEF QueueInv, WaitingOnce
  <2>5. ASSUME NEW i \in DOMAIN queue' PROVE ~Fresh(queue[i])' /\ queue'[i] # Root
    <3>1. CASE i \in DOMAIN queue
      BY <1>2, <1>3, <2>2, <3>1 DEF QueueInv, Fresh
    <3>2. CASE i = Len(queue) + 1
      BY <1>1, <1>2, <2>2, <3>2 DEF Fresh
    <3> QED
      BY <2>3, <3>1, <3>2
  <2>6. \A m \in Node : task'[m] # "none" => ~Fresh(m)'
    BY <1>2, <2>1 DEF QueueInv
  <2> QED
    BY <1>4, <2>1, <2>4, <2>5, <2>6 DEF QueueInv, NoIdleBacklog
<1>5. CASE ~isProcessing
  <2>1. queue' = << >> /\ isProcessing' /\ task' = [task EXCEPT ![n] = "created"]
    BY <1>5 DEF Reply, QueueInv, NoIdleBacklog, StartTask
  <2> QED
    BY <1>2, <2>1 DEF QueueInv, NoIdleBacklog, WaitingOnce, TypeOK
<1> QED
  BY <1>4, <1>5

\* Steps that leave the queue and the flag alone, and give nobody a first task.
LEMMA QuietKeepsQueueInv ==
    ASSUME TypeOK, QueueInv, UNCHANGED <<queue, parent, isProcessing>>,
           \A m \in Node : task[m] = "none" <=> task'[m] = "none"
    PROVE  QueueInv'
<1>1. \A i \in DOMAIN queue : queue[i] \in Node
  BY ElementOfSeq DEF TypeOK
<1> QED
  BY <1>1 DEF QueueInv, NoIdleBacklog, WaitingOnce, Fresh

LEMMA EmptyQueueInv ==
    ASSUME QueueInv, queue' = << >>, UNCHANGED <<parent, task>>
    PROVE  QueueInv'
  BY DEF QueueInv, NoIdleBacklog, WaitingOnce, Fresh

LEMMA QueueInvInit == Init => QueueInv
<1>1. CASE InitCreated
  BY <1>1, PhaseFacts DEF InitCreated, NewTree, QueueInv, NoIdleBacklog, WaitingOnce, Fresh
<1>2. CASE InitRestored
  BY <1>2, PhaseFacts DEF InitRestored, NewTree, QueueInv, NoIdleBacklog, WaitingOnce, Fresh
<1> QED
  BY <1>1, <1>2 DEF Init

LEMMA QueueInvStep == TypeOK /\ QueueInv /\ [Next]_vars => QueueInv'
<1> SUFFICES ASSUME TypeOK, QueueInv, [Next]_vars PROVE QueueInv'
  OBVIOUS
<1> USE PhaseFacts
<1>1. ASSUME NEW n \in Node, NEW p \in Node, Reply(n, p) PROVE QueueInv'
  BY <1>1, ReplyKeepsQueueInv
<1>2. ASSUME NEW n \in Node, Skip(n) \/ Finish(n) PROVE QueueInv'
  BY <1>2, ProcessNextKeepsQueueInv DEF Skip, Finish
<1>3. ASSUME NEW n \in Node, TaskEvent(n) PROVE QueueInv'
  BY <1>3, QuietKeepsQueueInv DEF TaskEvent, SessionInfo, CliError
<1>4. ASSUME NEW n \in Node,
             \/ DieUnstarted(n) \/ Start(n) \/ Acquire(n)
             \/ \E code \in {"ok", "failed"} : CliExit(n, code)
             \/ Fails(n) \/ DeliverCancel(n) \/ StopDone(n)
      PROVE  QueueInv'
  <2>1. /\ UNCHANGED <<queue, parent, isProcessing>>
        /\ task[n] # "none"
        /\ \E ph \in Phase \ {"none"} : task' = [task EXCEPT ![n] = ph]
    BY <1>4 DEF DieUnstarted, Start, Acquire, CliExit, Fails, DeliverCancel, StopDone
  <2>2. \A m \in Node : task[m] = "none" <=> task'[m] = "none"
    BY <2>1 DEF TypeOK
  <2> QED
    BY <2>1, <2>2, QuietKeepsQueueInv
<1>5. ASSUME NEW n \in Node, CancelNode(n) PROVE QueueInv'
  BY <1>5, WithoutKeepsQueueInv DEF CancelNode
<1>6. ASSUME NEW b \in Node, CancelBranch(b) PROVE QueueInv'
  BY <1>6, WithoutKeepsQueueInv DEF CancelBranch
<1>7. CASE CancelTree \/ ClearAll
  BY <1>7, EmptyQueueInv DEF CancelTree, ClearAll, CancelTreeStep
<1>8. ASSUME NEW b \in Node, RemoveBranch(b) PROVE QueueInv'
  <2>1. UNCHANGED <<parent, task>> /\ (UNCHANGED <<queue, isProcessing>> \/ CancelTreeStep)
    BY <1>8 DEF RemoveBranch
  <2> QED
    BY <2>1, EmptyQueueInv, QuietKeepsQueueInv DEF CancelTreeStep
<1>9. CASE ReplaceManager \/ UNCHANGED vars
  BY <1>9, QuietKeepsQueueInv DEF ReplaceManager, vars
<1> QED
  BY <1>1, <1>2, <1>3, <1>4, <1>5, <1>6, <1>7, <1>8, <1>9 DEF Next, TaskProgress

LEMMA QueueInvHolds == Spec => []QueueInv
  BY TypeInit, TypeStep, QueueInvInit, QueueInvStep, PTL DEF Spec

\* Whatever the users cancel, and whenever: the queue of a tree marked free is
\* empty, so that no message is overtaken by a later one.
THEOREM NoIdleBacklogCorrect == Spec => []NoIdleBacklog
<1>1. QueueInv => NoIdleBacklog
  BY DEF QueueInv
<1> QED
  BY <1>1, QueueInvHolds, PTL

\* No message is queued twice, or queued while it already has a task.
THEOREM WaitingOnceCorrect == Spec => []WaitingOnce
<1>1. QueueInv => WaitingOnce
  BY DEF QueueInv
<1> QED
  BY <1>1, QueueInvHolds, PTL

-----------------------------------------------------------------------------
(* Serial processing, when no whole tree is stopped.  The strengthening:   *)
(* one task at most is alive, and it keeps the tree busy.                  *)

SerialInv ==
    /\ \A m, n \in Node : task[m] \in Live /\ task[n] \in Live => m = n
    /\ \A n \in Node : task[n] \in Live => isProcessing \/ ~registered

LEMMA SerialInit == Init => SerialInv
<1>1. CASE InitCreated
  BY <1>1, PhaseFacts DEF InitCreated, NewTree, SerialInv
<1>2. CASE InitRestored
  BY <1>2, PhaseFacts DEF InitRestored, NewTree, SerialInv
<1> QED
  BY <1>1, <1>2 DEF Init

LEMMA ProcessNextKeepsSerialInv ==
    ASSUME TypeOK, SerialInv, NEW n \in Node, task[n] \in Live, UNCHANGED registered,
           ProcessNext([task EXCEPT ![n] = "done"])
    PROVE  SerialInv'
<1> USE PhaseFacts
<1> DEFINE ended == [task EXCEPT ![n] = "done"]
<1>1. ended \in [Node -> Phase] /\ \A m \in Node : ended[m] \notin Live
  BY DEF SerialInv, TypeOK
<1>2. CASE queue = << >>
  <2>1. task' = ended
    BY <1>2 DEF ProcessNext
  <2> QED
    BY <1>1, <2>1 DEF SerialInv
<1>3. CASE queue # << >>
  <2>1. BeginProcessing(Head(queue), ended)
    BY <1>3 DEF ProcessNext
  <2>2. isProcessing' /\ (task' = ended \/ task' = [ended EXCEPT ![Head(queue)] = "created"])
    BY <2>1 DEF BeginProcessing, StartTask
  <2> QED
    BY <1>1, <2>2 DEF SerialInv
<1> QED
  BY <1>2, <1>3

\* The steps in which nothing comes to life and the tree stays as busy as it was.
LEMMA QuietKeepsSerialInv ==
    ASSUME SerialInv, UNCHANGED <<registered, isProcessing>>,
           \A m \in Node : task'[m] \in Live => task[m] \in Live
    PROVE  SerialInv'
  BY DEF SerialInv

LEMMA SerialStep ==
    ASSUME Ops \cap {"cancel_tree", "clear_all"} = {}, TypeOK, SerialInv, [Next]_vars
    PROVE  SerialInv'
<1> USE PhaseFacts
<1>1. ASSUME NEW n \in Node, NEW p \in Node, Reply(n, p) PROVE SerialInv'
  <2>1. CASE isProcessing
    BY <1>1, <2>1 DEF Reply, SerialInv
  <2>2. CASE ~isProcessing
    <3>1. \A m \in Node : task[m] \notin Live
      BY <1>1, <2>2 DEF Reply, SerialInv
    <3>2. isProcessing' /\ task' = [task EXCEPT ![n] = "created"]
      BY <1>1, <2>2 DEF Reply, StartTask
    <3> QED
      BY <3>1, <3>2 DEF SerialInv, TypeOK
  <2> QED
    BY <2>1, <2>2
<1>2. ASSUME NEW n \in Node, Skip(n) \/ Finish(n) PROVE SerialInv'
  BY <1>2, ProcessNextKeepsSerialInv DEF Skip, Finish
<1>3. ASSUME NEW n \in Node, TaskEvent(n) PROVE SerialInv'
  BY <1>3, QuietKeepsSerialInv DEF TaskEvent, SessionInfo, CliError
<1>4. ASSUME NEW n \in Node,
             \/ DieUnstarted(n) \/ Start(n) \/ Acquire(n)
             \/ \E code \in {"ok", "failed"} : CliExit(n, code)
             \/ Fails(n) \/ DeliverCancel(n) \/ StopDone(n)
      PROVE  SerialInv'
  <2>1. /\ UNCHANGED <<registered, isProcessing>>
        /\ task[n] \in Live
        /\ \E ph \in Phase : task' = [task EXCEPT ![n] = ph]
    BY <1>4 DEF DieUnstarted, Start, Acquire, CliExit, Fails, DeliverCancel, StopDone
  <2> QED
    BY <2>1, QuietKeepsSerialInv DEF TypeOK
<1>5. ASSUME NEW n \in Node, CancelNode(n) \/ CancelBranch(n) PROVE SerialInv'
  BY <1>5, QuietKeepsSerialInv DEF CancelNode, CancelBranch
<1>6. ~CancelTree /\ ~ClearAll
  BY DEF CancelTree, ClearAll
<1>7. ASSUME NEW b \in Node, RemoveBranch(b) PROVE SerialInv'
  <2>1. UNCHANGED task /\ (registered' = FALSE \/ UNCHANGED <<registered, isProcessing>>)
    BY <1>7 DEF RemoveBranch
  <2> QED
    BY <2>1 DEF SerialInv
<1>8. CASE ReplaceManager \/ UNCHANGED vars
  BY <1>8 DEF ReplaceManager, vars, SerialInv
<1> QED
  BY <1>1, <1>2, <1>3, <1>4, <1>5, <1>6, <1>7, <1>8 DEF Next, TaskProgress

\* When no tree is stopped as a whole, turns of one conversation never overlap,
\* however many messages are sent, stopped one by one or cleared by branch.
THEOREM SerialCorrect ==
    ASSUME Ops \cap {"cancel_tree", "clear_all"} = {}
    PROVE  Spec => []SerialProcessing
<1>1. SerialInv => SerialProcessing
  BY PhaseFacts DEF SerialInv, SerialProcessing
<1>2. TypeOK /\ SerialInv /\ [Next]_vars => SerialInv'
  BY SerialStep
<1> QED
  BY <1>1, <1>2, TypeInit, TypeStep, SerialInit, PTL DEF Spec

-----------------------------------------------------------------------------
(* A busy tree has a task that will look at the queue, when messages are   *)
(* not stopped or cleared one by one.  The strengthening: some live task   *)
(* is past its first step or has not been cancelled, since a task that is  *)
(* cancelled before its first step ends without looking at the queue; and  *)
(* the ids in the queue are in the tree, since _process_next creates no    *)
(* task for one that has left it.                                          *)

BusyInv ==
    /\ clearing \subseteq {NoNode}
    /\ \A i \in DOMAIN queue : queue[i] \in nodes
    /\ \A n \in cancelling : task[n] \in Live
    /\ isProcessing => \E n \in Node : task[n] \in Live /\ (task[n] = "created" => n \notin cancelling)

LEMMA BusyInit == Init => BusyInv
<1>1. CASE InitCreated
  BY <1>1, PhaseFacts, NodeAssumption DEF InitCreated, NewTree, BusyInv
<1>2. CASE InitRestored
  BY <1>2 DEF InitRestored, NewTree, BusyInv
<1> QED
  BY <1>1, <1>2 DEF Init

LEMMA ProcessNextKeepsBusyInv ==
    ASSUME TypeOK, QueueInv, BusyInv, NEW n \in Node, task[n] \in Live,
           ProcessNext([task EXCEPT ![n] = "done"]), cancelling' = cancelling \ {n},
           UNCHANGED <<nodes, clearing>>
    PROVE  BusyInv'
<1> USE PhaseFacts
<1> DEFINE ended == [task EXCEPT ![n] = "done"]
<1>1. CASE queue = << >>
  BY <1>1 DEF ProcessNext, BusyInv, TypeOK
<1>2. CASE queue # << >>
  <2> DEFINE h == Head(queue)
  <2>1. /\ h \in Node /\ h = queue[1] /\ 1 \in DOMAIN queue
        /\ \A i \in DOMAIN Tail(queue) : i + 1 \in DOMAIN queue /\ Tail(queue)[i] = queue[i + 1]
    BY <1>2, HeadTail DEF TypeOK
  <2>2. h \in nodes /\ task[h] = "none"
    BY <2>1 DEF BusyInv, QueueInv, WaitingOnce
  <2>3. queue' = Tail(queue) /\ isProcessing' /\ task' = [ended EXCEPT ![h] = "created"]
    BY <1>2, <2>2 DEF ProcessNext, BeginProcessing, StartTask
  <2>4. h \notin cancelling
    BY <2>2 DEF BusyInv
  <2>5. task'[h] = "created" /\ \A m \in Node : m # h /\ m # n => task'[m] = task[m]
    BY <2>1, <2>3 DEF TypeOK
  <2>6. \A i \in DOMAIN queue' : queue'[i] \in nodes
    BY <2>1, <2>3 DEF BusyInv
  <2>7. \A m \in cancelling' : task'[m] \in Live
    BY <2>5 DEF BusyInv, TypeOK
  <2> QED
    BY <2>1, <2>4, <2>5, <2>6, <2>7 DEF BusyInv
<1> QED
  BY <1>1, <1>2

LEMMA BusyStep ==
    ASSUME Ops \cap {"cancel_node", "cancel_branch"} = {},
           TypeOK, QueueInv, BusyInv, [Next]_vars
    PROVE  BusyInv'
<1> USE PhaseFacts
<1>1. ASSUME NEW n \in Node, NEW p \in Node, Reply(n, p) PROVE BusyInv'
  <2>1. n \notin cancelling /\ n \in nodes' /\ UNCHANGED <<cancelling, clearing>>
        /\ nodes \subseteq nodes'
    BY <1>1 DEF Reply, QueueInv, BusyInv, Fresh
  <2>2. CASE isProcessing
    <3>1. queue' = Append(queue, n) /\ UNCHANGED <<task, isProcessing>>
      BY <1>1, <2>2 DEF Reply
    <3>2. \A i \in DOMAIN queue' : queue'[i] = n \/ (i \in DOMAIN queue /\ queue'[i] = queue[i])
      BY <3>1, AppendProperties, LenProperties DEF TypeOK
    <3> QED
      BY <2>1, <3>1, <3>2 DEF BusyInv
  <2>3. CASE ~isProcessing
    <3>1. UNCHANGED queue /\ task' = [task EXCEPT ![n] = "created"]
      BY <1>1, <2>3 DEF Reply, StartTask
    <3> QED
      BY <2>1, <3>1 DEF BusyInv, TypeOK
  <2> QED
    BY <2>2, <2>3
<1>2. ASSUME NEW n \in Node, Skip(n) \/ Finish(n) PROVE BusyInv'
  <2>1. task[n] \in Live /\ cancelling' = cancelling \ {n}
    BY <1>2 DEF Skip, Finish
  <2> QED
    BY <1>2, <2>1, ProcessNextKeepsBusyInv DEF Skip, Finish
<1>3. ASSUME NEW n \in Node, TaskEvent(n) PROVE BusyInv'
  BY <1>3 DEF TaskEvent, SessionInfo, CliError, BusyInv
<1>4. ASSUME NEW n \in Node, DieUnstarted(n) PROVE BusyInv'
  BY <1>4 DEF DieUnstarted, BusyInv, TypeOK
<1>5. ASSUME NEW n \in Node,
             \/ Start(n) \/ Acquire(n)
             \/ \E code \in {"ok", "failed"} : CliExit(n, code)
             \/ Fails(n) \/ DeliverCancel(n) \/ StopDone(n)
      PROVE  BusyInv'
  <2>1. /\ UNCHANGED <<nodes, queue, isProcessing, clearing>>
        /\ cancelling' \subseteq cancelling
        /\ \E ph \in Active : task' = [task EXCEPT ![n] = ph]
    BY <1>5 DEF Start, Acquire, CliExit, Fails, DeliverCancel, StopDone
  <2> QED
    BY <2>1 DEF BusyInv, TypeOK
<1>6. ASSUME NEW n \in Node PROVE ~CancelNode(n) /\ ~CancelBranch(n)
  BY DEF CancelNode, CancelBranch
<1>7. CASE CancelTree \/ ClearAll
  BY <1>7 DEF CancelTree, ClearAll, CancelTreeStep, CancelCurrent, TaskCancellable, BusyInv
<1>8. ASSUME NEW b \in Node PROVE ~RemoveBranch(b)
  BY NodeAssumption DEF RemoveBranch, BusyInv
<1>9. CASE ReplaceManager \/ UNCHANGED vars
  BY <1>9 DEF ReplaceManager, vars, BusyInv
<1> QED
  BY <1>1, <1>2, <1>3, <1>4, <1>5, <1>6, <1>7, <1>8, <1>9 DEF Next, TaskProgress

\* When users stop or clear whole trees only, a busy tree always has a task that
\* will look at the queue when it ends.  (The run tree_wedged shows what becomes
\* of it when single messages are stopped.)
THEOREM BusyMeansLiveCorrect ==
    ASSUME Ops \cap {"cancel_node", "cancel_branch"} = {}
    PROVE  Spec => []BusyMeansLive
<1>1. BusyInv => BusyMeansLive
  BY DEF BusyInv, BusyMeansLive
<1>2. TypeOK /\ QueueInv /\ BusyInv /\ [Next]_vars => BusyInv'
  BY BusyStep
<1> QED
  BY <1>1, <1>2, TypeInit, TypeStep, QueueInvInit, QueueInvStep, BusyInit, PTL DEF Spec

-----------------------------------------------------------------------------
(* The action properties, under every set of operations.                   *)

LEMMA PendingChildrenPending ==
    \A n : \A m \in PendingChildren(n) : state[m] = "pending"
<1> SUFFICES ASSUME NEW n, NEW m \in PendingChildren(n) PROVE state[m] = "pending"
  OBVIOUS
<1> DEFINE S == {x \in nodes : state[x] = "pending"}
<1>1. S \in SUBSET nodes /\ \A x \in nodes : parent[x] \in S \cup {n} /\ state[x] = "pending" => x \in S
  OBVIOUS
<1>2. m \in S
  BY <1>1 DEF PendingChildren
<1> QED
  BY <1>2

\* What any step may do to the state of a node n with no task or with a task
\* that has not taken its first step, when that state is ERROR.
LEMMA StoppedStep ==
    ASSUME TypeOK, [Next]_vars, NEW n \in Node,
           state[n] = "error", task[n] \in {"none", "created"}
    PROVE  state'[n] = "error" /\ task'[n] \notin Active
<1> USE PhaseFacts
<1>1. ASSUME NEW m \in Node, NEW p \in Node, Reply(m, p)
      PROVE  state'[n] = "error" /\ task'[n] \notin Active
  BY <1>1 DEF Reply, StartTask, TypeOK
<1>2. ASSUME NEW m \in Node, Skip(m) \/ Finish(m)
      PROVE  state'[n] = "error" /\ task'[n] \notin Active
  <2>1. task' = [task EXCEPT ![m] = "done"]
        \/ \E h : task' = [[task EXCEPT ![m] = "done"] EXCEPT ![h] = "created"]
    BY <1>2 DEF Skip, Finish, ProcessNext, BeginProcessing, StartTask
  <2> QED
    BY <1>2, <2>1 DEF Skip, Finish, TypeOK
<1>3. ASSUME NEW m \in Node, TaskEvent(m)
      PROVE  state'[n] = "error" /\ task'[n] \notin Active
  BY <1>3 DEF TaskEvent, SessionInfo, CliError, UpdateState, MarkedError, TypeOK
<1>4. ASSUME NEW m \in Node, DieUnstarted(m) \/ Start(m) \/ Acquire(m)
      PROVE  state'[n] = "error" /\ task'[n] \notin Active
  BY <1>4 DEF DieUnstarted, Start, Acquire, UpdateState, TypeOK
<1>5. ASSUME NEW m \in Node, \/ \E code \in {"ok", "failed"} : CliExit(m, code)
                             \/ Fails(m) \/ DeliverCancel(m) \/ StopDone(m)
      PROVE  state'[n] = "error" /\ task'[n] \notin Active
  <2>1. m # n /\ \E ph \in Phase : task' = [task EXCEPT ![m] = ph]
    BY <1>5 DEF CliExit, Fails, DeliverCancel, StopDone
  <2>2. state'[n] = state[n] \/ state'[n] = "error"
    <3>1. CompletedFrom(m, state)[n] = state[n]
          /\ CompletedFrom(m, MarkedError(m))[n] = MarkedError(m)[n]
      BY <2>1 DEF CompletedFrom
    <3>2. MarkedError(m)[n] = state[n] \/ MarkedError(m)[n] = "error"
      BY DEF MarkedError
    <3>3. CASE \E code \in {"ok", "failed"} : CliExit(m, code)
      BY <3>1, <3>2, <3>3 DEF CliExit
    <3>4. CASE Fails(m) \/ DeliverCancel(m) \/ StopDone(m)
      BY <2>1, <3>2, <3>4 DEF Fails, DeliverCancel, StopDone, UpdateState, TypeOK
    <3> QED
      BY <1>5, <3>3, <3>4
  <2> QED
    BY <2>1, <2>2 DEF TypeOK
<1>6. ASSUME NEW m \in Node, CancelNode(m) \/ CancelBranch(m)
      PROVE  state'[n] = "error" /\ task'[n] \notin Active
  BY <1>6 DEF CancelNode, CancelBranch, TypeOK
<1>7. CASE CancelTree \/ ClearAll
  BY <1>7 DEF CancelTree, ClearAll, CancelTreeStep, TypeOK
<1>8. ASSUME NEW b \in Node, RemoveBranch(b)
      PROVE  state'[n] = "error" /\ task'[n] \notin Active
  BY <1>8 DEF RemoveBranch, CancelTreeStep, TypeOK
<1>9. CASE ReplaceManager \/ UNCHANGED vars
  BY <1>9 DEF ReplaceManager, vars
<1> QED
  BY <1>1, <1>2, <1>3, <1>4, <1>5, <1>6, <1>7, <1>8, <1>9 DEF Next, TaskProgress

\* A message stopped, or whose parent failed, before its turn began never
\* reaches the CLI.
THEOREM StoppedNeverRunsCorrect == Spec => StoppedNeverRuns
<1>1. TypeOK /\ [Next]_vars =>
        [\A n \in Node : state[n] = "error" /\ task[n] \in {"none", "created"} =>
            state'[n] = "error" /\ task'[n] \notin Active]_vars
  BY StoppedStep
<1> QED
  BY <1>1, TypeInit, TypeStep, PTL DEF Spec, StoppedNeverRuns

\* A node is COMPLETED only when its task is past its CLI run, or when it is
\* the root of a tree reloaded from disk; so nothing is left that could
\* overwrite the state.
CompletedInv ==
    \A n \in Node : state[n] = "completed" =>
        task[n] \in {"finishing", "done"} \/ (n = Root /\ task[n] = "none")

LEMMA CompletedInit == Init => CompletedInv
<1>1. CASE InitCreated
  BY <1>1 DEF InitCreated, NewTree, CompletedInv
<1>2. CASE InitRestored
  BY <1>2 DEF InitRestored, NewTree, CompletedInv
<1> QED
  BY <1>1, <1>2 DEF Init

\* mark_node_error(m), m running, does not touch a COMPLETED node and makes none.
LEMMA MarkedErrorOnCompleted ==
    ASSUME TypeOK, CompletedInv, NEW m \in Node, task[m] \in {"starting", "running"},
           NEW n \in Node
    PROVE  MarkedError(m)[n] = "completed" <=> state[n] = "completed"
<1>1. state[m] # "completed"
  BY DEF CompletedInv
<1> QED
  BY <1>1, PendingChildrenPending DEF MarkedError

LEMMA CompletedStep ==
    ASSUME TypeOK, QueueInv, CompletedInv, [Next]_vars
    PROVE  /\ CompletedInv'
           /\ \A n \in Node : state[n] = "completed" => state'[n] = "completed"
<1> DEFINE Goal == /\ CompletedInv'
                   /\ \A n \in Node : state[n] = "completed" => state'[n] = "completed"
<1> USE PhaseFacts
<1>1. ASSUME NEW m \in Node, NEW p \in Node, Reply(m, p) PROVE Goal
  <2>1. m # Root /\ task[m] = "none" /\ state' = state
    BY <1>1 DEF Reply, Fresh, QueueInv, TypeOK
  <2>2. \A n \in Node : n # m => task'[n] = task[n]
    BY <1>1 DEF Reply, StartTask, TypeOK
  <2> QED
    BY <2>1, <2>2 DEF CompletedInv
<1>2. ASSUME NEW m \in Node, Skip(m) \/ Finish(m) PROVE Goal
  <2>1. task[m] # "none" /\ state' = state
    BY <1>2 DEF Skip, Finish
  <2>2. CASE queue = << >>
    <3>1. task' = [task EXCEPT ![m] = "done"]
      BY <1>2, <2>2 DEF Skip, Finish, ProcessNext
    <3> QED
      BY <2>1, <3>1 DEF CompletedInv, TypeOK
  <2>3. CASE queue # << >>
    <3> DEFINE h == Head(queue)
    <3>1. h \in Node /\ h = queue[1] /\ 1 \in DOMAIN queue
      BY <2>3, HeadTail DEF TypeOK
    <3>2. task[h] = "none" /\ h # Root
      BY <3>1 DEF QueueInv, WaitingOnce
    <3>3. state[h] # "completed"
      BY <3>1, <3>2 DEF CompletedInv
    <3>4. task' = [task EXCEPT ![m] = "done"]
          \/ task' = [[task EXCEPT ![m] = "done"] EXCEPT ![h] = "created"]
      BY <1>2, <2>3 DEF Skip, Finish, ProcessNext, BeginProcessing, StartTask
    <3>5. \A n \in Node : n # m /\ n # h => task'[n] = task[n]
      BY <3>1, <3>4 DEF TypeOK
    <3>6. m # h /\ task'[m] = "done"
      BY <2>1, <3>2, <3>4 DEF TypeOK
    <3> QED
      BY <2>1, <3>3, <3>5, <3>6 DEF CompletedInv
  <2> QED
    BY <2>2, <2>3
<1>3. ASSUME NEW m \in Node, TaskEvent(m) PROVE Goal
  <2>1. CASE SessionInfo(m)
    BY <2>1 DEF SessionInfo, UpdateState, CompletedInv, TypeOK
  <2>2. CASE CliError(m)
    BY <2>2, MarkedErrorOnCompleted DEF CliError, CompletedInv
  <2> QED
    BY <1>3, <2>1, <2>2 DEF TaskEvent
<1>4. ASSUME NEW m \in Node, DieUnstarted(m) \/ Start(m) \/ Acquire(m) \/ DeliverCancel(m) \/ StopDone(m)
      PROVE  Goal
  <2>1. /\ state[m] # "completed"
        /\ state' = state \/ \E s \in {"in_progress", "error"} : state' = [state EXCEPT ![m] = s]
        /\ \E ph \in Phase : task' = [task EXCEPT ![m] = ph]
    BY <1>4 DEF DieUnstarted, Start, Acquire, DeliverCancel, StopDone, UpdateState, CompletedInv
  <2>2. \A n \in Node : n # m => state'[n] = state[n] /\ task'[n] = task[n]
    BY <2>1 DEF TypeOK
  <2>3. state'[m] # "completed"
    BY <2>1 DEF TypeOK
  <2> QED
    BY <2>1, <2>2, <2>3 DEF CompletedInv
<1>5. ASSUME NEW m \in Node, NEW code \in {"ok", "failed"}, CliExit(m, code) PROVE Goal
  <2>1. state[m] # "completed" /\ task' = [task EXCEPT ![m] = "finishing"]
    BY <1>5 DEF CliExit, CompletedInv
  <2>2. ASSUME NEW n \in Node, n # m
        PROVE  state'[n] = "completed" <=> state[n] = "completed"
    BY <1>5, <2>2, MarkedErrorOnCompleted DEF CliExit, CompletedFrom
  <2> QED
    BY <2>1, <2>2 DEF CompletedInv, TypeOK
<1>6. ASSUME NEW m \in Node, Fails(m) PROVE Goal
  <2>1. \A n \in Node : state'[n] = "completed" <=> state[n] = "completed"
    BY <1>6, MarkedErrorOnCompleted DEF Fails
  <2>2. task' = [task EXCEPT ![m] = "finishing"]
    BY <1>6 DEF Fails
  <2> QED
    BY <2>1, <2>2 DEF CompletedInv, TypeOK
<1>7. ASSUME NEW m \in Node, CancelNode(m) \/ CancelBranch(m) PROVE Goal
  BY <1>7 DEF CancelNode, CancelBranch, Settled, CompletedInv, TypeOK
<1>8. ASSUME CancelTreeStep, UNCHANGED task PROVE Goal
  <2>1. \A n \in Node : Queued(n) => state[n] # "completed"
    BY DEF Queued, QueueInv, WaitingOnce, CompletedInv
  <2> QED
    BY <1>8, <2>1 DEF CancelTreeStep, Settled, CompletedInv
<1>9. CASE CancelTree \/ ClearAll
  BY <1>8, <1>9 DEF CancelTree, ClearAll
<1>10. ASSUME NEW b \in Node, RemoveBranch(b) PROVE Goal
  <2>1. UNCHANGED task /\ (UNCHANGED state \/ CancelTreeStep)
    BY <1>10 DEF RemoveBranch
  <2> QED
    BY <1>8, <2>1 DEF CompletedInv
<1>11. CASE ReplaceManager \/ UNCHANGED vars
  BY <1>11 DEF ReplaceManager, vars, CompletedInv
<1> QED
  BY <1>1, <1>2, <1>3, <1>4, <1>5, <1>6, <1>7, <1>9, <1>10, <1>11 DEF Next, TaskProgress

\* Once a turn is recorded COMPLETED no stop, clear or late event changes that.
THEOREM CompletedIsFinalCorrect == Spec => CompletedIsFinal
<1>1. TypeOK /\ QueueInv /\ CompletedInv /\ [Next]_vars => CompletedInv'
  BY CompletedStep
<1>2. TypeOK /\ QueueInv /\ CompletedInv /\ [Next]_vars =>
        [\A n \in Node : state[n] = "completed" => state'[n] = "completed"]_vars
  BY CompletedStep
<1> QED
  BY <1>1, <1>2, TypeInit, TypeStep, QueueInvInit, QueueInvStep, CompletedInit, PTL
     DEF Spec, CompletedIsFinal

-----------------------------------------------------------------------------
(* A turn runs after the turn it replies to.  The queue is ordered by the  *)
(* reply relation, and the parent of a turn that has a task does not wait. *)

OrderInv ==
    /\ \A i, j \in DOMAIN queue : parent[queue[j]] = queue[i] => i < j
    /\ \A n \in Node : task[n] \in Live => ~Queued(parent[n])
    /\ \A n \in Node : parent[n] # n /\ (parent[n] # NoNode => ~Fresh(parent[n]))
    /\ \A n \in nodes : ~Fresh(n)

LEMMA OrderInit == Init => OrderInv
<1> USE NodeAssumption, PhaseFacts
<1>1. CASE InitCreated
  BY <1>1 DEF InitCreated, NewTree, OrderInv, Queued, Fresh
<1>2. CASE InitRestored
  BY <1>2 DEF InitRestored, NewTree, OrderInv, Queued, Fresh
<1> QED
  BY <1>1, <1>2 DEF Init

LEMMA ReplyKeepsOrderInv ==
    ASSUME TypeOK, QueueInv, OrderInv, NEW n \in Node, NEW p \in Node, Reply(n, p)
    PROVE  OrderInv'
<1> USE NodeAssumption, PhaseFacts
<1>1. /\ Fresh(n) /\ p # n /\ p # NoNode /\ ~Fresh(p) /\ task[n] = "none"
      /\ parent' = [parent EXCEPT ![n] = p] /\ nodes' = nodes \cup {n}
  BY DEF Reply, OrderInv, QueueInv, Fresh
<1>2. \A m \in Node : (~Fresh(m) => ~Fresh(m)') /\ (m # n => parent'[m] = parent[m])
  BY <1>1 DEF Fresh, TypeOK
<1>3. ~Fresh(n)' /\ parent'[n] = p
  BY <1>1 DEF Fresh, TypeOK
<1>4. \A m \in Node : parent[m] # n
  BY <1>1 DEF OrderInv
<1>5. \A m \in Node : parent'[m] # m /\ (parent'[m] # NoNode => ~Fresh(parent[m])')
  <2>1. ASSUME NEW m \in Node PROVE parent'[m] # m /\ (parent'[m] # NoNode => ~Fresh(parent[m])')
    <3>1. parent[m] \in Node \cup {NoNode}
      BY DEF TypeOK
    <3>2. CASE m = n
      BY <1>1, <1>2, <1>3, <3>2 DEF Fresh
    <3>3. CASE m # n
      BY <1>2, <3>1, <3>3 DEF OrderInv, Fresh
    <3> QED
      BY <3>2, <3>3
  <2> QED
    BY <2>1
<1>6. \A m \in nodes' : ~Fresh(m)'
  BY <1>1, <1>2, <1>3 DEF OrderInv, TypeOK
<1>7. \A i \in DOMAIN queue : queue[i] \in Node /\ queue[i] # n
  BY <1>1, ElementOfSeq DEF TypeOK, QueueInv
<1>8. CASE isProcessing
  <2>1. queue' = Append(queue, n) /\ UNCHANGED task
    BY <1>8 DEF Reply
  <2>2. /\ Len(queue) \in Nat
        /\ DOMAIN queue = 1..Len(queue)
        /\ DOMAIN queue' = 1..(Len(queue) + 1)
        /\ \A i \in DOMAIN queue : queue'[i] = queue[i]
        /\ queue'[Len(queue) + 1] = n
    BY <2>1, AppendProperties, LenProperties DEF TypeOK
  <2>3. ASSUME NEW i \in DOMAIN queue', NEW j \in DOMAIN queue', parent'[queue'[j]] = queue'[i]
        PROVE  i < j
    <3>1. CASE j \in DOMAIN queue
      <4>1. parent[queue[j]] = queue'[i]
        BY <1>2, <1>7, <2>2, <2>3, <3>1
      <4>2. i \in DOMAIN queue
        BY <1>4, <1>7, <2>2, <3>1, <4>1
      <4> QED
        BY <2>2, <3>1, <4>1, <4>2 DEF OrderInv
    <3>2. CASE j = Len(queue) + 1
      <4>1. queue'[i] # n
        BY <1>1, <1>3, <2>2, <2>3, <3>2
      <4> QED
        BY <2>2, <3>2, <4>1
    <3> QED
      BY <2>2, <3>1, <3>2
  <2>4. ASSUME NEW m \in Node, task'[m] \in Live PROVE ~Queued(parent[m])'
    <3>1. m # n /\ task[m] \in Live
      BY <1>1, <2>1, <2>4
    <3>2. parent'[m] = parent[m] /\ ~Queued(parent[m]) /\ parent[m] # n
      BY <1>2, <1>4, <3>1 DEF OrderInv
    <3> QED
      BY <2>2, <3>2 DEF Queued
  <2> QED
    BY <1>5, <1>6, <2>3, <2>4 DEF OrderInv
<1>9. CASE ~isProcessing
  <2>1. queue' = << >>
    BY <1>9 DEF Reply, QueueInv, NoIdleBacklog
  <2> QED
    BY <1>5, <1>6, <2>1 DEF OrderInv, Queued
<1> QED
  BY <1>8, <1>9

LEMMA ProcessNextKeepsOrderInv ==
    ASSUME TypeOK, QueueInv, OrderInv, NEW n \in Node,
           ProcessNext([task EXCEPT ![n] = "done"]), UNCHANGED <<parent, nodes>>
    PROVE  OrderInv'
<1> USE PhaseFacts
<1>1. CASE queue = << >>
  BY <1>1 DEF ProcessNext, OrderInv, Queued, Fresh
<1>2. CASE queue # << >>
  <2> DEFINE h == Head(queue)
  <2>1. queue' = Tail(queue) /\ BeginProcessing(h, [task EXCEPT ![n] = "done"])
    BY <1>2 DEF ProcessNext
  <2>2. /\ h \in Node /\ h = queue[1] /\ 1 \in DOMAIN queue
        /\ \A i \in DOMAIN queue' : i + 1 \in DOMAIN queue /\ queue'[i] = queue[i + 1]
        /\ DOMAIN queue' \subseteq Nat \ {0}
    BY <1>2, <2>1, HeadTail, LenProperties DEF TypeOK
  <2>3. \A i, j \in DOMAIN queue' : parent[queue'[j]] = queue'[i] => i < j
    BY <2>2 DEF OrderInv
  <2>4. \A m : Queued(m)' => Queued(m)
    BY <2>2 DEF Queued
  <2>5. ASSUME NEW m \in Node, task'[m] \in Live PROVE ~Queued(parent[m])'
    <3>1. task'[m] = task[m] \/ m = h \/ (m = n /\ task'[m] = "done")
      BY <2>1, <2>2 DEF BeginProcessing, StartTask, TypeOK
    <3>2. CASE m = h
      <4>1. \A i \in DOMAIN queue' : parent[h] # queue'[i]
        BY <2>2 DEF OrderInv
      <4> QED
        BY <3>2, <4>1 DEF Queued
    <3>3. CASE task'[m] = task[m]
      BY <2>4, <2>5, <3>3 DEF OrderInv, Queued
    <3> QED
      BY <2>5, <3>1, <3>2, <3>3
  <2> QED
    BY <2>3, <2>5 DEF OrderInv, Fresh
<1> QED
  BY <1>1, <1>2

LEMMA WithoutKeepsOrderInv ==
    ASSUME TypeOK, OrderInv, NEW S, queue' \in Without(queue, S),
           UNCHANGED <<parent, task, nodes>>
    PROVE  OrderInv'
<1>1. PICK f \in [1..Len(queue') -> DOMAIN queue] :
         /\ \A i \in 1..Len(queue') : queue'[i] = queue[f[i]] /\ queue'[i] \notin S
         /\ \A i, j \in 1..Len(queue') : i < j => f[i] < f[j]
  <2>1. queue \in Seq(Node)
    BY DEF TypeOK
  <2> QED
    BY <2>1, WithoutProperties
<1>2. queue \in Seq(Node) /\ queue' \in Seq(Node)
  BY WithoutProperties DEF TypeOK
<1>3. DOMAIN queue' = 1..Len(queue') /\ Len(queue') \in Nat /\ DOMAIN queue \subseteq Nat
  BY <1>2, LenProperties
<1>4. \A i \in DOMAIN queue' : f[i] \in DOMAIN queue /\ queue'[i] = queue[f[i]]
  BY <1>1, <1>3
<1>5. ASSUME NEW i \in DOMAIN queue', NEW j \in DOMAIN queue', parent[queue'[j]] = queue'[i]
      PROVE  i < j
  <2>1. f[i] < f[j]
    BY <1>4, <1>5 DEF OrderInv
  <2>2. i \in Nat /\ j \in Nat /\ f[i] \in Nat /\ f[j] \in Nat
    BY <1>3, <1>4
  <2>3. i # j /\ (j < i => f[j] < f[i])
    BY <1>1, <1>3, <2>1, <2>2
  <2> QED
    BY <2>1, <2>2, <2>3
<1>6. \A m : Queued(m)' => Queued(m)
  BY <1>4 DEF Queued
<1> QED
  BY <1>5, <1>6 DEF OrderInv, Fresh, Queued

\* The steps in which nothing is queued and nothing comes to life.
LEMMA QuietKeepsOrderInv ==
    ASSUME OrderInv, UNCHANGED parent, queue' = queue \/ queue' = << >>, nodes' \subseteq nodes,
           \A m \in Node : task'[m] \in Live => task[m] \in Live
    PROVE  OrderInv'
  BY DEF OrderInv, Fresh, Queued

LEMMA OrderStep ==
    ASSUME TypeOK, QueueInv, OrderInv, [Next]_vars
    PROVE  OrderInv'
<1> USE PhaseFacts
<1>1. ASSUME NEW n \in Node, NEW p \in Node, Reply(n, p) PROVE OrderInv'
  BY <1>1, ReplyKeepsOrderInv
<1>2. ASSUME NEW n \in Node, Skip(n) \/ Finish(n) PROVE OrderInv'
  BY <1>2, ProcessNextKeepsOrderInv DEF Skip, Finish
<1>3. ASSUME NEW n \in Node, TaskEvent(n) PROVE OrderInv'
  BY <1>3, QuietKeepsOrderInv DEF TaskEvent, SessionInfo, CliError
<1>4. ASSUME NEW n \in Node,
             \/ DieUnstarted(n) \/ Start(n) \/ Acquire(n)
             \/ \E code \in {"ok", "failed"} : CliExit(n, code)
             \/ Fails(n) \/ DeliverCancel(n) \/ StopDone(n)
      PROVE  OrderInv'
  <2>1. /\ UNCHANGED <<nodes, parent, queue>>
        /\ task[n] \in Live
        /\ \E ph \in Phase : task' = [task EXCEPT ![n] = ph]
    BY <1>4 DEF DieUnstarted, Start, Acquire, CliExit, Fails, DeliverCancel, StopDone
  <2> QED
    BY <2>1, QuietKeepsOrderInv DEF TypeOK
<1>5. ASSUME NEW n \in Node, CancelNode(n) PROVE OrderInv'
  BY <1>5, WithoutKeepsOrderInv DEF CancelNode
<1>6. ASSUME NEW b \in Node, CancelBranch(b) PROVE OrderInv'
  BY <1>6, WithoutKeepsOrderInv DEF CancelBranch
<1>7. CASE CancelTree \/ ClearAll
  BY <1>7, QuietKeepsOrderInv DEF CancelTree, ClearAll, CancelTreeStep
<1>8. ASSUME NEW b \in Node, RemoveBranch(b) PROVE OrderInv'
  <2>1. UNCHANGED <<parent, task>> /\ nodes' \subseteq nodes /\ (queue' = queue \/ queue' = << >>)
    BY <1>8 DEF RemoveBranch, CancelTreeStep
  <2> QED
    BY <2>1, QuietKeepsOrderInv
<1>9. CASE ReplaceManager \/ UNCHANGED vars
  BY <1>9, QuietKeepsOrderInv DEF ReplaceManager, vars
<1> QED
  BY <1>1, <1>2, <1>3, <1>4, <1>5, <1>6, <1>7, <1>8, <1>9 DEF Next, TaskProgress

\* When no tree is stopped as a whole, a turn runs only after the turn it
\* replies to has ended or has been taken out of the queue.
THEOREM ParentSettledFirstCorrect ==
    ASSUME Ops \cap {"cancel_tree", "clear_all"} = {}
    PROVE  Spec => []ParentSettledFirst
<1>1. TypeOK /\ SerialInv /\ OrderInv => ParentSettledFirst
  BY NodeAssumption, PhaseFacts DEF TypeOK, SerialInv, OrderInv, ParentSettledFirst
<1>2. TypeOK /\ SerialInv /\ [Next]_vars => SerialInv'
  BY SerialStep
<1>3. TypeOK /\ QueueInv /\ OrderInv /\ [Next]_vars => OrderInv'
  BY OrderStep
<1> QED
  BY <1>1, <1>2, <1>3, TypeInit, TypeStep, QueueInvInit, QueueInvStep, SerialInit,
     OrderInit, PTL DEF Spec

-----------------------------------------------------------------------------
(***************************************************************************)
(* A TreeQueue whose users stop messages one by one implements             *)
(* SerialQueue: every action of a task, of a reply and of a stop is a step *)
(* of the abstract queue or leaves it unchanged.                           *)
(***************************************************************************)
(* More about the filter of the queue: its increasing enumeration reaches  *)
(* every position that stays.                                              *)

\* f is the enumeration of the positions of q that stay, and r is what it reads.
Enumerates(f, q, S, r) ==
    /\ f \in [1..Len(r) -> Kept(q, S)]
    /\ \A i, j \in 1..Len(r) : i < j => f[i] < f[j]
    /\ \A k \in Kept(q, S) : \E i \in 1..Len(r) : f[i] = k
    /\ \A i \in 1..Len(r) : r[i] = q[f[i]]

LEMMA KeptFinite ==
    ASSUME NEW E, NEW q \in Seq(E), NEW S
    PROVE  /\ Kept(q, S) \subseteq 1..Len(q) /\ Len(q) \in Nat
           /\ IsFiniteSet(Kept(q, S)) /\ Cardinality(Kept(q, S)) \in Nat
<1>1. Kept(q, S) \subseteq 1..Len(q) /\ Len(q) \in Nat
  BY LenProperties DEF Kept
<1>2. IsFiniteSet(1..Len(q))
  BY <1>1, FS_Interval
<1> QED
  BY <1>1, <1>2, FS_Subset, FS_CardinalityType

LEMMA IntervalSize ==
    ASSUME NEW a \in Nat, NEW b \in Nat \cup {-1}, a <= b + 1
    PROVE  IsFiniteSet(a..b) /\ Cardinality(a..b) = b - a + 1
<1>1. a \in Int /\ b \in Int
  OBVIOUS
<1>2. IsFiniteSet(a..b) /\ Cardinality(a..b) = IF a > b THEN 0 ELSE b - a + 1
  BY <1>1, FS_Interval
<1> QED
  BY <1>1, <1>2

LEMMA PrefixSize ==
    ASSUME NEW n \in Nat
    PROVE  IsFiniteSet(1..n) /\ Cardinality(1..n) = n
<1>1. 1 <= n + 1 /\ n - 1 + 1 = n
  OBVIOUS
<1> QED
  BY <1>1, IntervalSize

\* How many numbers lie below i, and how many above it.
LEMMA SidesSize ==
    ASSUME NEW n \in Nat, NEW i \in 1..n
    PROVE  /\ IsFiniteSet(1..(i - 1)) /\ Cardinality(1..(i - 1)) = i - 1
           /\ IsFiniteSet((i + 1)..n) /\ Cardinality((i + 1)..n) = n - i
<1> DEFINE below == i - 1
<1> DEFINE next == i + 1
<1>1. below \in Nat /\ next \in Nat /\ 1 \in Nat /\ 1 <= below + 1 /\ next <= n + 1
  OBVIOUS
<1>2. below - 1 + 1 = i - 1 /\ n - next + 1 = n - i
  OBVIOUS
<1> HIDE DEF below, next
<1>3. IsFiniteSet(1..below) /\ Cardinality(1..below) = below - 1 + 1
  BY <1>1, IntervalSize
<1>4. IsFiniteSet(next..n) /\ Cardinality(next..n) = n - next + 1
  BY <1>1, IntervalSize
<1> QED
  BY <1>2, <1>3, <1>4 DEF below, next

LEMMA InjectiveBound ==
    ASSUME NEW S, NEW T, IsFiniteSet(T), IsFiniteSet(S), NEW g \in [S -> T],
           \A k, l \in S : g[k] = g[l] => k = l
    PROVE  Cardinality(S) <= Cardinality(T)
<1>1. g \in Injection(S, T)
  BY DEF Injection, IsInjective
<1> QED
  BY <1>1, FS_Injection

\* A strictly increasing function on an interval is one to one.
LEMMA IncreasingInjective ==
    ASSUME NEW n \in Nat, NEW K \in SUBSET Nat, NEW f \in [1..n -> K],
           \A i, j \in 1..n : i < j => f[i] < f[j]
    PROVE  f \in Injection(1..n, K)
<1>1. \A i, j \in 1..n : f[i] = f[j] => i = j
  <2> SUFFICES ASSUME NEW i \in 1..n, NEW j \in 1..n, f[i] = f[j] PROVE i = j
    OBVIOUS
  <2>1. f[i] \in Nat /\ f[j] \in Nat
    OBVIOUS
  <2>2. ~(i < j)
    <3> SUFFICES ASSUME i < j PROVE FALSE
      OBVIOUS
    <3>1. f[i] < f[j]
      OBVIOUS
    <3> QED
      BY <2>1, <3>1
  <2>3. ~(j < i)
    <3> SUFFICES ASSUME j < i PROVE FALSE
      OBVIOUS
    <3>1. f[j] < f[i]
      OBVIOUS
    <3> QED
      BY <2>1, <3>1
  <2>4. i \in Nat /\ j \in Nat
    OBVIOUS
  <2> QED
    BY <2>2, <2>3, <2>4
<1> QED
  BY <1>1 DEF Injection, IsInjective

LEMMA WithoutElim ==
    ASSUME NEW E, NEW q \in Seq(E), NEW S, NEW r \in Without(q, S)
    PROVE  r \in Seq(E) /\ \E f : Enumerates(f, q, S, r)
<1> DEFINE K == Kept(q, S)
<1> DEFINE c == Cardinality(K)
<1>1. K \subseteq 1..Len(q) /\ IsFiniteSet(K) /\ c \in Nat /\ Len(q) \in Nat
  BY KeptFinite
<1>2. PICK f \in Increasing(K) : r = [i \in 1..c |-> q[f[i]]]
  BY DEF Without
<1>3. f \in [1..c -> K] /\ \A i, j \in 1..c : i < j => f[i] < f[j]
  BY <1>2 DEF Increasing
<1>4. r \in Seq(E) /\ Len(r) = c
  <2>1. r \in Seq(E)
    BY WithoutProperties
  <2>2. DOMAIN r = 1..c /\ DOMAIN r = 1..Len(r) /\ Len(r) \in Nat
    BY <1>2, <2>1, LenProperties
  <2> QED
    BY <1>1, <2>1, <2>2
<1>5. f \in Surjection(1..c, K)
  <2> HIDE DEF c, K
  <2>1. K \in SUBSET Nat
    BY <1>1
  <2>2. f \in Injection(1..c, K)
    BY <1>1, <1>3, <2>1, IncreasingInjective
  <2>3. Cardinality(1..c) = c
    BY <1>1, FS_Interval
  <2> QED
    BY <1>1, <2>2, <2>3, FS_Injection DEF c
<1>6. Enumerates(f, q, S, r)
  BY <1>1, <1>2, <1>3, <1>4, <1>5 DEF Enumerates, Surjection
<1> QED
  BY <1>4, <1>6

LEMMA WithoutIntro ==
    ASSUME NEW E, NEW q \in Seq(E), NEW S, NEW r \in Seq(E), NEW f, Enumerates(f, q, S, r)
    PROVE  r \in Without(q, S)
<1> DEFINE K == Kept(q, S)
<1> DEFINE n == Len(r)
<1>1. n \in Nat /\ r = [i \in 1..n |-> r[i]]
  BY LenProperties
<1>2. K \in SUBSET Nat /\ IsFiniteSet(K)
  BY KeptFinite
<1>3. f \in [1..n -> K] /\ \A i, j \in 1..n : i < j => f[i] < f[j]
  BY DEF Enumerates
<1>4. Cardinality(K) = n
  <2>1. f \in Surjection(1..n, K)
    BY <1>3 DEF Enumerates, Surjection
  <2> HIDE DEF K, n
  <2>2. f \in Injection(1..n, K)
    BY <1>1, <1>2, <1>3, IncreasingInjective
  <2>3. Cardinality(1..n) = n
    BY <1>1, FS_Interval
  <2> QED
    BY <1>2, <2>1, <2>2, <2>3, FS_Injection
<1>5. f \in Increasing(K)
  BY <1>3, <1>4 DEF Increasing
<1>6. r = [i \in 1..n |-> q[f[i]]]
  BY <1>1 DEF Enumerates
<1> QED
  BY <1>4, <1>5, <1>6 DEF Without

\* Strictly increasing from 1..n onto 1..n: the identity.  As many positions
\* lie before i as before f[i], and as many after.
LEMMA IncreasingIdentity ==
    ASSUME NEW n \in Nat, NEW f \in [1..n -> 1..n],
           \A i, j \in 1..n : i < j => f[i] < f[j]
    PROVE  \A i \in 1..n : f[i] = i
<1> SUFFICES ASSUME NEW i \in 1..n PROVE f[i] = i
  OBVIOUS
<1> DEFINE m == f[i]
<1>1. i \in Nat /\ m \in Nat /\ m \in 1..n
  OBVIOUS
<1>2. i - 1 <= m - 1
  <2> DEFINE g == [k \in 1..(i - 1) |-> f[k]]
  <2>1. g \in [1..(i - 1) -> 1..(m - 1)] /\ \A k, l \in 1..(i - 1) : g[k] = g[l] => k = l
    <3>1. ASSUME NEW k \in 1..(i - 1) PROVE f[k] \in 1..(m - 1)
      BY <1>1
    <3>2. ASSUME NEW k \in 1..(i - 1), NEW l \in 1..(i - 1), f[k] = f[l] PROVE k = l
      <4>1. k \in 1..n /\ l \in 1..n /\ f[k] \in Nat /\ f[l] \in Nat
        OBVIOUS
      <4>2. ~(k < l) /\ ~(l < k)
        BY <3>2, <4>1
      <4> QED
        BY <4>1, <4>2
    <3> QED
      BY <3>1, <3>2
  <2> HIDE DEF g, m
  <2>2. IsFiniteSet(1..(i - 1)) /\ Cardinality(1..(i - 1)) = i - 1
    BY SidesSize
  <2>3. IsFiniteSet(1..(m - 1)) /\ Cardinality(1..(m - 1)) = m - 1
    BY <1>1, SidesSize
  <2>4. Cardinality(1..(i - 1)) <= Cardinality(1..(m - 1))
    BY <2>1, <2>2, <2>3, InjectiveBound
  <2> QED
    BY <2>2, <2>3, <2>4
<1>3. n - i <= n - m
  <2> DEFINE g == [k \in (i + 1)..n |-> f[k]]
  <2>1. g \in [(i + 1)..n -> (m + 1)..n] /\ \A k, l \in (i + 1)..n : g[k] = g[l] => k = l
    <3>1. ASSUME NEW k \in (i + 1)..n PROVE f[k] \in (m + 1)..n
      <4>1. k \in 1..n /\ i < k
        OBVIOUS
      <4>2. f[i] < f[k] /\ f[k] \in 1..n
        BY <4>1
      <4> QED
        BY <1>1, <4>2
    <3>2. ASSUME NEW k \in (i + 1)..n, NEW l \in (i + 1)..n, f[k] = f[l] PROVE k = l
      <4>1. k \in 1..n /\ l \in 1..n /\ f[k] \in Nat /\ f[l] \in Nat
        OBVIOUS
      <4>2. ~(k < l) /\ ~(l < k)
        BY <3>2, <4>1
      <4> QED
        BY <4>1, <4>2
    <3> QED
      BY <3>1, <3>2
  <2> HIDE DEF g, m
  <2>2. IsFiniteSet((i + 1)..n) /\ Cardinality((i + 1)..n) = n - i
    BY SidesSize
  <2>3. IsFiniteSet((m + 1)..n) /\ Cardinality((m + 1)..n) = n - m
    BY <1>1, SidesSize
  <2>4. Cardinality((i + 1)..n) <= Cardinality((m + 1)..n)
    BY <2>1, <2>2, <2>3, InjectiveBound
  <2> QED
    BY <2>2, <2>3, <2>4
<1> QED
  BY <1>1, <1>2, <1>3

\* Nothing to take out: the queue stays as it is.
LEMMA WithoutAbsent ==
    ASSUME NEW E, NEW q \in Seq(E), NEW n, \A i \in DOMAIN q : q[i] # n,
           NEW r \in Without(q, {n})
    PROVE  r = q
<1>1. Kept(q, {n}) = 1..Len(q) /\ Len(q) \in Nat
  BY LenProperties DEF Kept
<1>2. PICK f : Enumerates(f, q, {n}, r)
  BY WithoutElim
<1>3. r \in Seq(E) /\ Len(r) \in Nat
  BY WithoutElim, LenProperties
<1>4. Len(r) = Len(q)
  <2>1. f \in [1..Len(r) -> 1..Len(q)] /\ \A i, j \in 1..Len(r) : i < j => f[i] < f[j]
    BY <1>1, <1>2 DEF Enumerates
  <2>2. f \in Injection(1..Len(r), 1..Len(q))
    <3>1. 1..Len(q) \in SUBSET Nat
      OBVIOUS
    <3> QED
      BY <1>3, <2>1, <3>1, IncreasingInjective
  <2>3. f \in Surjection(1..Len(r), 1..Len(q))
    BY <1>1, <1>2, <2>1 DEF Enumerates, Surjection
  <2>4. /\ Cardinality(1..Len(r)) = Len(r) /\ Cardinality(1..Len(q)) = Len(q)
        /\ IsFiniteSet(1..Len(q))
    BY <1>1, <1>3, PrefixSize
  <2> QED
    BY <2>2, <2>3, <2>4, FS_Injection
<1>5. \A i \in 1..Len(q) : f[i] = i
  <2>1. f \in [1..Len(q) -> 1..Len(q)] /\ \A i, j \in 1..Len(q) : i < j => f[i] < f[j]
    BY <1>1, <1>2, <1>4 DEF Enumerates
  <2> QED
    BY <1>1, <2>1, IncreasingIdentity
<1>6. \A i \in 1..Len(r) : r[i] = q[i]
  BY <1>2, <1>4, <1>5 DEF Enumerates
<1> QED
  BY <1>3, <1>4, <1>6, SeqEqual

\* The sequence that starts with h and goes on with q.
LEMMA Prefixed ==
    ASSUME NEW E, NEW q \in Seq(E), NEW h \in E
    PROVE  /\ <<h>> \o q \in Seq(E)
           /\ Len(<<h>> \o q) = Len(q) + 1
           /\ DOMAIN (<<h>> \o q) = 1..(Len(q) + 1)
           /\ (<<h>> \o q)[1] = h
           /\ \A i \in 1..Len(q) : (<<h>> \o q)[i + 1] = q[i]
           /\ <<h>> \o q # << >> /\ Head(<<h>> \o q) = h /\ Tail(<<h>> \o q) = q
           /\ \A e \in E : <<h>> \o Append(q, e) = Append(<<h>> \o q, e)
<1>1. <<h>> \in Seq(E) /\ Len(<<h>>) = 1 /\ <<h>>[1] = h /\ Len(q) \in Nat
  BY LenProperties
<1> DEFINE s == <<h>>
<1> HIDE DEF s
<1>2. /\ s \o q \in Seq(E) /\ Len(s \o q) = 1 + Len(q)
      /\ \A i \in 1..(1 + Len(q)) : (s \o q)[i] = IF i <= 1 THEN s[i] ELSE q[i - 1]
  BY <1>1, ConcatProperties DEF s
<1>3. (s \o q)[1] = h /\ \A i \in 1..Len(q) : (s \o q)[i + 1] = q[i]
  BY <1>1, <1>2 DEF s
<1>4. DOMAIN (s \o q) = 1..(Len(q) + 1)
  BY <1>1, <1>2, LenProperties
<1>5. s \o q # << >>
  BY <1>1, <1>2, EmptySeq
<1>6. Head(s \o q) = h
  BY <1>2, <1>3, <1>5, HeadTail
<1>7. Tail(s \o q) = q
  <2>1. /\ Tail(s \o q) \in Seq(E) /\ Len(Tail(s \o q)) = Len(q)
        /\ \A i \in 1..Len(Tail(s \o q)) : Tail(s \o q)[i] = (s \o q)[i + 1]
    BY <1>1, <1>2, <1>5, HeadTailProperties
  <2> QED
    BY <1>3, <2>1, SeqEqual
<1>8. ASSUME NEW e \in E PROVE s \o Append(q, e) = Append(s \o q, e)
  <2>1. Append(q, e) = q \o <<e>> /\ Append(s \o q, e) = (s \o q) \o <<e>>
    BY <1>2, AppendIsConcat
  <2>2. <<e>> \in Seq(E) /\ s \in Seq(E)
    BY <1>1 DEF s
  <2> QED
    BY <2>1, <2>2, ConcatAssociative
<1> QED
  BY <1>2, <1>3, <1>4, <1>5, <1>6, <1>7, <1>8 DEF s

\* Taking the head out, when it waits once.
LEMMA WithoutHead ==
    ASSUME NEW E, NEW q \in Seq(E), NEW h \in E, \A i \in DOMAIN q : q[i] # h
    PROVE  q \in Without(<<h>> \o q, {h})
<1> DEFINE s == <<h>> \o q
<1> DEFINE f == [i \in 1..Len(q) |-> i + 1]
<1>1. /\ s \in Seq(E) /\ DOMAIN s = 1..(Len(q) + 1) /\ s[1] = h
      /\ \A i \in 1..Len(q) : s[i + 1] = q[i]
  BY Prefixed
<1> HIDE DEF s
<1>2. Len(q) \in Nat /\ DOMAIN q = 1..Len(q)
  BY LenProperties
<1>3. \A i \in 1..Len(q) : i + 1 \in Kept(s, {h})
  BY <1>1, <1>2 DEF Kept
<1>4. \A k \in Kept(s, {h}) : k - 1 \in 1..Len(q) /\ f[k - 1] = k
  <2> SUFFICES ASSUME NEW k \in Kept(s, {h}) PROVE k - 1 \in 1..Len(q) /\ f[k - 1] = k
    OBVIOUS
  <2>1. k \in 1..(Len(q) + 1) /\ k # 1
    BY <1>1 DEF Kept
  <2> QED
    BY <1>2, <2>1
<1>5. Enumerates(f, s, {h}, q)
  <2>1. f \in [1..Len(q) -> Kept(s, {h})]
    BY <1>3
  <2>2. \A i, j \in 1..Len(q) : i < j => f[i] < f[j]
    BY <1>2
  <2>3. \A i \in 1..Len(q) : q[i] = s[f[i]]
    BY <1>1
  <2> HIDE DEF f
  <2> QED
    BY <1>4, <2>1, <2>2, <2>3 DEF Enumerates
<1> HIDE DEF f
<1> QED
  BY <1>1, <1>5, WithoutIntro DEF s

\* Taking n out behind another head.
LEMMA WithoutBehindHead ==
    ASSUME NEW E, NEW q \in Seq(E), NEW h \in E, NEW n, h # n, NEW r \in Without(q, {n})
    PROVE  <<h>> \o r \in Without(<<h>> \o q, {n})
<1> DEFINE s == <<h>> \o q
<1> DEFINE t == <<h>> \o r
<1>1. PICK f : Enumerates(f, q, {n}, r)
  BY WithoutElim
<1>2. r \in Seq(E) /\ Len(r) \in Nat /\ Len(q) \in Nat /\ DOMAIN q = 1..Len(q)
  BY WithoutElim, LenProperties
<1>3. /\ s \in Seq(E) /\ DOMAIN s = 1..(Len(q) + 1) /\ s[1] = h
      /\ \A i \in 1..Len(q) : s[i + 1] = q[i]
  BY Prefixed
<1>4. /\ t \in Seq(E) /\ Len(t) = Len(r) + 1 /\ t[1] = h
      /\ \A i \in 1..Len(r) : t[i + 1] = r[i]
  BY <1>2, Prefixed
<1> HIDE DEF s, t
<1>5. /\ \A i \in 1..Len(r) : f[i] \in 1..Len(q) /\ q[f[i]] # n /\ r[i] = q[f[i]]
      /\ \A i, j \in 1..Len(r) : i < j => f[i] < f[j]
      /\ \A k \in 1..Len(q) : q[k] # n => \E i \in 1..Len(r) : f[i] = k
  BY <1>1, <1>2 DEF Enumerates, Kept
<1> DEFINE g == [i \in 1..(Len(r) + 1) |-> IF i = 1 THEN 1 ELSE f[i - 1] + 1]
<1>6. \A i \in 1..(Len(r) + 1) : i = 1 \/ i - 1 \in 1..Len(r)
  BY <1>2
<1>7. ASSUME NEW i \in 1..(Len(r) + 1) PROVE g[i] \in Kept(s, {n}) /\ t[i] = s[g[i]]
  <2>1. CASE i = 1
    BY <1>2, <1>3, <1>4, <2>1 DEF Kept
  <2>2. CASE i # 1
    <3>1. i - 1 \in 1..Len(r) /\ (i - 1) + 1 = i /\ g[i] = f[i - 1] + 1
      BY <1>2, <2>2
    <3>2. t[i] = r[i - 1]
      BY <1>4, <3>1
    <3>3. /\ f[i - 1] \in 1..Len(q) /\ q[f[i - 1]] # n /\ r[i - 1] = q[f[i - 1]]
          /\ s[f[i - 1] + 1] = q[f[i - 1]]
      BY <1>3, <1>5, <3>1
    <3>4. f[i - 1] + 1 \in DOMAIN s
      BY <1>2, <1>3, <3>3
    <3> HIDE DEF g
    <3> QED
      BY <3>1, <3>2, <3>3, <3>4 DEF Kept
  <2> QED
    BY <2>1, <2>2
<1>8. ASSUME NEW i \in 1..(Len(r) + 1), NEW j \in 1..(Len(r) + 1), i < j PROVE g[i] < g[j]
  <2>1. j - 1 \in 1..Len(r) /\ g[j] = f[j - 1] + 1 /\ f[j - 1] \in 1..Len(q)
    BY <1>2, <1>5, <1>8
  <2>2. CASE i = 1
    BY <2>1, <2>2
  <2>3. CASE i # 1
    <3>1. i - 1 \in 1..Len(r) /\ g[i] = f[i - 1] + 1 /\ f[i - 1] \in 1..Len(q) /\ i - 1 < j - 1
      BY <1>2, <1>5, <1>8, <2>3
    <3>2. f[i - 1] < f[j - 1]
      BY <1>5, <2>1, <3>1
    <3> HIDE DEF g
    <3> QED
      BY <2>1, <3>1, <3>2
  <2> QED
    BY <2>2, <2>3
<1>9. ASSUME NEW k \in Kept(s, {n}) PROVE \E i \in 1..(Len(r) + 1) : g[i] = k
  <2>1. k \in 1..(Len(q) + 1) /\ s[k] # n
    BY <1>3, <1>9 DEF Kept
  <2>2. CASE k = 1
    BY <1>2, <2>2
  <2>3. CASE k # 1
    <3>1. k - 1 \in 1..Len(q) /\ (k - 1) + 1 = k
      BY <1>2, <2>1, <2>3
    <3>2. q[k - 1] # n
      BY <1>3, <2>1, <3>1
    <3>3. PICK i \in 1..Len(r) : f[i] = k - 1
      BY <1>5, <3>1, <3>2
    <3>4. i + 1 \in 1..(Len(r) + 1) /\ i + 1 # 1 /\ (i + 1) - 1 = i
      BY <1>2
    <3>5. g[i + 1] = k
      BY <3>1, <3>3, <3>4
    <3> HIDE DEF g
    <3> QED
      BY <3>4, <3>5
  <2> QED
    BY <2>2, <2>3
<1>10. Enumerates(g, s, {n}, t)
  <2>1. g \in [1..(Len(r) + 1) -> Kept(s, {n})]
    BY <1>7
  <2> HIDE DEF g
  <2> QED
    BY <1>4, <1>7, <1>8, <1>9, <2>1 DEF Enumerates
<1> HIDE DEF g
<1> QED
  BY <1>3, <1>4, <1>10, WithoutIntro DEF s, t

\* SerialQueue filters with the same operator.
LEMMA SameFilter ==
    ASSUME NEW q, NEW S
    PROVE  Serial!Without(q, S) = Without(q, S)
  BY DEF Serial!Without, Serial!Increasing, Serial!Kept, Without, Increasing, Kept, Serial!Cardinality, Cardinality

-----------------------------------------------------------------------------
(* The state of the abstract queue, seen from the one live task.           *)

View ==
    /\ \A n \in Node : task[n] = "created" => Waiting = <<n>> \o queue /\ ActiveNode = NoNode
    /\ \A n \in Node : task[n] \in Active => Waiting = queue /\ ActiveNode = n
    /\ (\A n \in Node : task[n] \notin Live) => Waiting = queue /\ ActiveNode = NoNode

LEMMA ViewHolds == TypeOK /\ SerialInv => View
<1> SUFFICES ASSUME TypeOK, SerialInv PROVE View
  OBVIOUS
<1> USE PhaseFacts
<1>1. ASSUME NEW n \in Node, task[n] = "created"
      PROVE  Waiting = <<n>> \o queue /\ ActiveNode = NoNode
  <2>1. \A m \in Node : task[m] \in Live => m = n
    BY <1>1 DEF SerialInv
  <2>2. Scheduled # {} /\ (CHOOSE m \in Node : task[m] = "created") = n
    BY <1>1, <2>1 DEF Scheduled
  <2>3. ~\E m \in Node : task[m] \in Active
    BY <1>1, <2>1
  <2> QED
    BY <2>2, <2>3 DEF Waiting, ActiveNode
<1>2. ASSUME NEW n \in Node, task[n] \in Active
      PROVE  Waiting = queue /\ ActiveNode = n
  <2>1. \A m \in Node : task[m] \in Live => m = n
    BY <1>2 DEF SerialInv
  <2>2. Scheduled = {}
    BY <1>2, <2>1 DEF Scheduled
  <2>3. (CHOOSE m \in Node : task[m] \in Active) = n
    BY <1>2, <2>1
  <2> QED
    BY <1>2, <2>2, <2>3 DEF Waiting, ActiveNode
<1>3. ASSUME \A n \in Node : task[n] \notin Live
      PROVE  Waiting = queue /\ ActiveNode = NoNode
  BY <1>3 DEF Waiting, ActiveNode, Scheduled
<1> QED
  BY <1>1, <1>2, <1>3 DEF View

LEMMA ViewNext == (TypeOK /\ SerialInv)' => View'
  BY ViewHolds, PTL

-----------------------------------------------------------------------------
(* While messages are only stopped one by one, no node leaves the tree.    *)

InTreeInv ==
    /\ registered
    /\ clearing = {}
    /\ \A i \in DOMAIN queue : queue[i] \in nodes

LEMMA InTreeInit == Init => InTreeInv
<1>1. CASE InitCreated
  BY <1>1 DEF InitCreated, NewTree, InTreeInv
<1>2. CASE InitRestored
  BY <1>2 DEF InitRestored, NewTree, InTreeInv
<1> QED
  BY <1>1, <1>2 DEF Init

\* The actions of this instance.
StepsOf ==
    \/ \E n, p \in Node : Reply(n, p)
    \/ \E n \in Node : TaskEvent(n) \/ TaskProgress(n) \/ CancelNode(n)
    \/ UNCHANGED vars

LEMMA OnlyStepsOf ==
    ASSUME Ops \subseteq {"cancel_node"}, InTreeInv, [Next]_vars
    PROVE  StepsOf
  BY DEF InTreeInv, Next, CancelTree, CancelBranch, RemoveBranch, ClearAll, ReplaceManager, StepsOf

LEMMA ProcessNextQueue ==
    ASSUME TypeOK, NEW tasks, ProcessNext(tasks)
    PROVE  \A i \in DOMAIN queue' : \E j \in DOMAIN queue : queue'[i] = queue[j]
<1>1. CASE queue = << >>
  BY <1>1 DEF ProcessNext
<1>2. CASE queue # << >>
  BY <1>2, HeadTail DEF ProcessNext, TypeOK
<1> QED
  BY <1>1, <1>2

LEMMA InTreeStep ==
    ASSUME Ops \subseteq {"cancel_node"}, TypeOK, InTreeInv, [Next]_vars
    PROVE  InTreeInv'
<1>1. ASSUME NEW n \in Node, NEW p \in Node, Reply(n, p) PROVE InTreeInv'
  <2>1. CASE isProcessing
    <3>1. queue' = Append(queue, n) /\ nodes' = nodes \cup {n} /\ UNCHANGED <<registered, clearing>>
      BY <1>1, <2>1 DEF Reply
    <3>2. /\ Len(queue) \in Nat
          /\ DOMAIN queue = 1..Len(queue)
          /\ DOMAIN queue' = 1..(Len(queue) + 1)
          /\ \A i \in DOMAIN queue : queue'[i] = queue[i]
          /\ queue'[Len(queue) + 1] = n
      BY <3>1, AppendProperties, LenProperties DEF TypeOK
    <3> QED
      BY <3>1, <3>2 DEF InTreeInv
  <2>2. CASE ~isProcessing
    BY <1>1, <2>2 DEF Reply, InTreeInv
  <2> QED
    BY <2>1, <2>2
<1>2. ASSUME NEW n \in Node, Skip(n) \/ Finish(n) PROVE InTreeInv'
  <2>1. UNCHANGED <<nodes, registered, clearing>> /\ ProcessNext([task EXCEPT ![n] = "done"])
    BY <1>2 DEF Skip, Finish
  <2> QED
    BY <2>1, ProcessNextQueue DEF InTreeInv
<1>3. ASSUME NEW n \in Node, TaskEvent(n) PROVE InTreeInv'
  BY <1>3 DEF TaskEvent, SessionInfo, CliError, InTreeInv
<1>4. ASSUME NEW n \in Node,
             \/ DieUnstarted(n) \/ Start(n) \/ Acquire(n)
             \/ \E code \in {"ok", "failed"} : CliExit(n, code)
             \/ Fails(n) \/ DeliverCancel(n) \/ StopDone(n)
      PROVE  InTreeInv'
  <2>1. UNCHANGED <<nodes, registered, clearing, queue>>
    BY <1>4 DEF DieUnstarted, Start, Acquire, CliExit, Fails, DeliverCancel, StopDone
  <2> QED
    BY <2>1 DEF InTreeInv
<1>5. ASSUME NEW n \in Node, CancelNode(n) PROVE InTreeInv'
  <2>1. queue \in Seq(Node) /\ queue' \in Without(queue, {n}) /\ UNCHANGED <<nodes, registered, clearing>>
    BY <1>5 DEF CancelNode, TypeOK
  <2>2. PICK f : Enumerates(f, queue, {n}, queue')
    BY <2>1, WithoutElim
  <2>3. DOMAIN queue' = 1..Len(queue')
    BY <2>1, WithoutElim, LenProperties
  <2>4. \A i \in DOMAIN queue' : f[i] \in DOMAIN queue /\ queue'[i] = queue[f[i]]
    BY <2>2, <2>3 DEF Enumerates, Kept
  <2> QED
    BY <2>1, <2>4 DEF InTreeInv
<1>6. CASE UNCHANGED vars
  BY <1>6 DEF vars, InTreeInv
<1>7. StepsOf
  BY OnlyStepsOf
<1> QED
  BY <1>1, <1>2, <1>3, <1>4, <1>5, <1>6, <1>7 DEF StepsOf, TaskProgress

-----------------------------------------------------------------------------
(* Every step is a step of the abstract queue, or a stutter.               *)

SameView == UNCHANGED <<Submitted, Waiting, ActiveNode>>

LEMMA SubmittedStays == UNCHANGED parent => UNCHANGED Submitted
  BY DEF Submitted, Fresh

\* A reply submits its message, whether it waits or is given a task at once.
LEMMA ReplySubmits ==
    ASSUME TypeOK, QueueInv, SerialInv, InTreeInv, View, View',
           NEW n \in Node, NEW p \in Node, Reply(n, p)
    PROVE  Serial!Submit(n)
<1> USE NodeAssumption, PhaseFacts
<1>1. Fresh(n) /\ n # Root /\ parent' = [parent EXCEPT ![n] = p] /\ p # NoNode
  BY DEF Reply, Fresh
<1>2. n \notin Submitted /\ Submitted' = Submitted \cup {n}
  BY <1>1 DEF Submitted, Fresh, TypeOK
<1>3. CASE isProcessing
  <2>1. queue' = Append(queue, n) /\ UNCHANGED task
    BY <1>3 DEF Reply
  <2>2. CASE \E m \in Node : task[m] = "created"
    <3>1. PICK m \in Node : task[m] = "created"
      BY <2>2
    <3>2. /\ Waiting = <<m>> \o queue /\ ActiveNode = NoNode
          /\ Waiting' = <<m>> \o queue' /\ ActiveNode' = NoNode
      BY <2>1, <3>1 DEF View
    <3>3. Waiting' = Append(Waiting, n)
      <4>1. <<m>> \o Append(queue, n) = Append(<<m>> \o queue, n)
        BY Prefixed DEF TypeOK
      <4> QED
        BY <2>1, <3>2, <4>1
    <3> QED
      BY <1>2, <3>2, <3>3 DEF Serial!Submit
  <2>3. CASE \E m \in Node : task[m] \in Active
    <3>1. PICK m \in Node : task[m] \in Active
      BY <2>3
    <3>2. /\ Waiting = queue /\ ActiveNode = m
          /\ Waiting' = queue' /\ ActiveNode' = m
      BY <2>1, <3>1 DEF View
    <3> QED
      BY <1>2, <2>1, <3>2 DEF Serial!Submit
  <2>4. CASE \A m \in Node : task[m] \notin Live
    <3>1. /\ Waiting = queue /\ ActiveNode = NoNode
          /\ Waiting' = queue' /\ ActiveNode' = NoNode
      BY <2>1, <2>4 DEF View
    <3> QED
      BY <1>2, <2>1, <3>1 DEF Serial!Submit
  <2> QED
    BY <2>2, <2>3, <2>4
<1>4. CASE ~isProcessing
  <2>1. queue = << >> /\ \A m \in Node : task[m] \notin Live
    BY <1>4 DEF QueueInv, NoIdleBacklog, SerialInv, InTreeInv
  <2>2. queue' = << >> /\ task'[n] = "created"
    BY <1>4, <2>1 DEF Reply, StartTask, TypeOK
  <2>3. Waiting = << >> /\ ActiveNode = NoNode
    BY <2>1 DEF View
  <2>4. Waiting' = <<n>> \o queue' /\ ActiveNode' = NoNode
    BY <2>2 DEF View
  <2>5. Waiting' = Append(Waiting, n)
    BY <2>2, <2>3, <2>4
  <2> QED
    BY <1>2, <2>3, <2>4, <2>5 DEF Serial!Submit
<1> QED
  BY <1>3, <1>4

\* What _process_next does to the queue: the next message, if there is one, is
\* given a task, and is still the first of those that wait.
LEMMA ProcessNextView ==
    ASSUME TypeOK, SerialInv, InTreeInv, View', NEW n \in Node, task[n] \in Live,
           ProcessNext([task EXCEPT ![n] = "done"])
    PROVE  Waiting' = queue /\ ActiveNode' = NoNode
<1> USE PhaseFacts
<1> DEFINE ended == [task EXCEPT ![n] = "done"]
<1>1. ended \in [Node -> Phase] /\ \A m \in Node : ended[m] \notin Live
  BY DEF SerialInv, TypeOK
<1>2. CASE queue = << >>
  <2>1. queue' = queue /\ task' = ended
    BY <1>2 DEF ProcessNext
  <2> QED
    BY <1>1, <2>1 DEF View
<1>3. CASE queue # << >>
  <2> DEFINE h == Head(queue)
  <2>1. h \in Node /\ h \in nodes /\ Tail(queue) \in Seq(Node)
    BY <1>3, HeadTail DEF InTreeInv, TypeOK
  <2>2. queue' = Tail(queue) /\ task' = [ended EXCEPT ![h] = "created"]
    BY <1>3, <2>1 DEF ProcessNext, BeginProcessing, StartTask
  <2>3. task'[h] = "created"
    BY <1>1, <2>1, <2>2
  <2>4. Waiting' = <<h>> \o Tail(queue) /\ ActiveNode' = NoNode
    BY <2>1, <2>2, <2>3 DEF View
  <2>5. <<h>> \o Tail(queue) = queue
    <3> DEFINE s == <<h>> \o Tail(queue)
    <3>1. /\ s \in Seq(Node) /\ Len(s) = Len(Tail(queue)) + 1 /\ s[1] = h
          /\ \A i \in 1..Len(Tail(queue)) : s[i + 1] = Tail(queue)[i]
      BY <2>1, Prefixed
    <3>2. /\ queue \in Seq(Node) /\ Len(queue) \in Nat /\ Len(Tail(queue)) = Len(queue) - 1
          /\ h = queue[1] /\ \A i \in 1..Len(Tail(queue)) : Tail(queue)[i] = queue[i + 1]
      BY <1>3, HeadTail, HeadTailProperties, LenProperties DEF TypeOK
    <3> HIDE DEF s, h
    <3>3. ASSUME NEW i \in 1..Len(s) PROVE s[i] = queue[i]
      <4>1. CASE i = 1
        BY <3>1, <3>2, <4>1
      <4>2. CASE i # 1
        <5>1. i - 1 \in 1..Len(Tail(queue)) /\ (i - 1) + 1 = i
          BY <3>1, <3>2, <4>2
        <5> QED
          BY <3>1, <3>2, <5>1
      <4> QED
        BY <4>1, <4>2
    <3>4. Len(s) = Len(queue)
      BY <3>1, <3>2
    <3>5. s = queue
      BY <3>1, <3>2, <3>3, <3>4, SeqEqual
    <3> QED
      BY <3>5 DEF s
  <2> QED
    BY <2>4, <2>5
<1> QED
  BY <1>2, <1>3

\* The message with an unstarted task is taken out of the front of the queue.
LEMMA UnstartedWithdraws ==
    ASSUME TypeOK, QueueInv, View, NEW n \in Node, task[n] = "created",
           Waiting' = queue, ActiveNode' = NoNode, UNCHANGED parent
    PROVE  Serial!Withdraw(n)
<1>1. Waiting = <<n>> \o queue /\ ActiveNode = NoNode
  BY DEF View
<1>2. queue \in Seq(Node) /\ \A i \in DOMAIN queue : queue[i] # n
  BY DEF QueueInv, WaitingOnce, TypeOK
<1>3. queue \in Without(<<n>> \o queue, {n})
  BY <1>2, WithoutHead
<1>4. 1 \in DOMAIN (<<n>> \o queue) /\ (<<n>> \o queue)[1] = n
  BY <1>2, Prefixed, LenProperties
<1> QED
  BY <1>1, <1>3, <1>4, SameFilter, SubmittedStays DEF Serial!Withdraw

LEMMA CancelNodeWithdraws ==
    ASSUME TypeOK, QueueInv, View, View', SerialInv, NEW n \in Node, CancelNode(n)
    PROVE  Serial!Withdraw(n) \/ SameView
<1> USE PhaseFacts
<1>1. /\ queue' \in Without(queue, {n}) /\ UNCHANGED <<parent, task>>
      /\ queue \in Seq(Node) /\ UNCHANGED Submitted
  BY SubmittedStays DEF CancelNode, TypeOK
<1>2. CASE ~Queued(n)
  <2>1. queue' = queue
    BY <1>1, <1>2, WithoutAbsent DEF Queued
  <2>2. UNCHANGED <<Waiting, ActiveNode>>
    BY <1>1, <2>1 DEF Waiting, ActiveNode, Scheduled
  <2> QED
    BY <1>1, <2>2 DEF SameView
<1>3. CASE Queued(n)
  <2>1. PICK i \in DOMAIN queue : queue[i] = n
    BY <1>3 DEF Queued
  <2>2. task[n] = "none" /\ DOMAIN queue = 1..Len(queue) /\ Len(queue) \in Nat
    BY <1>1, <2>1, LenProperties DEF QueueInv, WaitingOnce
  <2>3. CASE \E m \in Node : task[m] = "created"
    <3>1. PICK m \in Node : task[m] = "created"
      BY <2>3
    <3>2. /\ Waiting = <<m>> \o queue /\ ActiveNode = NoNode
          /\ Waiting' = <<m>> \o queue' /\ ActiveNode' = NoNode
      BY <1>1, <3>1 DEF View
    <3>3. m # n
      BY <2>2, <3>1
    <3>4. Waiting' \in Without(Waiting, {n})
      BY <1>1, <3>2, <3>3, WithoutBehindHead
    <3>5. i + 1 \in DOMAIN Waiting /\ Waiting[i + 1] = n
      BY <1>1, <2>1, <2>2, <3>2, Prefixed
    <3> QED
      BY <1>1, <3>2, <3>4, <3>5, SameFilter DEF Serial!Withdraw
  <2>4. CASE ~\E m \in Node : task[m] = "created"
    <3>1. Waiting = queue /\ Waiting' = queue' /\ UNCHANGED ActiveNode
      BY <1>1, <2>4 DEF Waiting, ActiveNode, Scheduled
    <3> QED
      BY <1>1, <2>1, <3>1, SameFilter DEF Serial!Withdraw
  <2> QED
    BY <2>3, <2>4
<1> QED
  BY <1>2, <1>3

\* The steps of a task between its start and its end, seen from outside.
LEMMA QuietSameView ==
    ASSUME View, View', UNCHANGED <<parent, queue>>,
           \A m \in Node : task'[m] = "created" <=> task[m] = "created",
           \A m \in Node : task'[m] \in Active <=> task[m] \in Active
    PROVE  SameView
<1> USE PhaseFacts
<1>1. UNCHANGED Submitted
  BY SubmittedStays
<1>2. ASSUME NEW m \in Node, task[m] = "created" PROVE UNCHANGED <<Waiting, ActiveNode>>
  BY <1>2 DEF View
<1>3. ASSUME NEW m \in Node, task[m] \in Active PROVE UNCHANGED <<Waiting, ActiveNode>>
  BY <1>3 DEF View
<1>4. ASSUME \A m \in Node : task[m] \notin Live PROVE UNCHANGED <<Waiting, ActiveNode>>
  BY <1>4 DEF View
<1> QED
  BY <1>1, <1>2, <1>3, <1>4 DEF SameView

LEMMA RefinementStep ==
    ASSUME Ops \subseteq {"cancel_node"}, TypeOK, QueueInv, SerialInv, InTreeInv, View,
           View', [Next]_vars
    PROVE  [Serial!Next]_(Serial!vars)
<1> USE PhaseFacts
<1> SUFFICES \/ SameView
             \/ Serial!Begin \/ Serial!End
             \/ \E n \in Node : Serial!Submit(n) \/ Serial!Withdraw(n)
  BY DEF SameView, Serial!Next, Serial!vars
<1>1. ASSUME NEW n \in Node, NEW p \in Node, Reply(n, p) PROVE Serial!Submit(n)
  BY <1>1, ReplySubmits
<1>2. ASSUME NEW n \in Node, DieUnstarted(n) PROVE Serial!Withdraw(n)
  <2>1. task[n] = "created" /\ task' = [task EXCEPT ![n] = "done"] /\ UNCHANGED <<queue, parent>>
    BY <1>2 DEF DieUnstarted
  <2>2. \A m \in Node : task'[m] \notin Live
    BY <2>1 DEF SerialInv, TypeOK
  <2>3. Waiting' = queue /\ ActiveNode' = NoNode
    BY <2>1, <2>2 DEF View
  <2> QED
    BY <2>1, <2>3, UnstartedWithdraws
<1>3. ASSUME NEW n \in Node, Skip(n) PROVE Serial!Withdraw(n)
  <2>1. task[n] = "created" /\ ProcessNext([task EXCEPT ![n] = "done"]) /\ UNCHANGED parent
    BY <1>3 DEF Skip
  <2> QED
    BY <2>1, ProcessNextView, UnstartedWithdraws
<1>4. ASSUME NEW n \in Node, Start(n) PROVE Serial!Begin
  <2>1. task[n] = "created" /\ task' = [task EXCEPT ![n] = "starting"] /\ UNCHANGED <<queue, parent>>
    BY <1>4 DEF Start
  <2>2. Waiting = <<n>> \o queue /\ ActiveNode = NoNode
    BY <2>1 DEF View
  <2>3. Waiting' = queue /\ ActiveNode' = n
    BY <2>1 DEF View, TypeOK
  <2>4. Waiting # << >> /\ Head(Waiting) = n /\ Tail(Waiting) = queue
    BY <2>2, Prefixed DEF TypeOK
  <2> QED
    BY <2>1, <2>2, <2>3, <2>4, SubmittedStays DEF Serial!Begin
<1>5. ASSUME NEW n \in Node, Finish(n) PROVE Serial!End
  <2>1. task[n] = "finishing" /\ ProcessNext([task EXCEPT ![n] = "done"]) /\ UNCHANGED parent
    BY <1>5 DEF Finish
  <2>2. Waiting = queue /\ ActiveNode = n /\ n # NoNode
    BY <2>1, NodeAssumption DEF View
  <2>3. Waiting' = queue /\ ActiveNode' = NoNode
    BY <2>1, ProcessNextView
  <2> QED
    BY <2>1, <2>2, <2>3, SubmittedStays DEF Serial!End
<1>6. ASSUME NEW n \in Node, CancelNode(n) PROVE Serial!Withdraw(n) \/ SameView
  BY <1>6, CancelNodeWithdraws
<1>7. ASSUME NEW n \in Node,
             \/ Acquire(n) \/ (\E code \in {"ok", "failed"} : CliExit(n, code))
             \/ Fails(n) \/ DeliverCancel(n) \/ StopDone(n)
      PROVE  SameView
  <2>1. /\ UNCHANGED <<queue, parent>> /\ task[n] \in Active
        /\ \E ph \in Active : task' = [task EXCEPT ![n] = ph]
    BY <1>7 DEF Acquire, CliExit, Fails, DeliverCancel, StopDone
  <2>2. \A m \in Node : /\ task'[m] = "created" <=> task[m] = "created"
                        /\ task'[m] \in Active <=> task[m] \in Active
    BY <2>1 DEF TypeOK
  <2> QED
    BY <2>1, <2>2, QuietSameView
<1>8. ASSUME NEW n \in Node, TaskEvent(n) PROVE SameView
  BY <1>8, QuietSameView DEF TaskEvent, SessionInfo, CliError
<1>9. CASE UNCHANGED vars
  BY <1>9, QuietSameView DEF vars
<1>10. StepsOf
  BY OnlyStepsOf
<1> QED
  BY <1>1, <1>2, <1>3, <1>4, <1>5, <1>6, <1>7, <1>8, <1>9, <1>10 DEF StepsOf, TaskProgress

LEMMA RefinementInit == Init => Serial!Init
<1> USE NodeAssumption, PhaseFacts
<1> SUFFICES ASSUME Init
             PROVE  Submitted = {Root} /\ Waiting \in {<< >>, <<Root>>} /\ ActiveNode = NoNode
  BY DEF Serial!Init
<1>1. TypeOK /\ SerialInv /\ queue = << >>
  BY TypeInit, SerialInit DEF Init, InitCreated, InitRestored, NewTree
<1>2. View
  BY <1>1, ViewHolds
<1>3. Submitted = {Root}
  BY DEF Init, InitCreated, InitRestored, NewTree, Submitted, Fresh
<1>4. CASE InitCreated
  <2>1. task[Root] = "created"
    BY <1>4 DEF InitCreated, NewTree
  <2>2. Waiting = <<Root>> \o queue /\ ActiveNode = NoNode
    BY <1>2, <2>1 DEF View
  <2> QED
    BY <1>1, <1>3, <2>2
<1>5. CASE InitRestored
  <2>1. \A n \in Node : task[n] \notin Live
    BY <1>5 DEF InitRestored, NewTree
  <2> QED
    BY <1>1, <1>2, <1>3, <2>1 DEF View
<1> QED
  BY <1>4, <1>5 DEF Init

\* While users stop messages one by one, the tree serves each message at most
\* once, one at a time, in the order in which they were sent: it implements
\* SerialQueue.  (Stopping a whole tree lets two turns overlap, as run
\* tree_overlap shows; clearing a branch withdraws several messages at once.)
THEOREM RefinesSerialQueueCorrect ==
    ASSUME Ops \subseteq {"cancel_node"}
    PROVE  Spec => RefinesSerialQueue
<1>1. Init => Serial!Init
  BY RefinementInit
<1>2. TypeOK /\ SerialInv /\ [Next]_vars => SerialInv'
  BY SerialStep
<1>3. TypeOK /\ InTreeInv /\ [Next]_vars => InTreeInv'
  BY InTreeStep
<1>4. TypeOK /\ QueueInv /\ SerialInv /\ InTreeInv /\ [Next]_vars /\ TypeOK' /\ SerialInv'
        => [Serial!Next]_(Serial!vars)
  BY ViewHolds, ViewNext, RefinementStep
<1> QED
  BY <1>1, <1>2, <1>3, <1>4, TypeInit, TypeStep, QueueInvInit, QueueInvStep, SerialInit,
     InTreeInit, PTL DEF Spec, RefinesSerialQueue, Serial!Spec
=============================================================================
