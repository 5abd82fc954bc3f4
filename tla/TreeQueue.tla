------------------------------ MODULE TreeQueue ------------------------------
(***************************************************************************)
(* The per-tree message queue of messaging/trees: one MessageTree with its *)
(* TreeQueueProcessor, the asyncio task that processes each node (the body *)
(* of ClaudeMessageHandler._process_node), and the cancellations that      *)
(* TreeQueueManager applies to the tree.                                   *)
(*                                                                         *)
(* Grain of atomicity.  Everything runs on one asyncio event loop, and no  *)
(* critical section of the tree lock awaits anything that can suspend, so  *)
(* the lock is never found taken: a coroutine runs without interruption    *)
(* from one real suspension (platform call, CLI read, process stop) to the *)
(* next.  Each action below is one such stretch.                           *)
(***************************************************************************)
EXTENDS Naturals, Sequences, FiniteSets, QueueFilter

CONSTANTS
    Node,     \* message ids that may become nodes of the tree
    Root,     \* the node the tree was created with
    NoNode,   \* Python's None for a node id
    Ops       \* the cancelling operations the users of this instance issue

ASSUME NodeAssumption == Root \in Node /\ NoNode \notin Node
ASSUME OpsAssumption == Ops \subseteq {"cancel_tree", "cancel_node", "cancel_branch", "clear_all"}

VARIABLES
    nodes,         \* ids in MessageTree._nodes
    registered,    \* is the tree in the TreeQueueManager the handler uses?
    parent,        \* MessageNode.parent_id; children_ids is its inverse
    state,         \* MessageNode.state
    queue,         \* MessageTree._queue, oldest first
    isProcessing,  \* MessageTree._is_processing
    currentNode,   \* MessageTree._current_node_id
    currentTask,   \* MessageTree._current_task, named by the node it processes
    task,          \* where the asyncio task of each node stands
    cancelling,    \* tasks with a cancel() that has not been delivered yet
    captured,      \* tasks whose local captured_session_id is set
    outcome,       \* how the CLI run of a node exited
    clearing       \* branches a /clear has cancelled and is about to remove
                   \* (NoNode: the whole manager)

vars == <<nodes, registered, parent, state, queue, isProcessing, currentNode, currentTask,
          task, cancelling, captured, outcome, clearing>>

MessageState == {"pending", "in_progress", "completed", "error"}
Settled == {"completed", "error"}

\* Phases of a node's task: "created" (scheduled, first step not run),
\* "starting" (awaiting get_or_create_session), "running" (consuming CLI events),
\* "stopping" (CancelledError delivered, CLI process being stopped), "finishing"
\* (in the finally clause, awaiting remove_session).
Active == {"starting", "running", "stopping", "finishing"}
Live == Active \cup {"created"}
Phase == Live \cup {"none", "done"}

Fresh(n) == n # Root /\ parent[n] = NoNode
Queued(n) == \E i \in DOMAIN queue : queue[i] = n

(***************************************************************************)
(* get_descendants: b and everything reachable from it through children.   *)
(* The smallest set that contains b and is closed under "child of".        *)
(***************************************************************************)
ClosedFrom(b, S) == b \in S /\ \A n \in nodes : parent[n] \in S => n \in S
Descendants(b) ==
    {n \in nodes : \A S \in SUBSET (nodes \cup {b}) : ClosedFrom(b, S) => n \in S}

(***************************************************************************)
(* get_pending_children: like get_descendants, but the walk goes through   *)
(* PENDING children only and leaves out the node it starts from.           *)
(***************************************************************************)
PendingChildren(p) ==
    LET Closed(S) == \A n \in nodes :
                        parent[n] \in S \cup {p} /\ state[n] = "pending" => n \in S
    IN  {n \in nodes : \A S \in SUBSET nodes : Closed(S) => n \in S}

-----------------------------------------------------------------------------
NewTree(rootState, tasks, busy) ==
    /\ nodes = {Root}
    /\ registered = TRUE
    /\ parent = [n \in Node |-> NoNode]
    /\ state = [n \in Node |-> IF n = Root THEN rootState ELSE "pending"]
    /\ queue = << >>
    /\ task = tasks
    /\ isProcessing = busy
    /\ currentNode = IF busy THEN Root ELSE NoNode
    /\ currentTask = IF busy THEN Root ELSE NoNode
    /\ cancelling = {}
    /\ captured = {}
    /\ outcome = [n \in Node |-> "none"]
    /\ clearing = {}

\* A new conversation: create_tree and enqueue of the root, in one stretch.
InitCreated == NewTree("pending", [n \in Node |-> IF n = Root THEN "created" ELSE "none"], TRUE)

\* A tree read back from disk at startup, its stale nodes marked ERROR.
InitRestored == \E s \in Settled : NewTree(s, [n \in Node |-> "none"], FALSE)

Init == InitCreated \/ InitRestored

-----------------------------------------------------------------------------
(* The processor.                                                          *)

StartTask(n, tasks) ==
    /\ task' = [tasks EXCEPT ![n] = "created"]
    /\ currentTask' = n

\* A slip: no task for a message that was settled while it waited.
BeginProcessingPending(n, tasks) ==
    /\ isProcessing' = TRUE
    /\ currentNode' = n
    /\ \/ n \in nodes /\ state[n] = "pending" /\ StartTask(n, tasks)
       \/ (n \notin nodes \/ state[n] # "pending") /\ task' = tasks /\ UNCHANGED currentTask

\* set_processing_state(n, True), and a task if the node is still in the tree.
BeginProcessing(n, tasks) ==
    /\ isProcessing' = TRUE
    /\ currentNode' = n
    /\ \/ n \in nodes /\ StartTask(n, tasks)
       \/ n \notin nodes /\ task' = tasks /\ UNCHANGED currentTask

\* Slips of _process_next: it peeks instead of popping, it serves the newest
\* message first, or it forgets to mark the tree free.
ProcessNextPeeking(tasks) ==
    \/ /\ queue = << >>
       /\ isProcessing' = FALSE
       /\ currentNode' = NoNode
       /\ task' = tasks
       /\ UNCHANGED <<queue, currentTask>>
    \/ queue # << >> /\ UNCHANGED queue /\ BeginProcessing(Head(queue), tasks)
ProcessNextNewest(tasks) ==
    \/ /\ queue = << >>
       /\ isProcessing' = FALSE
       /\ currentNode' = NoNode
       /\ task' = tasks
       /\ UNCHANGED <<queue, currentTask>>
    \/ /\ queue # << >>
       /\ queue' = SubSeq(queue, 1, Len(queue) - 1)
       /\ BeginProcessing(queue[Len(queue)], tasks)
ProcessNextStaysBusy(tasks) ==
    \/ /\ queue = << >>
       /\ task' = tasks
       /\ UNCHANGED <<queue, isProcessing, currentNode, currentTask>>
    \/ /\ queue # << >>
       /\ queue' = Tail(queue)
       /\ BeginProcessing(Head(queue), tasks)

\* _process_next, called by a task whose end is recorded in tasks.
ProcessNext(tasks) ==
    \/ /\ queue = << >>
       /\ isProcessing' = FALSE
       /\ currentNode' = NoNode
       /\ task' = tasks
       /\ UNCHANGED <<queue, currentTask>>
    \/ /\ queue # << >>
       /\ queue' = Tail(queue)
       /\ BeginProcessing(Head(queue), tasks)

\* A slip of enqueue_and_start: the busy flag is not looked at.
ReplyAlwaysStarts(n, p) ==
    /\ Fresh(n)
    /\ registered
    /\ p \in nodes
    /\ nodes' = nodes \cup {n}
    /\ parent' = [parent EXCEPT ![n] = p]
    /\ isProcessing' = TRUE
    /\ currentNode' = n
    /\ StartTask(n, task)
    /\ UNCHANGED <<registered, queue, state, cancelling, captured, outcome, clearing>>

(***************************************************************************)
(* A reply to p, once its status message has been sent: add_to_tree,       *)
(* register_node and enqueue run without suspension.  If p has gone in the *)
(* meantime add_to_tree raises and the tree is not touched.                *)
(***************************************************************************)
Reply(n, p) ==
    /\ Fresh(n)
    /\ registered
    /\ p \in nodes
    /\ nodes' = nodes \cup {n}
    /\ parent' = [parent EXCEPT ![n] = p]
    /\ \/ /\ isProcessing
          /\ queue' = Append(queue, n)
          /\ UNCHANGED <<isProcessing, currentNode, currentTask, task>>
       \/ /\ ~isProcessing
          /\ isProcessing' = TRUE
          /\ currentNode' = n
          /\ StartTask(n, task)
          /\ UNCHANGED queue
    /\ UNCHANGED <<registered, state, cancelling, captured, outcome, clearing>>

-----------------------------------------------------------------------------
(* The task of node n: process_node and the handler's _process_node.       *)

\* update_state: nothing happens to a node that has left the tree.
UpdateState(n, s) ==
    state' = IF n \in nodes THEN [state EXCEPT ![n] = s] ELSE state

\* A cancel() that precedes the first step: the coroutine body never runs, so
\* neither does its finally clause.
DieUnstarted(n) ==
    /\ task[n] = "created"
    /\ n \in cancelling
    /\ task' = [task EXCEPT ![n] = "done"]
    /\ cancelling' = cancelling \ {n}
    /\ UNCHANGED <<nodes, registered, parent, state, queue, isProcessing, currentNode,
                   currentTask, captured, outcome, clearing>>

\* Slips of process_node: the early return for ERROR does not look at the queue,
\* or there is no early return.
SkipOnly(n) ==
    /\ task[n] = "created"
    /\ n \notin cancelling
    /\ state[n] = "error"
    /\ task' = [task EXCEPT ![n] = "done"]
    /\ UNCHANGED <<nodes, registered, parent, state, queue, isProcessing, currentNode, currentTask,
                   cancelling, captured, outcome, clearing>>
StartUnchecked(n) ==
    /\ task[n] = "created"
    /\ n \notin cancelling
    /\ task' = [task EXCEPT ![n] = "starting"]
    /\ UpdateState(n, "in_progress")
    /\ UNCHANGED <<nodes, registered, parent, queue, isProcessing, currentNode, currentTask,
                   cancelling, captured, outcome, clearing>>

\* process_node on a node already in ERROR.
Skip(n) ==
    /\ task[n] = "created"
    /\ n \notin cancelling
    /\ state[n] = "error"
    /\ ProcessNext([task EXCEPT ![n] = "done"])
    /\ UNCHANGED <<nodes, registered, parent, state, cancelling, captured, outcome, clearing>>

Start(n) ==
    /\ task[n] = "created"
    /\ n \notin cancelling
    /\ state[n] # "error"
    /\ task' = [task EXCEPT ![n] = "starting"]
    /\ UpdateState(n, "in_progress")
    /\ UNCHANGED <<nodes, registered, parent, queue, isProcessing, currentNode, currentTask,
                   cancelling, captured, outcome, clearing>>

(***************************************************************************)
(* get_or_create_session returns.  The session of the parent is handed out *)
(* again (is_new False) only while the parent's own task still holds it.   *)
(***************************************************************************)
Acquire(n) ==
    /\ task[n] = "starting"
    /\ n \notin cancelling
    /\ task' = [task EXCEPT ![n] = "running"]
    /\ \/ UNCHANGED captured
       \/ /\ parent[n] \in captured
          /\ task[parent[n]] \in {"running", "stopping", "finishing"}
          /\ captured' = captured \cup {n}
    /\ UNCHANGED <<nodes, registered, parent, state, queue, isProcessing, currentNode,
                   currentTask, cancelling, outcome, clearing>>

\* The first session_info event of a new session.
SessionInfo(n) ==
    /\ task[n] = "running"
    /\ n \notin cancelling
    /\ n \notin captured
    /\ captured' = captured \cup {n}
    /\ UpdateState(n, "in_progress")
    /\ UNCHANGED <<nodes, registered, parent, queue, isProcessing, currentNode, currentTask,
                   task, cancelling, outcome, clearing>>

\* mark_node_error(n) with propagation: the state of every node afterwards.
MarkedError(n) ==
    IF ~registered \/ n \notin nodes THEN state
    ELSE [m \in Node |-> IF m = n \/ m \in PendingChildren(n) THEN "error" ELSE state[m]]

\* An error event in the stream; the stream goes on.
CliError(n) ==
    /\ task[n] = "running"
    /\ n \notin cancelling
    /\ state' = MarkedError(n)
    /\ UNCHANGED <<nodes, registered, parent, queue, isProcessing, currentNode, currentTask,
                   task, cancelling, captured, outcome, clearing>>

\* The "complete" event: COMPLETED if a session id was captured.
CompletedFrom(n, st) ==
    IF n \in captured /\ n \in nodes THEN [st EXCEPT ![n] = "completed"] ELSE st

\* The exit event ends the stream.  parse_cli_event turns a non-zero code into
\* "error" followed by "complete".
CliExit(n, code) ==
    /\ task[n] = "running"
    /\ n \notin cancelling
    /\ outcome' = [outcome EXCEPT ![n] = code]
    /\ state' = CompletedFrom(n, IF code = "ok" THEN state ELSE MarkedError(n))
    /\ task' = [task EXCEPT ![n] = "finishing"]
    /\ UNCHANGED <<nodes, registered, parent, queue, isProcessing, currentNode, currentTask,
                   cancelling, captured, clearing>>

\* Any exception of the session or the stream (the CLI cannot be started, ...).
Fails(n) ==
    /\ task[n] \in {"starting", "running"}
    /\ n \notin cancelling
    /\ state' = MarkedError(n)
    /\ task' = [task EXCEPT ![n] = "finishing"]
    /\ UNCHANGED <<nodes, registered, parent, queue, isProcessing, currentNode, currentTask,
                   cancelling, captured, outcome, clearing>>

\* A slip: the cancellation handler also covers the release of the session.
DeliverCancelLate(n) ==
    /\ task[n] \in {"starting", "running", "finishing"}
    /\ n \in cancelling
    /\ task' = [task EXCEPT ![n] = "stopping"]
    /\ cancelling' = cancelling \ {n}
    /\ UNCHANGED <<nodes, registered, parent, state, queue, isProcessing, currentNode,
                   currentTask, captured, outcome, clearing>>

\* CancelledError reaches the handler, inside start_task: the CLI is being stopped.
DeliverCancel(n) ==
    /\ task[n] \in {"starting", "running"}
    /\ n \in cancelling
    /\ task' = [task EXCEPT ![n] = "stopping"]
    /\ cancelling' = cancelling \ {n}
    /\ UNCHANGED <<nodes, registered, parent, state, queue, isProcessing, currentNode,
                   currentTask, captured, outcome, clearing>>

\* The except CancelledError clause of _process_node_impl.
StopDone(n) ==
    /\ task[n] = "stopping"
    /\ UpdateState(n, "error")
    /\ task' = [task EXCEPT ![n] = "finishing"]
    /\ cancelling' = cancelling \ {n}
    /\ UNCHANGED <<nodes, registered, parent, queue, isProcessing, currentNode, currentTask,
                   captured, outcome, clearing>>

\* remove_session has returned (or was cancelled): process_node's finally clause.
Finish(n) ==
    /\ task[n] = "finishing"
    /\ ProcessNext([task EXCEPT ![n] = "done"])
    /\ cancelling' = cancelling \ {n}
    /\ UNCHANGED <<nodes, registered, parent, state, captured, outcome, clearing>>

-----------------------------------------------------------------------------
(* Cancellation by the users: /stop, /stop in reply, /clear in reply.      *)

\* cancel_current_task on a task that is not done.
TaskCancellable == currentTask # NoNode /\ task[currentTask] \in Live
CancelCurrentUnchecked == cancelling \cup {currentTask}
CancelCurrent == IF TaskCancellable THEN cancelling \cup {currentTask} ELSE cancelling

\* A slip of cancel_tree: the queue is not drained.
CancelTreeUndrained ==
    /\ cancelling' = CancelCurrent
    /\ state' = [n \in Node |-> IF n \in nodes /\ state[n] \notin Settled
                                THEN "error" ELSE state[n]]
    /\ isProcessing' = FALSE
    /\ currentNode' = NoNode
    /\ UNCHANGED queue

\* cancel_tree: every node that is not settled ends in ERROR (cancelled,
\* drained from the queue, or "stale"), and the tree is marked free.
CancelTreeStep ==
    /\ cancelling' = CancelCurrent
    /\ state' = [n \in Node |-> IF n \in nodes /\ (state[n] \notin Settled \/ Queued(n))
                                THEN "error" ELSE state[n]]
    /\ queue' = << >>
    /\ isProcessing' = FALSE
    /\ currentNode' = NoNode

CancelTree ==
    /\ "cancel_tree" \in Ops
    /\ registered
    /\ CancelTreeStep
    /\ UNCHANGED <<nodes, registered, parent, currentTask, task, captured, outcome, clearing>>

\* A slip of cancel_node: it frees the tree, as cancel_tree does.
CancelNodeFreeing(n) ==
    /\ "cancel_node" \in Ops
    /\ registered
    /\ n \in nodes
    /\ state[n] \notin Settled
    /\ cancelling' = IF currentNode = n THEN CancelCurrent ELSE cancelling
    /\ queue' \in Without(queue, {n})
    /\ state' = [state EXCEPT ![n] = "error"]
    /\ isProcessing' = FALSE
    /\ currentNode' = NoNode
    /\ UNCHANGED <<nodes, registered, parent, currentTask, task, captured, outcome, clearing>>

CancelNode(n) ==
    /\ "cancel_node" \in Ops
    /\ registered
    /\ n \in nodes
    /\ state[n] \notin Settled
    /\ cancelling' = IF currentNode = n THEN CancelCurrent ELSE cancelling
    /\ queue' \in Without(queue, {n})
    /\ state' = [state EXCEPT ![n] = "error"]
    /\ UNCHANGED <<nodes, registered, parent, isProcessing, currentNode, currentTask, task,
                   captured, outcome, clearing>>

\* cancel_branch, the first step of /clear on a node; the handler then awaits
\* the deletion of the branch's messages.
CancelBranch(b) ==
    /\ "cancel_branch" \in Ops
    /\ registered
    /\ b \in nodes
    /\ LET open == {n \in Descendants(b) : state[n] \notin Settled}
       IN  /\ cancelling' = IF currentNode \in open THEN CancelCurrent ELSE cancelling
           /\ queue' \in Without(queue, open \ {currentNode})
           /\ state' = [n \in Node |-> IF n \in open THEN "error" ELSE state[n]]
    /\ clearing' = clearing \cup {b}
    /\ UNCHANGED <<nodes, registered, parent, isProcessing, currentNode, currentTask, task,
                   captured, outcome>>

\* remove_branch, after the deletion.  The queue is not touched.  On the root
\* the whole tree is cancelled and leaves the repository.
RemoveBranch(b) ==
    /\ b \in clearing
    /\ clearing' = clearing \ {b}
    /\ \/ /\ b # Root
          /\ nodes' = IF registered THEN nodes \ Descendants(b) ELSE nodes
          /\ UNCHANGED <<registered, state, queue, isProcessing, currentNode, cancelling>>
       \/ /\ b = Root
          /\ registered
          /\ registered' = FALSE
          /\ CancelTreeStep
          /\ UNCHANGED nodes
       \/ /\ b = Root
          /\ ~registered
          /\ UNCHANGED <<nodes, registered, state, queue, isProcessing, currentNode, cancelling>>
    /\ UNCHANGED <<parent, currentTask, task, captured, outcome>>

\* /clear of everything: cancel_all first; then the handler awaits the deletion
\* of the chat's messages, and puts a new TreeQueueManager in place.
ClearAll ==
    /\ "clear_all" \in Ops
    /\ registered
    /\ CancelTreeStep
    /\ clearing' = clearing \cup {NoNode}
    /\ UNCHANGED <<nodes, registered, parent, currentTask, task, captured, outcome>>

ReplaceManager ==
    /\ NoNode \in clearing
    /\ clearing' = clearing \ {NoNode}
    /\ registered' = FALSE
    /\ UNCHANGED <<nodes, parent, state, queue, isProcessing, currentNode, currentTask,
                   task, cancelling, captured, outcome>>

-----------------------------------------------------------------------------
TaskEvent(n) == SessionInfo(n) \/ CliError(n)

TaskProgress(n) ==
    \/ DieUnstarted(n) \/ Skip(n) \/ Start(n) \/ Acquire(n)
    \/ \E code \in {"ok", "failed"} : CliExit(n, code)
    \/ Fails(n) \/ DeliverCancel(n) \/ StopDone(n) \/ Finish(n)

Next ==
    \/ \E n, p \in Node : Reply(n, p)
    \/ \E n \in Node : TaskEvent(n) \/ TaskProgress(n)
    \/ CancelTree
    \/ \E n \in Node : CancelNode(n)
    \/ \E b \in Node : CancelBranch(b)
    \/ \E b \in Node : RemoveBranch(b)
    \/ ClearAll
    \/ ReplaceManager

Spec == Init /\ [][Next]_vars

(***************************************************************************)
(* The event loop runs every ready task, a CLI run ends (its process exits *)
(* or the idle timeout of start_task fires), a stopped process dies within *)
(* the kill timeout, and deletions return.  Users owe nothing.             *)
(***************************************************************************)
Fairness ==
    /\ \A n \in Node : WF_vars(TaskProgress(n))
    /\ \A b \in Node : WF_vars(RemoveBranch(b))
    /\ WF_vars(ReplaceManager)

FairSpec == Spec /\ Fairness

-----------------------------------------------------------------------------
(* Properties.                                                             *)

TypeOK ==
    /\ nodes \in SUBSET Node
    /\ registered \in BOOLEAN
    /\ parent \in [Node -> Node \cup {NoNode}]
    /\ state \in [Node -> MessageState]
    /\ queue \in Seq(Node)
    /\ isProcessing \in BOOLEAN
    /\ currentNode \in Node \cup {NoNode}
    /\ currentTask \in Node \cup {NoNode}
    /\ task \in [Node -> Phase]
    /\ cancelling \in SUBSET Node
    /\ captured \in SUBSET Node
    /\ outcome \in [Node -> {"none", "ok", "failed"}]
    /\ clearing \in SUBSET (Node \cup {NoNode})

\* Nothing waits in the queue of a tree marked free: a message put there would
\* be served only after some later one.  (enqueue_and_start, _process_next,
\* cancel_tree, whatever the order in which they run.)
NoIdleBacklog == queue # << >> => isProcessing

\* A message waits at most once, and is never both waiting and already given
\* to a task: no turn is sent to the CLI twice.
WaitingOnce ==
    /\ \A i, j \in DOMAIN queue : queue[i] = queue[j] => i = j
    /\ \A i \in DOMAIN queue : task[queue[i]] = "none"

\* "Per-tree queue ensures ordered processing": two turns of one conversation
\* are never processed at the same time.
SerialProcessing == \A m, n \in Node : task[m] \in Active /\ task[n] \in Live => m = n

\* The same, of turns that are running and that nobody has stopped.
OneRunAtATime ==
    \A m, n \in Node \ cancelling : task[m] = "running" /\ task[n] = "running" => m = n

\* A turn runs only when the turn it replies to is over or was cancelled before
\* it started, so that get_parent_session_id sees the session to fork from.
ParentSettledFirst ==
    \A n \in Node : task[n] \in Active /\ parent[n] # NoNode =>
        task[parent[n]] \notin Live /\ ~Queued(parent[n])

\* A node in ERROR before its task has started (stopped by the user, or its
\* parent failed) never reaches the CLI and stays in ERROR.
StoppedNeverRuns ==
    [][\A n \in Node : state[n] = "error" /\ task[n] \in {"none", "created"} =>
            state'[n] = "error" /\ task'[n] \notin Active]_vars

\* A turn that was recorded COMPLETED stays so: a stop that arrives while its
\* session is being released does not turn it into an error.
CompletedIsFinal ==
    [][\A n \in Node : state[n] = "completed" => state'[n] = "completed"]_vars

\* Every message that is queued is eventually taken out of the queue.
QueueServed == \A n \in Node : Queued(n) ~> ~Queued(n)

\* A tree marked busy has a task that will look at the queue when it ends.
BusyMeansLive == isProcessing => \E n \in Node : task[n] \in Live

\* _process_next: "Process the next message in queue, if any."  The message that a tree is
\* busy with has been given a task, whatever became of it while it waited, with one
\* exception: remove_branch has taken it out of the tree and left it in the queue (it was
\* settled already, or came during the deletions), and the tree stays busy with nothing.
BusyNodeHasTask == isProcessing /\ currentNode \in nodes => task[currentNode] # "none"

\* MessageState.COMPLETED: "Processing finished successfully".
CompletedMeansSuccess == \A n \in Node : state[n] = "completed" => outcome[n] # "failed"

-----------------------------------------------------------------------------
(***************************************************************************)
(* Seen from outside, the tree is a SerialQueue.  A message whose task has *)
(* been created but has not taken its first step is still waiting, at the  *)
(* head.                                                                   *)
(***************************************************************************)
Submitted == {n \in Node : ~Fresh(n)}
Scheduled == {n \in Node : task[n] = "created"}
Waiting == IF Scheduled = {} THEN queue
           ELSE <<CHOOSE n \in Node : task[n] = "created">> \o queue
ActiveNode == IF \E n \in Node : task[n] \in Active
              THEN CHOOSE n \in Node : task[n] \in Active ELSE NoNode

Serial == INSTANCE SerialQueue
            WITH Message <- Node, Nobody <- NoNode,
                 submitted <- Submitted, waiting <- Waiting, active <- ActiveNode

\* As long as no whole tree is stopped and no branch cleared, messages are
\* served one at a time and in order.
RefinesSerialQueue == Serial!Spec
=============================================================================
