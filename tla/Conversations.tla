---------------------------- MODULE Conversations ----------------------------
(***************************************************************************)
(* The conversations of a bot and what is stored of them: a message on its *)
(* way through handler.py (_handle_message_impl), the index of             *)
(* trees/queue_manager.py (TreeRepository) by which a reply finds its      *)
(* tree, the trees with their tasks, the trees and the index in session.py,*)
(* the commands of commands.py, and a restart.                             *)
(* A service hands messages over without waiting for the last one's        *)
(* handler (Discord), so that messages arrive while a command waits for    *)
(* the CLI or for deletions.  A tree is called by its root.                *)
(***************************************************************************)
EXTENDS Naturals, Sequences, FiniteSets

CONSTANTS MaxMessages, MaxCommands, MaxLives

VARIABLES
    at,          \* at[m]: how far the handler has come with message m
    above,       \* above[m]: the node it replies to, 0 for a new conversation
    repo,        \* the manager in use: its trees, and the tree of each id
    tree,        \* tree[r]: nodes, queue, busy, current node and task
    state,       \* state[m]: MessageState of a node
    run,         \* run[m]: the task of a node
    blind,       \* the tasks that did not find their tree
    cancelling,  \* the tasks with a cancellation on its way
    stored,      \* the session store: trees with the states of their nodes, and index
    command,     \* the command under way: kind, stage, branch, cancelled nodes
    lives, commands,
    astray       \* history: messages that came while a /clear threw their conversation away,
                 \* whose turn ran beside another one of their tree, or went on after an error

convVars == <<at, above, repo, tree, state, run, blind, cancelling, stored, command, lives, commands, astray>>
tasks == <<run, blind, cancelling>>
world == <<at, above, repo, lives, commands, command>>

Message == 1..MaxMessages
Id == Message \X {"message", "status"}
Unsettled == {"pending", "in_progress"}
Live == {"created", "working", "heard", "stopping", "finishing"}
NoTree == [nodes |-> {}, queue |-> <<>>, busy |-> FALSE, current |-> 0, task |-> 0]
Idle == [kind |-> "none", stage |-> "none", branch |-> 0, cancelled |-> {}, came |-> {}]
EmptyIndex == [trees |-> {}, index |-> <<>>]
EmptyStore == [trees |-> <<>>, index |-> <<>>]

ConvInit ==
    /\ at = [m \in Message |-> "new"] /\ above = [m \in Message |-> 0]
    /\ repo = EmptyIndex /\ stored = EmptyStore
    /\ tree = [m \in Message |-> NoTree] /\ state = [m \in Message |-> "pending"]
    /\ run = [m \in Message |-> "none"] /\ blind = {} /\ cancelling = {}
    /\ command = Idle /\ lives = 1 /\ commands = 0 /\ astray = {}

------------------------------------------------------------------------------
(* Nodes, trees and the index.                                               *)

\* A message is above those that reply to it, and came before them.
Chain[m \in 0..MaxMessages] == IF m = 0 THEN {} ELSE {m} \union Chain[above[m]]
Root(m) == CHOOSE r \in Chain[m] : above[r] = 0
Branch(b) == {m \in tree[Root(b)].nodes : b \in Chain[m]}

\* get_tree_for_node and resolve_parent_node_id: an id is a node's or its status message's.
HasTree(id) == id \in DOMAIN repo.index /\ repo.index[id] \in repo.trees
Resolve(id) == IF HasTree(id) /\ id[1] \in tree[repo.index[id]].nodes THEN id[1] ELSE 0

Indexed(index, ids, r) == [id \in DOMAIN index \union ids |-> IF id \in ids THEN r ELSE index[id]]
Forgotten(index, nodes) == [id \in DOMAIN index \ (nodes \X {"message"}) |-> index[id]]

\* save_tree for the trees rs as they are after the step.
Saved(store, rs) ==
    LET Nodes == [r \in rs |-> {<<n, "message">> : n \in tree'[r].nodes}] IN
    [trees |-> [r \in DOMAIN store.trees \union rs |->
                   IF r \in rs THEN [n \in tree'[r].nodes |-> state'[n]] ELSE store.trees[r]],
     index |-> [id \in DOMAIN store.index \union UNION {Nodes[r] : r \in rs} |->
                   IF \E r \in rs : id \in Nodes[r]
                   THEN CHOOSE r \in rs : id \in Nodes[r] ELSE store.index[id]]]

\* update_cancelled_nodes_ui: the trees of the nodes, as far as the manager in use has them.
WithCancelled(store, nodes) ==
    LET found == {n \in nodes : HasTree(<<n, "message">>)} IN
    Saved(store, {repo.index[<<n, "message">>] : n \in found})

------------------------------------------------------------------------------
(* A message (_handle_message_impl).                                         *)

\* Until the status message is sent: the parent is looked up and remembered.
Receive(m, id) ==
    /\ at[m] = "new" /\ \A k \in 1..(m - 1) : at[k] # "new"
    /\ id # <<>> => at[id[1]] = "kept"
    /\ at' = [at EXCEPT ![m] = "sending"]
    /\ above' = [above EXCEPT ![m] = IF id = <<>> THEN 0 ELSE Resolve(id)]
    /\ UNCHANGED <<repo, tree, state, tasks, stored, command, lives, commands, astray>>

\* The status message cannot be sent.
NotSent(m) ==
    /\ at[m] = "sending" /\ at' = [at EXCEPT ![m] = "lost"] /\ above' = [above EXCEPT ![m] = 0]
    /\ UNCHANGED <<repo, tree, state, tasks, stored, command, lives, commands, astray>>

\* add_to_tree raises if the parent has gone meanwhile.
Refuse(m) ==
    /\ at[m] = "sending" /\ above[m] # 0 /\ Resolve(<<above[m], "message">>) = 0
    /\ at' = [at EXCEPT ![m] = "refused"] /\ above' = [above EXCEPT ![m] = 0]
    /\ UNCHANGED <<repo, tree, state, tasks, stored, command, lives, commands, astray>>

\* create_tree or add_to_tree, the registrations, save_tree and enqueue.
Enqueued(t, m) ==
    IF t.busy THEN [t EXCEPT !.nodes = @ \union {m}, !.queue = Append(@, m)]
    ELSE [t EXCEPT !.nodes = @ \union {m}, !.busy = TRUE, !.current = m, !.task = m]

Keep(m) ==
    LET r == Root(m)
        both == {m} \X {"message", "status"}
    IN
    /\ at[m] = "sending" /\ (above[m] # 0 => Resolve(<<above[m], "message">>) # 0)
    /\ at' = [at EXCEPT ![m] = "kept"]
    /\ repo' = [trees |-> repo.trees \union {r}, index |-> Indexed(repo.index, both, r)]
    /\ tree' = [tree EXCEPT ![r] = Enqueued(@, m)]
    /\ run' = IF tree[r].busy THEN run ELSE [run EXCEPT ![m] = "created"]
    /\ UNCHANGED state
    /\ stored' = Saved([stored EXCEPT !.index = Indexed(@, both, r)], {r})
    /\ command' = IF command = Idle THEN Idle ELSE [command EXCEPT !.came = @ \union {m}]
    /\ UNCHANGED <<above, blind, cancelling, lives, commands, astray>>

------------------------------------------------------------------------------
(* The task of a node, as TreeQueue has it in detail.                        *)

\* A node that has left its tree keeps the state it had (update_state).
Updated(m, s) == IF m \in tree[Root(m)].nodes THEN [state EXCEPT ![m] = s] ELSE state

\* _process_next of the tree of m, whose task is over.
ProcessNext(m) ==
    LET r == Root(m)
        queue == tree[r].queue
        next == Head(queue)
        starts == queue # <<>> /\ next \in tree[r].nodes
    IN
    /\ tree' = [tree EXCEPT ![r].queue = IF queue = <<>> THEN <<>> ELSE Tail(queue),
                            ![r].busy = queue # <<>>,
                            ![r].current = IF queue = <<>> THEN 0 ELSE next,
                            ![r].task = IF starts THEN next ELSE @]
    /\ run' = [n \in Message |-> IF n = m THEN "done" ELSE IF starts /\ n = next THEN "created" ELSE run[n]]
    /\ cancelling' = cancelling \ {m} /\ blind' = blind \ {m}
    /\ astray' = astray \union {n \in tree[r].nodes \ {m} : run[n] \in Live}

DieUnstarted(m) ==
    /\ run[m] = "created" /\ m \in cancelling
    /\ run' = [run EXCEPT ![m] = "done"] /\ cancelling' = cancelling \ {m}
    /\ UNCHANGED <<world, astray, tree, state, blind, stored>>

Skip(m) ==
    /\ run[m] = "created" /\ m \notin cancelling /\ state[m] = "error"
    /\ ProcessNext(m)
    /\ UNCHANGED <<world, state, stored>>

\* The task asks the manager that is in use when it begins.
Begin(m) ==
    LET finds == HasTree(<<m, "message">>) IN
    /\ run[m] = "created" /\ m \notin cancelling /\ state[m] # "error"
    /\ run' = [run EXCEPT ![m] = "working"]
    /\ blind' = IF finds THEN blind ELSE blind \union {m}
    /\ state' = IF finds THEN Updated(m, "in_progress") ELSE state
    /\ UNCHANGED <<world, astray, tree, cancelling, stored>>

\* session_info and "complete" save the tree the task has found.
SessionInfo(m) ==
    /\ run[m] = "working" /\ m \notin cancelling
    /\ run' = [run EXCEPT ![m] = "heard"]
    /\ UNCHANGED tree
    /\ IF m \in blind THEN UNCHANGED <<state, stored>>
       ELSE state' = Updated(m, "in_progress") /\ stored' = Saved(stored, {Root(m)})
    /\ UNCHANGED <<world, astray, blind, cancelling>>

Complete(m) ==
    /\ run[m] \in {"working", "heard"} /\ m \notin cancelling
    /\ run' = [run EXCEPT ![m] = "finishing"]
    /\ UNCHANGED tree
    /\ IF m \in blind \/ run[m] = "working" THEN UNCHANGED <<state, stored>>
       ELSE state' = Updated(m, "completed") /\ stored' = Saved(stored, {Root(m)})
    /\ UNCHANGED <<world, astray, blind, cancelling>>

\* _propagate_error_to_children asks the manager in use, and nothing is saved.  An error
\* event may be followed by others, an exception ends the run.
Pending(m) ==
    {n \in Branch(m) : \A k \in Chain[n] \ Chain[m] : k \in tree[Root(m)].nodes /\ state[k] = "pending"}

Fail(m) ==
    /\ run[m] \in {"working", "heard"} /\ m \notin cancelling
    /\ \E goesOn \in BOOLEAN :
          /\ run' = [run EXCEPT ![m] = IF goesOn THEN @ ELSE "finishing"]
          /\ astray' = IF goesOn THEN astray \union {m} ELSE astray
    /\ state' = IF m \in blind \/ Resolve(<<m, "message">>) = 0 THEN state
                ELSE [n \in Message |-> IF n \in Pending(m) THEN "error" ELSE state[n]]
    /\ UNCHANGED <<world, tree, blind, cancelling, stored>>

DeliverCancel(m) ==
    /\ run[m] \in {"working", "heard"} /\ m \in cancelling
    /\ run' = [run EXCEPT ![m] = "stopping"] /\ cancelling' = cancelling \ {m}
    /\ UNCHANGED <<world, astray, tree, state, blind, stored>>

StopDone(m) ==
    /\ run[m] = "stopping"
    /\ run' = [run EXCEPT ![m] = "finishing"] /\ cancelling' = cancelling \ {m}
    /\ state' = IF m \in blind THEN state ELSE Updated(m, "error")
    /\ UNCHANGED <<world, astray, tree, blind, stored>>

Finish(m) ==
    /\ run[m] = "finishing" /\ ProcessNext(m)
    /\ UNCHANGED <<world, state, stored>>

TaskStep(m) == \/ DieUnstarted(m) \/ Skip(m) \/ Begin(m) \/ SessionInfo(m) \/ Complete(m) \/ Fail(m)
               \/ DeliverCancel(m) \/ StopDone(m) \/ Finish(m)

------------------------------------------------------------------------------
(* Commands.                                                                 *)

Current(r) == {tree[r].task} \intersect {m \in Message : run[m] \in Live}
Queued(r) == {tree[r].queue[i] : i \in DOMAIN tree[r].queue}
Open(nodes) == {n \in nodes : state[n] \in Unsettled}
InError(nodes) == state' = [m \in Message |-> IF m \in nodes THEN "error" ELSE state[m]]

\* cancel_tree on each of rs: the nodes it returns, and what it does.
Returned(rs) ==
    UNION {(IF Current(r) = {} THEN {} ELSE Open({tree[r].current} \intersect tree[r].nodes))
           \union (Queued(r) \intersect tree[r].nodes) : r \in rs}
CancelTrees(rs) ==
    /\ InError(UNION {Open(tree[r].nodes) \union (Queued(r) \intersect tree[r].nodes) : r \in rs})
    /\ cancelling' = cancelling \union UNION {Current(r) : r \in rs}

Command(kind, stage, branch, cancelled) ==
    command' = [kind |-> kind, stage |-> stage, branch |-> branch, cancelled |-> cancelled, came |-> {}]
MayCommand == command = Idle /\ commands < MaxCommands /\ commands' = commands + 1

\* /stop in reply: cancel_node, and the tree is saved if there was something to cancel.
StopTask(m) ==
    LET r == Root(m) IN
    /\ MayCommand /\ Resolve(<<m, "message">>) = m /\ state[m] \in Unsettled
    /\ cancelling' = IF tree[r].current = m THEN cancelling \union Current(r) ELSE cancelling
    /\ InError({m})
    /\ tree' = [tree EXCEPT ![r].queue = SelectSeq(@, LAMBDA n : n # m)]
    /\ stored' = WithCancelled(stored, {m})
    /\ UNCHANGED <<at, above, repo, run, blind, command, lives, astray>>

\* /stop and /clear of everything: stop_all_tasks cancels, then waits for the CLI.
StopAll(kind) ==
    /\ MayCommand
    /\ CancelTrees(repo.trees)
    /\ tree' = [r \in Message |->
                  IF r \in repo.trees
                  THEN [tree[r] EXCEPT !.queue = <<>>, !.busy = FALSE, !.current = 0] ELSE tree[r]]
    /\ Command(kind, "stopping", 0, Returned(repo.trees))
    /\ UNCHANGED <<at, above, repo, run, blind, stored, lives, astray>>

\* The CLI has stopped: the trees are saved; /clear goes on to delete messages.
Stopped ==
    /\ command.stage = "stopping"
    /\ UNCHANGED <<tree, state>>
    /\ stored' = WithCancelled(stored, command.cancelled)
    /\ command' = IF command.kind = "stop" THEN Idle
                  ELSE [command EXCEPT !.stage = "deleting", !.cancelled = {}]
    /\ UNCHANGED <<at, above, repo, tasks, lives, commands, astray>>

\* The messages that came during a command which throws away the nodes `gone`: those taken
\* into them, and those about to be.
Came(gone) == (command.came \intersect gone) \union {m \in Message : at[m] = "sending" /\ above[m] \in gone}

\* clear_all and replace_tree_queue: tasks of the old manager are not looked at.
ClearAll ==
    /\ command.kind = "clear" /\ command.stage = "deleting"
    /\ stored' = EmptyStore /\ repo' = EmptyIndex /\ command' = Idle
    /\ astray' = astray \union Came(UNION {tree[r].nodes : r \in repo.trees})
    /\ UNCHANGED <<at, above, tree, state, tasks, lives, commands>>

\* /clear in reply (_handle_clear_branch): cancel_branch, then deletions are awaited.
ClearBranch(b) ==
    LET r == Root(b)
        open == Open(Branch(b))
    IN
    /\ MayCommand /\ Resolve(<<b, "message">>) = b
    /\ cancelling' = IF tree[r].current \in open THEN cancelling \union Current(r) ELSE cancelling
    /\ InError(open)
    /\ tree' = [tree EXCEPT ![r].queue = SelectSeq(@, LAMBDA n : n \notin open \ {tree[r].current})]
    /\ stored' = WithCancelled(stored, open)
    /\ Command("clear branch", "deleting", b, {})
    /\ UNCHANGED <<at, above, repo, run, blind, lives, astray>>

\* remove_branch of the manager in use, and the same in the store.
RemoveBranch ==
    LET b == command.branch
        r == Root(b)
        gone == Branch(b)
    IN
    /\ command.kind = "clear branch" /\ command' = Idle
    /\ IF ~HasTree(<<b, "message">>) THEN UNCHANGED <<tree, state, cancelling, repo, stored, astray>>
       ELSE /\ astray' = astray \union Came(gone)
            /\ IF b = r
               THEN /\ CancelTrees({r})
                    /\ tree' = [tree EXCEPT ![r].queue = <<>>, ![r].busy = FALSE, ![r].current = 0]
               ELSE /\ tree' = [tree EXCEPT ![r].nodes = @ \ gone]
                    /\ UNCHANGED <<state, cancelling>>
            /\ repo' = [trees |-> IF b = r THEN repo.trees \ {r} ELSE repo.trees,
                        index |-> Forgotten(repo.index, gone)]
            /\ LET store == [stored EXCEPT !.index = Forgotten(@, gone)] IN
               stored' = IF b = r THEN [store EXCEPT !.trees = [x \in DOMAIN @ \ {r} |-> @[x]]]
                         ELSE Saved(store, {r})
    /\ UNCHANGED <<at, above, run, blind, lives, commands>>

------------------------------------------------------------------------------
(* A restart with what is stored on disk (SessionStore says when it is).     *)

\* MessageTree.from_dict, and the state of a node in it (MessageNode.from_dict).
Restored(r) == IF r \in DOMAIN stored.trees THEN [NoTree EXCEPT !.nodes = DOMAIN stored.trees[r]] ELSE NoTree
SavedState(n) == IF n \in Restored(Root(n)).nodes THEN stored.trees[Root(n)][n] ELSE state[n]
CleanedUp(n) == IF n \in Restored(Root(n)).nodes /\ SavedState(n) \in Unsettled THEN "error" ELSE SavedState(n)

\* What the handler held of messages is gone; sync_from_tree_data if there was something
\* to clean up.
Restart ==
    LET trees == DOMAIN stored.trees IN
    /\ lives < MaxLives /\ lives' = lives + 1
    /\ repo' = IF trees = {} THEN EmptyIndex ELSE [trees |-> trees, index |-> stored.index]
    /\ tree' = [r \in Message |-> Restored(r)]
    /\ state' = [n \in Message |-> CleanedUp(n)]
    /\ stored' = IF \A n \in Message : CleanedUp(n) = SavedState(n) THEN stored
                 ELSE [Saved(stored, trees) EXCEPT !.index = stored.index]
    /\ at' = [m \in Message |-> IF at[m] = "sending" THEN "lost" ELSE at[m]]
    /\ above' = [m \in Message |-> IF at[m] = "sending" THEN 0 ELSE above[m]]
    /\ run' = [m \in Message |-> IF run[m] \in Live THEN "done" ELSE run[m]]
    /\ blind' = {} /\ cancelling' = {} /\ command' = Idle
    /\ UNCHANGED <<commands, astray>>

ConvNext ==
    \/ \E m \in Message : \/ \E id \in Id \union {<<>>} : Receive(m, id)
                          \/ NotSent(m) \/ Refuse(m) \/ Keep(m) \/ TaskStep(m)
                          \/ StopTask(m) \/ ClearBranch(m)
    \/ StopAll("stop") \/ StopAll("clear") \/ Stopped \/ ClearAll \/ RemoveBranch \/ Restart

------------------------------------------------------------------------------
(* What a restart would bring back of a conversation is what it is: the same nodes, of  *)
(* which the same have been completed (all others end in ERROR), whatever was stopped,  *)
(* failed or removed since.                                                             *)
StoreFollows ==
    \A r \in repo.trees :
        /\ r \in DOMAIN stored.trees /\ DOMAIN stored.trees[r] = tree[r].nodes
        /\ \A n \in tree[r].nodes : stored.trees[r][n] = "completed" <=> state[n] = "completed"

HasAstray(r) == \E m \in astray : Root(m) = r

(* A reply to a message or to its status message finds the message's node, before a     *)
(* restart and after it; but for a conversation which a task that was astray has put    *)
(* back into the store, and which a restart then brings back.                           *)
RepliesFindNodes ==
    \A r \in repo.trees : (lives > 1 => ~HasAstray(r)) =>
        \A id \in tree[r].nodes \X {"message", "status"} :
            Resolve(id) = id[1] /\ id \in DOMAIN stored.index /\ stored.index[id] = r

(* What is cleared stays cleared: the store has no tree that the bot has not, no task   *)
(* works for a message that is in no tree, and no reply is refused, but for messages    *)
(* that came while the /clear was under way, and turns that cancel_branch passes over:  *)
(* those that ran beside one that was being stopped (tree_overlap), which is why their  *)
(* tree does not know them as current, and those that go on after an error event.       *)
ClearedStaysCleared ==
    /\ \A r \in DOMAIN stored.trees \ repo.trees : HasAstray(r)
    /\ \A m \in Message \ astray :
          /\ at[m] # "refused"
          /\ run[m] \in {"working", "heard"} /\ m \notin cancelling =>
                Root(m) \in repo.trees /\ m \in tree[Root(m)].nodes

ConversationsSound == StoreFollows /\ RepliesFindNodes /\ ClearedStaysCleared
==============================================================================
