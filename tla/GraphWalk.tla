------------------------------ MODULE GraphWalk ------------------------------
(***************************************************************************)
(* The traversals of core/graph/query.py: neighbors (_bfs), impact         *)
(* (_transitive_closure for each entity, and what is made of it) and path. *)
(* Each is a loop over a queue with its own rule for what it has visited,  *)
(* what it skips and when it stops; here one iteration is one step, over   *)
(* any graph, and the rows of a query come in any order.                   *)
(*                                                                         *)
(* Relations may name entities that do not exist, an entity may live in a  *)
(* test file or be a rationale excerpt.  The filter by relation type drops *)
(* relations before they are looked at: arcs are those that pass it.       *)
(***************************************************************************)
EXTENDS Naturals, Sequences, SequencesExt, FiniteSets

CONSTANTS
    Node,        \* entity ids that occur in the graph
    Arc,         \* relations that may be there: <<source, target>>
    Starts,      \* sets of entities that a walk may start from
    MaxDepth     \* bound on the depth asked for

VARIABLES
    graph,   \* arcs; the entities among the nodes; tests and rationale among those
    walk     \* the call and its loop

walkVars == <<graph, walk>>

Exists(n) == n \in graph.entities
IsTest(n) == Exists(n) /\ n \in graph.tests
Outgoing(n) == {m \in Node : <<n, m>> \in graph.arcs}
Incoming(n) == {m \in Node : <<m, n>> \in graph.arcs}

WalkInit ==
    /\ graph \in [arcs : SUBSET Arc, entities : {Node, Node \ {CHOOSE n \in Node : TRUE}},
                  tests : {{n} : n \in Node}, rationale : {{n} : n \in Node}]
    /\ walk = [call |-> "none"]

\* A call: its queue holds the ways to the nodes that are still to be expanded.
Loop(call, todo, s, t, depth, skip) ==
    [call |-> call, from |-> s, todo |-> todo, target |-> t, depth |-> depth, skip |-> skip,
     queue |-> <<>>, visited |-> {}, affected |-> {}, found |-> <<>>, done |-> FALSE]

CallNeighbors ==
    \E s \in Starts, d \in 0..MaxDepth, call \in {"in", "out"} : \E n \in s :
       walk' = [Loop(call, {}, {n}, n, d, FALSE) EXCEPT !.queue = <<<<n>>>>, !.visited = {n}]

CallImpact ==
    \E s \in Starts, skip \in BOOLEAN : walk' = Loop("impact", s, s, "none", 0, skip)

CallPath ==
    \E s \in Starts, t \in Node, skip \in BOOLEAN : \E n \in s :
       walk' = [Loop("path", {}, {n}, t, 0, skip) EXCEPT !.queue = <<<<n>>>>, !.visited = {n},
                                                        !.done = (n = t)]

Call == walk.call = "none" /\ (CallNeighbors \/ CallImpact \/ CallPath) /\ UNCHANGED graph

Here == Last(Head(walk.queue))
Depth == Len(Head(walk.queue)) - 1
Kept(nodes) == {n \in nodes : ~(walk.skip /\ IsTest(n))}

\* The queue without its head, and with the given nodes after it, in some order.
Queued(nodes) ==
    {Tail(walk.queue) \o [i \in DOMAIN order |-> Append(Head(walk.queue), order[i])] :
       order \in SetToSeqs(nodes)}

NotSeen(nodes) == nodes \ walk.visited

\* _bfs: a node at the depth asked for is not expanded; one is queued when first seen.
TooDeep(d) == d >= walk.depth

StepNeighbors ==
    /\ walk.call \in {"in", "out"} /\ walk.queue # <<>>
    /\ LET new == IF TooDeep(Depth) THEN {}
                  ELSE NotSeen(IF walk.call = "out" THEN Outgoing(Here) ELSE Incoming(Here)) IN
       \E queue \in Queued(new) :
          walk' = [walk EXCEPT !.queue = queue, !.visited = @ \union new,
                               !.affected = @ \union {n \in new : Exists(n)}]
    /\ UNCHANGED graph

\* impact: a closure for each entity in turn; ...
NextClosure ==
    /\ walk.call = "impact" /\ walk.queue = <<>> /\ ~walk.done
    /\ \/ \E n \in walk.todo :
             walk' = [walk EXCEPT !.queue = <<<<n>>>>, !.visited = {}, !.todo = @ \ {n}]
       \/ walk.todo = {} /\ walk' = [walk EXCEPT !.done = TRUE]
    /\ UNCHANGED graph

\* ... _transitive_closure: a node is visited when it leaves the queue, where it may be
\* twice; its start is not part of it.
StepClosure ==
    /\ walk.call = "impact" /\ walk.queue # <<>>
    /\ IF Here \in walk.visited THEN walk' = [walk EXCEPT !.queue = Tail(@)]
       ELSE \E queue \in Queued(Kept(Incoming(Here)) \ (walk.visited \union {Here})) :
               walk' = [walk EXCEPT !.queue = queue, !.visited = @ \union {Here},
                                    !.affected = @ \union ({Here} \ {Head(walk.queue)[1]})]
    /\ UNCHANGED graph

\* path: the loop returns when it meets the target among the relations of a node.
Reached(new) == walk.target \in new

StepPath ==
    /\ walk.call = "path" /\ walk.queue # <<>> /\ ~walk.done
    /\ LET near == Kept(Outgoing(Here)) IN
       IF Reached(near)
       THEN walk' = [walk EXCEPT !.found = Append(Head(walk.queue), walk.target), !.done = TRUE]
       ELSE \E queue \in Queued(NotSeen(near)) :
               walk' = [walk EXCEPT !.queue = queue, !.visited = @ \union near]
    /\ UNCHANGED graph

WalkNext == Call \/ StepNeighbors \/ NextClosure \/ StepClosure \/ StepPath

\* What impact reports of the closures.
Code(n) == ~(Exists(n) /\ n \in graph.rationale)
Direct == {n \in UNION {Kept(Incoming(s)) : s \in walk.from} : Code(n)}
Transitive == ({n \in walk.affected : Code(n)} \ Direct) \ walk.from

-----------------------------------------------------------------------------
\* The nodes within k relations of some nodes, by definition.
Within(nodes, near) ==
    LET ball[k \in Nat] ==
            IF k = 0 THEN nodes ELSE ball[k - 1] \union UNION {near[n] : n \in ball[k - 1]}
    IN ball

Out == [n \in Node |-> Outgoing(n)]
In == [n \in Node |-> Incoming(n)]
KeptOut == [n \in Node |-> Kept(Outgoing(n))]
KeptIn == [n \in Node |-> Kept(Incoming(n))]
Everywhere == Cardinality(Node)

\* neighbors returns the entities within the depth asked for, however the graph loops.
NeighborsRight ==
    walk.call \in {"in", "out"} /\ walk.queue = <<>> =>
       walk.affected = {n \in Within(walk.from, IF walk.call = "out" THEN Out ELSE In)[walk.depth] :
                           Exists(n)} \ walk.from

\* impact reports everything that depends on the entities directly or by others, nothing
\* twice, no rationale and, when they are excluded, nothing that only a test relates.
ImpactRight ==
    walk.call = "impact" /\ walk.done =>
       /\ (Direct \union Transitive) \ walk.from =
             {n \in Within(walk.from, KeptIn)[Everywhere] : Code(n)} \ walk.from
       /\ Direct \intersect Transitive = {}

\* path returns a way along relations that is as short as any, and nothing only if there
\* is none.
IsWay(way) == \A i \in 1..(Len(way) - 1) : way[i + 1] \in KeptOut[way[i]]
PathRight ==
    walk.call = "path" /\ (walk.done \/ walk.queue = <<>>) /\ walk.target \notin walk.from =>
       IF walk.found = <<>> THEN walk.target \notin Within(walk.from, KeptOut)[Everywhere]
       ELSE /\ IsWay(walk.found) /\ {Head(walk.found)} = walk.from
            /\ Last(walk.found) = walk.target
            /\ walk.target \notin Within(walk.from, KeptOut)[Len(walk.found) - 2]

WalksRight == NeighborsRight /\ ImpactRight /\ PathRight
=============================================================================
