------------------------------ MODULE GraphLoad ------------------------------
(***************************************************************************)
(* core/graph/loader.py, the tables of core/graph/store.py and the server  *)
(* scripts/graph/mcp_server.py.  Every hook that wants the knowledge graph *)
(* loads graph.json into store.db again: it reads the file, empties the    *)
(* tables in one transaction, fills them in a second, computes the degrees *)
(* from what it reads back, and stamps the store, each stamp committed by  *)
(* itself: the time that the file has by then, counts, and a snapshot of   *)
(* the entities.  graphify rewrites the file meanwhile, other processes    *)
(* load too, and the MCP server answers from the store.                    *)
(*                                                                         *)
(* Graphs are the contents that graph.json takes in turn.  A bad one is    *)
(* not JSON, or half-written, or has an element that fails validation.     *)
(***************************************************************************)
EXTENDS Naturals, Sequences, FiniteSets, FiniteSetsExt

CONSTANTS
    Loader,      \* processes that load the graph once
    Graphs       \* sequence of [nodes, edges, bad]

VARIABLES
    json,     \* index in Graphs of what graph.json holds; 0 when there is none
    store,    \* what is committed: nodes, edges, degrees (in_degree), and for each stamp the
              \* graph that it is of
    writer,   \* the process with a write transaction, if any
    load,     \* loader -> step, graph read, rows inserted, relations read back, time of the
              \* file, stamps committed
    server,   \* the MCP server's cache: none, error, or its query
    met       \* loaders that ran while the file changed or another one loaded

graphVars == <<json, store, writer, load, server, met>>

Loaders == Loader \union {"mcp"}
NoWriter == "none"
Nothing == [nodes |-> {}, edges |-> {}]
Fresh == [step |-> "new", graph |-> 0, rows |-> Nothing, seen |-> {}, time |-> 0, stamps |-> 0]

\* The keys of schema_meta that every load sets, in order.
Stamps == <<"graph_version", "source_node_count", "source_edge_count",
            "entity_snapshot", "entity_snapshot_count", "edge_snapshot_count">>
Steps(l) == load[l].step
AtWork(l) == Steps(l) \notin {"new", "done", "failed"}
Moved(l, next) == load' = [load EXCEPT ![l] = next]

GraphInit ==
    /\ json = 0 /\ writer = NoWriter
    /\ store = [nodes |-> {}, edges |-> {}, degree |-> {}, stamp |-> [k \in 1..Len(Stamps) |-> 0]]
    /\ load = [l \in Loaders |-> Fresh]
    /\ server = "none" /\ met = {}

\* graphify, or a git checkout, replaces the file while loads are under way.
Rebuild ==
    /\ json < Len(Graphs) /\ json' = json + 1
    /\ met' = met \union {l \in Loaders : AtWork(l)}
    /\ UNCHANGED <<store, writer, load, server>>

\* _get_query: the server loads at the first call and keeps what came of it.
ServerAsked ==
    /\ server = "none" /\ Steps("mcp") = "new"
    /\ server' = IF json = 0 THEN "missing" ELSE "loading"
    /\ UNCHANGED <<json, store, writer, load, met>>

ServerCaches ==
    /\ server = "loading" /\ Steps("mcp") \in {"done", "failed"}
    /\ server' = IF Steps("mcp") = "done" THEN "query" ELSE "corrupted"
    /\ UNCHANGED <<json, store, writer, load, met>>

\* The file is read whole and parsed.
Read(l) ==
    /\ Steps(l) = "new" /\ json > 0 /\ (l = "mcp" => server = "loading")
    /\ \/ Moved(l, [load[l] EXCEPT !.step = "clear", !.graph = json])
       \/ Graphs[json].bad /\ Moved(l, [load[l] EXCEPT !.step = "failed"])
    /\ met' = IF \E m \in Loaders : AtWork(m)
              THEN met \union {l} \union {m \in Loaders : AtWork(m)} ELSE met
    /\ UNCHANGED <<json, store, writer, server>>

\* clear, committed by itself.  A process that waits too long for the lock fails.
Clear(l) ==
    /\ Steps(l) = "clear" /\ writer = NoWriter
    /\ store' = [store EXCEPT !.nodes = {}, !.edges = {}, !.degree = {}]
    /\ Moved(l, [load[l] EXCEPT !.step = "nodes"])
    /\ UNCHANGED <<json, writer, server, met>>

Locked(l) ==
    /\ writer \notin {NoWriter, l} /\ Steps(l) \in {"clear", "nodes", "write", "stamp"}
    /\ Moved(l, [load[l] EXCEPT !.step = "failed"])
    /\ UNCHANGED <<json, store, writer, server, met>>

\* Entities and relations are validated and inserted one after the other: INSERT OR
\* REPLACE and INSERT OR IGNORE in a transaction that the first of them opens.
Graph(l) == Graphs[load[l].graph]

InsertNode(l) ==
    /\ Steps(l) = "nodes" /\ writer \in {NoWriter, l}
    /\ \E n \in Graph(l).nodes \ load[l].rows.nodes :
          LET rows == [load[l].rows EXCEPT !.nodes = @ \union {n}] IN
          /\ Moved(l, [load[l] EXCEPT !.rows = rows,
                                      !.step = IF rows.nodes = Graph(l).nodes THEN "edges" ELSE "nodes"])
    /\ writer' = l
    /\ UNCHANGED <<json, store, server, met>>

\* A bad element raises: the connection is closed and the transaction with it.
Malformed(l) ==
    /\ Steps(l) \in {"nodes", "edges"} /\ Graph(l).bad /\ writer \in {NoWriter, l}
    /\ Moved(l, [load[l] EXCEPT !.step = "failed"]) /\ writer' = NoWriter
    /\ UNCHANGED <<json, store, server, met>>

\* A process that is killed leaves what it has committed.
Dies(l) ==
    /\ AtWork(l)
    /\ Moved(l, [load[l] EXCEPT !.step = "failed"]) /\ writer' = IF writer = l THEN NoWriter ELSE writer
    /\ UNCHANGED <<json, store, server, met>>

\* A replaced row is a new one: its degrees are the column's default.
InsertEdgesAndCommit(l) ==
    /\ Steps(l) = "edges" /\ writer = l /\ ~Graph(l).bad
    /\ LET nodes == store.nodes \union Graph(l).nodes IN
       store' = [store EXCEPT !.nodes = nodes, !.edges = @ \union Graph(l).edges,
                    !.degree = {d \in @ : d[1] \notin Graph(l).nodes}
                               \union {<<n, 0>> : n \in Graph(l).nodes}]
    /\ writer' = NoWriter /\ Moved(l, [load[l] EXCEPT !.step = "readback"])
    /\ UNCHANGED <<json, server, met>>

\* _compute_centrality reads the relations of the store, outside any transaction, ...
ReadBack(l) ==
    /\ Steps(l) = "readback"
    /\ Moved(l, [load[l] EXCEPT !.step = "write", !.seen = store.edges])
    /\ UNCHANGED <<json, store, writer, server, met>>

\* ... counts those that point to an entity, and updates the entities it has counted.
InDegree(n, edges) == Cardinality({e \in edges : e[2] = n})

WriteDegrees(l) ==
    /\ Steps(l) = "write" /\ writer = NoWriter
    /\ LET counted == Graph(l).nodes \union {e[1] : e \in load[l].seen} \union {e[2] : e \in load[l].seen} IN
       store' = [store EXCEPT !.degree = {IF d[1] \in counted THEN <<d[1], InDegree(d[1], load[l].seen)>>
                                          ELSE d : d \in @}]
    /\ Moved(l, [load[l] EXCEPT !.step = "stat"])
    /\ UNCHANGED <<json, writer, server, met>>

\* The version is the time that the file has now, not when it was read.
Stat(l) ==
    /\ Steps(l) = "stat"
    /\ Moved(l, [load[l] EXCEPT !.step = "stamp", !.time = json])
    /\ UNCHANGED <<json, store, writer, server, met>>

\* set_version, and a meta_set for every other key.
Stamp(l) ==
    /\ Steps(l) = "stamp" /\ writer = NoWriter
    /\ LET k == load[l].stamps + 1 IN
       /\ store' = [store EXCEPT !.stamp[k] = IF k = 1 THEN load[l].time ELSE load[l].graph]
       /\ Moved(l, [load[l] EXCEPT !.stamps = k, !.step = IF k = Len(Stamps) THEN "done" ELSE "stamp"])
    /\ UNCHANGED <<json, writer, server, met>>

GraphNext ==
    \/ Rebuild \/ ServerAsked \/ ServerCaches
    \/ \E l \in Loaders :
          \/ Read(l) \/ Clear(l) \/ Locked(l) \/ InsertNode(l) \/ Malformed(l) \/ Dies(l)
          \/ InsertEdgesAndCommit(l) \/ ReadBack(l) \/ WriteDegrees(l) \/ Stat(l) \/ Stamp(l)

-----------------------------------------------------------------------------
\* Nobody ever reads half a graph: what is committed is nothing, or whole graphs that
\* were loaded, their relations with their entities.
Good == {i \in 1..Len(Graphs) : ~Graphs[i].bad}
ReadersSeeWholeGraphs ==
    \E loaded \in SUBSET Good :
       /\ store.nodes = UNION {Graphs[i].nodes : i \in loaded}
       /\ store.edges = UNION {Graphs[i].edges : i \in loaded}

\* A load that nothing ran into leaves the graph of the file it read, with the right
\* degrees and every stamp, whatever loads failed or were cut short before it.
LoneLoadIsRight ==
    \A l \in Loaders :
       Steps(l) = "stamp" /\ load'[l].step = "done" /\ l \notin met =>
          /\ store'.nodes = Graph(l).nodes /\ store'.edges = Graph(l).edges
          /\ store'.degree = {<<n, InDegree(n, Graph(l).edges)>> : n \in Graph(l).nodes}
          /\ \A k \in 1..Len(Stamps) : store'.stamp[k] = load[l].graph

\* Loads of one unchanged file that run into each other agree on its entities and
\* relations, though not on the degrees: the last clear is followed by its inserts.
OverlapKeepsContent ==
    (\A l \in Loaders : ~AtWork(l)) /\ json > 0
       /\ (\A l \in Loaders : Steps(l) # "new" => Steps(l) = "done" /\ load[l].graph = json)
       /\ (\E l \in Loaders : Steps(l) = "done")
    => store.nodes = Graphs[json].nodes /\ store.edges = Graphs[json].edges

GraphLoadSound == ReadersSeeWholeGraphs /\ OverlapKeepsContent
=============================================================================
