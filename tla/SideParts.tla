------------------------------ MODULE SideParts ------------------------------
(***************************************************************************)
(* The parts beside the proxy: what a chat platform and the application    *)
(* around it do, and those that work on the files of a project.  What they *)
(* are given, what they assume of it, and their state.  They share none of *)
(* it; MCParts runs one of them at a time.                                 *)
(***************************************************************************)
EXTENDS Integers, Sequences, FiniteSets

CONSTANTS
    Note, MaxClears, MaxLost, Turn, MaxLives, MaxTries,      \* chat platforms
    Launcher, MaxMishaps,                                    \* terminal sessions
    Protected, Plain, Script, HookEvent, Foreign, MaxEdits,  \* bootstrap
    Node, Arc, Starts, MaxDepth, Loader, Graphs,             \* code graph
    Writer, Fact, Decision, MaxLines, Inode, Rounds,         \* handoff
    Hook, Task                                               \* debugger queue

VARIABLES
    note, pending, chat, voiceFiles, turns, told,
    call, service,
    srv, bot, turn, known, disk, timers, late,
    row, alive, files, since, run, asked, mishaps,
    file, settings, home, mcp, boot, edits,
    graph, walk,
    json, store, reader, load, graphServer, met,
    facts, must, names, decided, writer,
    place, whole, old, order, lock, hook, notices, overtaken

Voice == INSTANCE VoiceNotes WITH files <- voiceFiles
Chat == INSTANCE ChatCalls WITH MaxRetries <- 3
Runtime == INSTANCE AppRuntime
Terminals == INSTANCE TerminalSessions
Boot == INSTANCE Bootstrap
Walk == INSTANCE GraphWalk
Load == INSTANCE GraphLoad WITH server <- graphServer, writer <- reader
Memory == INSTANCE Handoff
Debugger == INSTANCE DebuggerQueue WITH shown <- notices

\* Telegram is tried a number of times.
ASSUME RuntimeAssumption == MaxTries \in Nat

\* Python's None is no process and no session.
ASSUME TerminalAssumption == Terminals!None \notin Launcher

\* The scripts of the template and CLAUDE.local.md are none of the files that it protects.
ASSUME BootAssumption == "local" \notin Plain \union Script /\ Protected \intersect Script = {}

\* A code graph is finite, and its relations are between its nodes.
ASSUME WalkAssumption ==
    /\ IsFiniteSet(Node) /\ Arc \subseteq Node \X Node
    /\ Starts \subseteq SUBSET Node /\ MaxDepth \in Nat

\* A handoff has room for a line, and a project has facts; 0 is no inode.
ASSUME HandoffAssumption ==
    /\ MaxLines \in Nat \ {0} /\ Fact # {} /\ IsFiniteSet(Decision)
    /\ 1 \in Inode /\ 0 \notin Inode

\* The file takes finitely many contents in turn.
ASSUME GraphsAssumption == Len(Graphs) \in Nat

------------------------------------------------------------------------------
(* The variables of the parts. *)
voice == <<note, pending, chat, voiceFiles, turns, told>>
chatCalls == <<call, service>>
runtime == <<srv, bot, turn, known, disk, timers, late>>
terminals == <<row, alive, files, since, run, asked, mishaps>>
bootstrap == <<file, settings, home, mcp, boot, edits>>
walks == <<graph, walk>>
loads == <<json, store, reader, load, graphServer, met>>
memory == <<facts, must, names, decided, writer>>
debugger == <<place, whole, old, order, lock, hook, notices, overtaken>>
==============================================================================
