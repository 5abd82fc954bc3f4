--------------------------- MODULE StreamAssembly ---------------------------
(***************************************************************************)
(* One stream of an OpenAI-compatible provider turned into Anthropic       *)
(* events: OpenAIChatTransport._stream_response_impl                       *)
(* (providers/openai_compat.py) with the SSEBuilder and                    *)
(* ContentBlockManager of core/anthropic/sse.py.                           *)
(*                                                                         *)
(* Text is abstracted to whether there is some; what remains of the       *)
(* arguments of a tool call is the sequence of their fragments, the last   *)
(* of which completes the JSON object.                                     *)
(***************************************************************************)
EXTENDS ClientStream

CONSTANTS
    Tool,            \* the tool indexes an upstream uses, from 0
    Chunks,          \* the chunks it may send
    MaxChunks

VARIABLES
    blocks,     \* the builder's ContentBlockManager
    received,   \* arguments each tool was sent by upstream
    chunkCount

assemblyVars == <<blocks, received, chunkCount>>

NoIndex == Cardinality(Index)

\* ToolCallState: `given` are the arguments put into events, `args` the buffer of
\* a Task or of aliased arguments, `pre` what came before the name.
NoTool == [known |-> FALSE, block |-> NoIndex, name |-> <<>>, started |-> FALSE,
           pre |-> <<>>, args |-> <<>>, flushed |-> FALSE, given |-> <<>>]

NoBlocks == [next |-> 0, thinking |-> NoIndex, text |-> NoIndex,
             thinkingStarted |-> FALSE, textStarted |-> FALSE,
             spoke |-> FALSE, thought |-> FALSE,
             tools |-> [t \in Tool |-> NoTool]]

(* What the builder does is a step from one pair of its blocks and the     *)
(* events produced so far to the next.                                     *)
Emit(m, e) == [m EXCEPT !.out = Append(@, e)]

StopThinking(m) ==
    IF ~m.b.thinkingStarted THEN m
    ELSE Emit([m EXCEPT !.b.thinkingStarted = FALSE], Client!Block("stop", m.b.thinking, "none"))

StopText(m) ==
    IF ~m.b.textStarted THEN m
    ELSE Emit([m EXCEPT !.b.textStarted = FALSE], Client!Block("stop", m.b.text, "none"))

EnsureThinking(m) ==
    LET n == StopText(m) IN
    IF n.b.thinkingStarted THEN n
    ELSE Emit([n EXCEPT !.b.thinking = n.b.next, !.b.next = @ + 1, !.b.thinkingStarted = TRUE],
              Client!Block("start", n.b.next, "thinking"))

EnsureText(m) ==
    LET n == StopThinking(m) IN
    IF n.b.textStarted THEN n
    ELSE Emit([n EXCEPT !.b.text = n.b.next, !.b.next = @ + 1, !.b.textStarted = TRUE],
              Client!Block("start", n.b.next, "text"))

Think(m) ==
    LET n == EnsureThinking(m)
    IN Emit([n EXCEPT !.b.thought = TRUE], Client!Block("delta", n.b.thinking, "thinking"))

Say(m, counts) ==
    LET n == EnsureText(m)
    IN Emit([n EXCEPT !.b.spoke = @ \/ counts], Client!Block("delta", n.b.text, "text"))

CloseContentBlocks(m) == StopText(StopThinking(m))

CloseAllBlocks(m) ==
    LET CloseTool(n, t) ==
            IF n.b.tools[t].started
            THEN Emit(n, Client!Block("stop", n.b.tools[t].block, "none")) ELSE n
    IN FoldLeft(CloseTool, CloseContentBlocks(m), SetToSortSeq(Tool, <))

\* A tool call found in the text is complete: it is a block of its own.
HeuristicTool(m) ==
    LET n == CloseContentBlocks(m)
        i == n.b.next
    IN Emit(Emit(Emit([n EXCEPT !.b.next = @ + 1], Client!Block("start", i, "tool_use")),
                 Client!Block("delta", i, "tool_use")),
            Client!Block("stop", i, "none"))

ErrorBlock(m) == [m EXCEPT !.b.next = @ + 1, !.out = @ \o ErrorText(m.b.next)]

\* register_tool_name: a name in pieces is put together, a repeated one is not.
Merged(old, new) ==
    CASE old = <<>> \/ IsPrefix(old, new) -> new
      [] IsPrefix(new, old) -> old
      [] OTHER -> old \o new

TaskTool == <<"Ta", "sk">>
Aliased == <<"aliased">>

Parses(arguments) == arguments # <<>> /\ Last(arguments) = "last"

GiveArgs(m, t, arguments) ==
    Emit([m EXCEPT !.b.tools[t].given = @ \o arguments],
         Client!Block("delta", m.b.tools[t].block, "tool_use"))

\* Task arguments and aliased ones are held back until they parse.
EmitArgs(m, t, arguments) ==
    LET tool == m.b.tools[t]
        held == tool.args \o arguments
    IN CASE tool.name = TaskTool /\ tool.flushed -> m
         [] tool.name \in {TaskTool, Aliased} /\ ~Parses(held) ->
                [m EXCEPT !.b.tools[t].args = held]
         [] tool.name \in {TaskTool, Aliased} ->
                GiveArgs([m EXCEPT !.b.tools[t].args = <<>>,
                                   !.b.tools[t].flushed = (tool.name = TaskTool)], t, held)
         [] OTHER -> GiveArgs(m, t, arguments)

\* A slip: arguments that come before the name are dropped.
StartToolLate(m, t) ==
    Emit([m EXCEPT !.b.next = @ + 1, !.b.tools[t].block = m.b.next,
                   !.b.tools[t].started = TRUE, !.b.tools[t].pre = <<>>],
         Client!Block("start", m.b.next, "tool_use"))

\* start_tool_block, with the arguments that came before the name.
StartTool(m, t) ==
    LET tool == m.b.tools[t]
        n == Emit([m EXCEPT !.b.next = @ + 1, !.b.tools[t].block = m.b.next,
                            !.b.tools[t].started = TRUE, !.b.tools[t].pre = <<>>],
                  Client!Block("start", m.b.next, "tool_use"))
    IN IF tool.pre = <<>> THEN n ELSE EmitArgs(n, t, tool.pre)

\* A delta without a usable index is a tool of its own.
ToolIndex(m, call) ==
    IF call.index >= 0 THEN call.index
    ELSE Cardinality({t \in Tool : m.b.tools[t].known})

ProcessToolCall(m, call) ==
    LET t == ToolIndex(m, call)
        n == [m EXCEPT !.b.tools[t].known = TRUE, !.b.tools[t].name = Merged(@, call.name)]
        named == n.b.tools[t].name # <<>>
        s == IF named /\ ~n.b.tools[t].started THEN StartTool(n, t) ELSE n
    IN CASE call.args = <<>> -> s
         [] ~named -> [s EXCEPT !.b.tools[t].pre = @ \o call.args]
         [] OTHER -> EmitArgs(s, t, call.args)

\* Text has been through the tag and tool parsers (ThinkTags, HeuristicTools).
ProcessPart(m, part) ==
    CASE part = "thinking" -> IF thinkingOn THEN Think(m) ELSE m
      [] part = "text" -> Say(m, TRUE)
      [] part = "tool" -> HeuristicTool(m)

ProcessChunk(m, chunk) ==
    LET reasoned == IF chunk.reasoning /\ thinkingOn THEN Think(m) ELSE m
        read == FoldLeft(ProcessPart, reasoned, chunk.parts)
    IN IF chunk.calls = <<>> THEN read
       ELSE FoldLeft(ProcessToolCall, CloseContentBlocks(read), chunk.calls)

\* Arguments still held back: aliased ones as they are, a Task's as an empty object.
FlushArgs(m) ==
    LET Flush(n, t) ==
            LET tool == n.b.tools[t] IN
            CASE tool.args = <<>> \/ tool.flushed -> n
              [] tool.name = TaskTool ->
                    GiveArgs([n EXCEPT !.b.tools[t].args = <<>>, !.b.tools[t].flushed = TRUE],
                             t, <<"empty">>)
              [] OTHER -> GiveArgs([n EXCEPT !.b.tools[t].args = <<>>], t, tool.args)
    IN FoldLeft(Flush, m, SetToSortSeq(Tool, <))

\* A stream with no content, or with reasoning alone, gets a blank text.
EnsureContent(m) ==
    LET toolStarted == \E t \in Tool : m.b.tools[t].started IN
    IF \/ m.b.text = NoIndex /\ m.b.thinking = NoIndex /\ ~toolStarted
       \/ ~toolStarted /\ ~m.b.spoke /\ m.b.thought
    THEN Say(m, FALSE) ELSE m

WithEnd(m) == [m EXCEPT !.out = @ \o MessageEnd]

\* What follows the last chunk; `rest` is what the parsers still held.
Finished(m, rest) ==
    WithEnd(CloseAllBlocks(FlushArgs(EnsureContent(FoldLeft(ProcessPart, m, rest)))))

\* What follows an error: a text of its own, unless a tool call was started.
Broken(m) ==
    LET n == CloseAllBlocks(m)
        toolStarted == \E t \in Tool : m.b.tools[t].started
    IN WithEnd(IF toolStarted THEN Emit(n, Client!Frame("error")) ELSE ErrorBlock(n))

-----------------------------------------------------------------------------
AssemblyInit ==
    /\ blocks = NoBlocks
    /\ received = [t \in Tool |-> <<>>] /\ chunkCount = 0

Builder == [b |-> blocks, out |-> <<>>]
Become(m, next) == blocks' = m.b /\ Send(m.out, next)

\* message_start goes out before the stream has a slot or an upstream.
Begin ==
    /\ transport = "openai" /\ phase = "new"
    /\ Send(<<Client!Frame("message_start")>>, "creating")
    /\ UNCHANGED assemblyVars

Created ==
    /\ transport = "openai" /\ phase = "creating"
    /\ Send(<<>>, "streaming")
    /\ UNCHANGED assemblyVars

\* What upstream may send next: a tool's arguments end with the fragment that
\* completes them, and do not come between the pieces of its name.
MaySend(chunk) ==
    \A i \in 1..Len(chunk.calls) :
        LET call == chunk.calls[i]
            t == ToolIndex(Builder, call)
        IN /\ t \in Tool
           /\ ~Parses(received[t])
           /\ received[t] # <<>> => call.name \notin {<<"Ta">>, <<"sk">>}
           /\ call.args # <<>> => blocks.tools[t].name # <<"Ta">>
           /\ call.name = <<"sk">> <=> blocks.tools[t].name = <<"Ta">>
           /\ blocks.tools[t].name \notin {<<>>, <<"Ta">>} => call.name \in {<<>>, blocks.tools[t].name}
           /\ \A j \in 1..(i-1) : ToolIndex(Builder, chunk.calls[j]) # t

Chunk(chunk) ==
    /\ transport = "openai" /\ phase = "streaming" /\ outbox = <<>> /\ chunkCount < MaxChunks
    /\ MaySend(chunk)
    /\ Become(ProcessChunk(Builder, chunk), "streaming")
    /\ received' = [t \in Tool |->
            received[t] \o FlattenSeq([i \in 1..Len(chunk.calls) |->
                IF ToolIndex(Builder, chunk.calls[i]) = t THEN chunk.calls[i].args ELSE <<>>])]
    /\ chunkCount' = chunkCount + 1

\* Upstream ends; the parsers give up what they held back.
UpstreamEnds ==
    /\ transport = "openai" /\ phase = "streaming" /\ outbox = <<>>
    /\ \E rest \in {<<>>, <<"text">>, <<"thinking">>, <<"tool">>, <<"text", "tool">>} :
            Become(Finished(Builder, rest), "finishing")
    /\ UNCHANGED <<received, chunkCount>>

\* The request or the stream fails.
UpstreamFails ==
    /\ transport = "openai" /\ phase \in {"creating", "streaming"} /\ outbox = <<>>
    /\ Become(Broken(Builder), "failing")
    /\ UNCHANGED <<received, chunkCount>>

AssemblyStep ==
    \/ Begin \/ Created
    \/ \E chunk \in Chunks : Chunk(chunk)
    \/ UpstreamEnds \/ UpstreamFails

-----------------------------------------------------------------------------
\* A stream that ran to its end is complete, however upstream ended it, and the
\* arguments of every tool call it started have reached the client, in order;
\* those of a Task that never became JSON are replaced by an empty object.
AssemblyComplete ==
    transport = "openai" =>
    /\ phase \in {"finished", "failed"} => Client!Complete(view)
    /\ phase = "finished" => \A t \in Tool :
        LET tool == blocks.tools[t] IN
        tool.started => \/ tool.given = received[t]
                        \/ tool.name = TaskTool /\ ~Parses(received[t]) /\ tool.given = <<"empty">>

=============================================================================
