------------------------------ MODULE Transcript ------------------------------
(***************************************************************************)
(* What a turn shows in its status message: messaging/transcript.py, the   *)
(* editor that shows it (messaging/ui_updates.py) and the events that      *)
(* reach both from the CLI (event_parser.py, node_event_pipeline.py and    *)
(* the event loop of handler.py).  A CLI streams blocks, whose starts and  *)
(* stops may be missing, or whole messages; what a Task's subagent says is *)
(* not shown, which takes a stack of the Tasks whose results are due.  A   *)
(* chunk of text is <<block, number>>; sizes are counted in chunks.        *)
(***************************************************************************)
EXTENDS Naturals, Integers, FiniteSets, Sequences, SequencesExt

CONSTANTS MaxChunks, MaxTools, Indexes, Limit, TextTail, Modes

VARIABLES
    tr,    \* TranscriptBuffer: segments, open segments by index, stack of Tasks
    ui,    \* ThrottledTranscriptEditor and the message it edits
    cli    \* the CLI: the block it is in, Tasks without a result, what it has said

transcriptVars == <<tr, ui, cli>>

Synthetic == <<"__task_">>
NoBlock == [kind |-> "none", idx |-> -1]
Segment(kind, parts) == [kind |-> kind, parts |-> parts]
NoScreen == [parts |-> <<>>, status |-> "none"]

TranscriptInit ==
    /\ tr = [segs |-> <<>>, open |-> {}, stack |-> <<>>, plain |-> {}, had |-> FALSE]
    /\ ui = [recent |-> FALSE, screen |-> NoScreen]
    /\ \E mode \in Modes :
          cli = [form |-> mode.form, stream |-> mode.stream, block |-> NoBlock, unstopped |-> {}, chunks |-> 0, blocks |-> 0,
                 tools |-> 0, due |-> <<>>, plain |-> <<>>, nested |-> TRUE, said |-> <<>>, over |-> FALSE]

------------------------------------------------------------------------------
(* The transcript.  open holds [kind, idx, seg]: the three _open_*_by_index. *)

Append1(t, seg) == [t EXCEPT !.segs = Append(@, seg)]
Hidden(t) == t.stack # <<>>
At(t, kind, idx) == {o \in t.open : o.kind = kind /\ o.idx = idx}

\* block_stop closes one kind only: a tool before a thinking before a text.
BlockStop(t, idx) ==
    LET first == CASE At(t, "tool_call", idx) # {} -> "tool_call" [] At(t, "thinking", idx) # {} -> "thinking"
                   [] OTHER -> "text"
    IN [t EXCEPT !.open = @ \ At(t, first, idx)]

Opened(t, kind, idx) ==
    IF idx < 0 THEN t ELSE [t EXCEPT !.open = @ \union {[kind |-> kind, idx |-> idx, seg |-> Len(t.segs)]}]

\* A start closes what an earlier block left open at its index.
Started(t, kind, idx) ==
    IF Hidden(t) THEN t
    ELSE Opened(Append1(IF idx < 0 THEN t ELSE BlockStop(t, idx), Segment(kind, <<>>)), kind, idx)

\* A delta without a start makes its segment.
Delta(t, kind, idx, chunk) ==
    IF Hidden(t) THEN t
    ELSE LET u == IF At(t, kind, idx) # {} THEN t ELSE Opened(Append1(t, Segment(kind, <<>>)), kind, idx)
             n == IF At(t, kind, idx) # {} THEN (CHOOSE o \in At(t, kind, idx) : TRUE).seg ELSE Len(u.segs)
         IN [u EXCEPT !.segs[n].parts = Append(@, chunk)]

\* tool_use_start and, without an index, tool_use.  A Task becomes a segment and an
\* entry of the stack; a tool of a subagent is shown in the Task's segment.
ToolUse(t, idx, id, isTask) ==
    LET u == IF idx < 0 THEN t ELSE BlockStop(t, idx)
        v == IF isTask \/ id = <<>> THEN u ELSE [u EXCEPT !.plain = @ \union {id}]
    IN IF isTask THEN [Append1(v, Segment("subagent", <<>>))
                          EXCEPT !.stack = Append(@, IF id = <<>> THEN Append(Synthetic, Len(@) + 1) ELSE id)]
       ELSE IF Hidden(v) THEN Opened(v, "tool_call", idx)
       ELSE Opened(Append1(v, Segment("tool_call", <<>>)), "tool_call", idx)

RoughlyMatch(a, b) == a # <<>> /\ b # <<>> /\ (IsPrefix(a, b) \/ IsPrefix(b, a))

\* _subagent_pop: everything down to the last entry that matches; without an id only
\* an entry that has none either.  (A slip: only the top is looked at.)
PopTop(stack, id) ==
    IF stack # <<>> /\ (RoughlyMatch(Last(stack), id) \/ (id = <<>> /\ IsPrefix(Synthetic, Last(stack))))
    THEN Front(stack) ELSE stack
Popped(stack, id) ==
    LET found == {i \in 1..Len(stack) : RoughlyMatch(stack[i], id)}
    IN CASE stack = <<>> -> stack
         [] id = <<>> -> IF IsPrefix(Synthetic, Last(stack)) THEN Front(stack) ELSE stack
         [] found # {} -> SubSeq(stack, 1, (CHOOSE i \in found : \A j \in found : j <= i) - 1)
         [] OTHER -> stack

\* A result; one that looks like that of a Task closes a Task that had no id.
\* show_tool_results is off in the only place that makes a buffer.
ToolResult(t, id) ==
    LET once == Popped(t.stack, id)
        reconciled == /\ once = t.stack /\ t.stack # <<>> /\ id # <<>> /\ id \notin t.plain
                      /\ IsPrefix(Synthetic, Last(t.stack)) /\ Head(id) = "task"
    IN [t EXCEPT !.stack = IF reconciled THEN Popped(@, <<>>) ELSE once]

------------------------------------------------------------------------------
(* The message. *)

\* A segment as it is shown: the tail of its text.
Shown(seg) == Segment(seg.kind, SubSeq(seg.parts, Len(seg.parts) - (IF Len(seg.parts) > TextTail THEN TextTail ELSE Len(seg.parts)) + 1, Len(seg.parts)))
Visible(segs) == LET Nonempty(s) == s.kind # "text" \/ s.parts # <<>>
                 IN [i \in 1..Len(SelectSeq(segs, Nonempty)) |-> Shown(SelectSeq(segs, Nonempty)[i])]
Size(parts) == FoldSeq(LAMBDA s, n : n + 1 + Len(s.parts), 0, parts)

\* render: the oldest segments go first, and of a last one that does not fit alone the
\* tail stays.
Render(segs) ==
    LET all == Visible(segs)
        fits == {n \in 1..Len(all) : Size(SubSeq(all, n, Len(all))) + (IF n > 1 THEN 1 ELSE 0) <= Limit}
        tail == Last(all)
    IN IF all = <<>> THEN <<>>
       ELSE IF fits # {} THEN SubSeq(all, CHOOSE n \in fits : \A m \in fits : n <= m, Len(all))
       ELSE <<Segment(tail.kind, SubSeq(tail.parts, Len(tail.parts) - (Limit - 2) + 1, Len(tail.parts)))>>

\* ThrottledTranscriptEditor.update, at most one a second unless it is forced.
Update(t, status, force) ==
    ui' = IF ~force /\ ui.recent THEN ui
          ELSE [recent |-> TRUE, screen |-> [parts |-> Render(t.segs), status |-> status]]

\* process_parsed_cli_event for an event of the transcript.
Event(t, force) == tr' = [t EXCEPT !.had = TRUE] /\ Update(t, "working", force)

SecondPasses == ui.recent /\ ui' = [ui EXCEPT !.recent = FALSE] /\ UNCHANGED <<tr, cli>>

------------------------------------------------------------------------------
(* The CLI. *)

Heard(said, chunk) == IF cli.due = <<>> THEN Append(said, chunk) ELSE said
Speaks == ~cli.over /\ cli.chunks < MaxChunks

\* A block opens, with its start or, if the one before at that index was stopped, without.
BlockStarts(kind, idx) ==
    /\ cli.stream /\ Speaks /\ cli.block = NoBlock /\ cli.blocks < MaxChunks
    /\ cli' = [cli EXCEPT !.block = [kind |-> kind, idx |-> idx], !.blocks = @ + 1, !.unstopped = @ \ {idx}]
    /\ \/ Event(Started(tr, kind, idx), FALSE)
       \/ idx \notin cli.unstopped /\ UNCHANGED <<tr, ui>>

Says ==
    /\ Speaks /\ cli.block # NoBlock
    /\ LET chunk == <<cli.blocks, cli.chunks + 1>>
       IN /\ cli' = [cli EXCEPT !.chunks = @ + 1, !.said = Heard(@, chunk)]
          /\ Event(Delta(tr, cli.block.kind, cli.block.idx, chunk), FALSE)

\* A block ends, with a stop or without.
BlockStops ==
    /\ ~cli.over /\ cli.block # NoBlock
    /\ \/ /\ Event(BlockStop(tr, cli.block.idx), TRUE) /\ cli' = [cli EXCEPT !.block = NoBlock]
       \/ /\ UNCHANGED <<tr, ui>>
          /\ cli' = [cli EXCEPT !.block = NoBlock, !.unstopped = @ \union {cli.block.idx}]

\* A whole text or thinking of an assistant message: text_chunk has no index.
Message(kind) ==
    /\ ~cli.stream /\ Speaks
    /\ LET chunk == <<cli.blocks + 1, cli.chunks + 1>>
       IN /\ cli' = [cli EXCEPT !.chunks = @ + 1, !.blocks = @ + 1, !.said = Heard(@, chunk)]
          /\ Event(Delta(tr, kind, -1, chunk), FALSE)

Id(n) == IF cli.form \in {"unnamed", "result named"} THEN <<>> ELSE <<"call", n>>
ResultId(n, isTask) ==
    CASE cli.form = "unnamed" -> <<>>
      [] cli.form = "result named" -> <<IF isTask THEN "task" ELSE "call", n>>
      [] cli.form = "suffixed" /\ isTask -> <<"call", n, "+">>
      [] OTHER -> <<"call", n>>

ToolCalled(idx, isTask) ==
    /\ ~cli.over /\ cli.block = NoBlock /\ cli.tools < MaxTools /\ (cli.stream <=> idx >= 0)
    /\ LET n == cli.tools + 1
       IN /\ cli' = [cli EXCEPT !.tools = n, !.due = IF isTask THEN Append(@, n) ELSE @,
                                !.plain = IF isTask THEN @ ELSE Append(@, n),
                                !.unstopped = IF idx < 0 THEN @ ELSE @ \union {idx}]
          /\ Event(ToolUse(tr, idx, Id(n), isTask), FALSE)

\* Results of Tasks come in the order opposite to that of the calls, unless the Tasks
\* were parallel; one without an id may be taken for that of the Task around it.
TaskReturns(i) ==
    /\ ~cli.over /\ cli.block = NoBlock /\ i \in 1..Len(cli.due)
    /\ cli' = [cli EXCEPT !.due = RemoveAt(@, i), !.nested = @ /\ i = Len(cli.due)]
    /\ Event(ToolResult(tr, ResultId(cli.due[i], TRUE)), FALSE)
ToolReturns(i) ==
    /\ ~cli.over /\ cli.block = NoBlock /\ i \in 1..Len(cli.plain)
    /\ cli' = [cli EXCEPT !.plain = RemoveAt(@, i), !.nested = @ /\ (cli.form = "unnamed" => cli.due = <<>>)]
    /\ Event(ToolResult(tr, ResultId(cli.plain[i], FALSE)), FALSE)

\* exit: an error comes before the completion, which is announced as a success all the
\* same; a turn that showed nothing says so.
Exits(ok) ==
    LET failed == IF ok THEN tr ELSE Append1(tr, Segment("error", <<>>))
        final == IF ok /\ ~tr.had THEN Append1(tr, Segment("text", <<<<0, 0>>>>)) ELSE failed
    IN /\ ~cli.over /\ cli' = [cli EXCEPT !.over = TRUE]
       /\ tr' = [final EXCEPT !.had = tr.had \/ ~ok] /\ Update(final, "complete", TRUE)

\* The turn is stopped, or it is cancelled or fails.
Broken(status) ==
    LET final == IF status = "stopped" THEN tr ELSE Append1(tr, Segment("error", <<>>))
    IN /\ ~cli.over /\ cli' = [cli EXCEPT !.over = TRUE]
       /\ tr' = final /\ Update(final, status, TRUE)

TranscriptNext ==
    \/ SecondPasses \/ Says \/ BlockStops
    \/ \E kind \in {"text", "thinking"} : Message(kind) \/ \E idx \in Indexes : BlockStarts(kind, idx)
    \/ \E isTask \in BOOLEAN, idx \in Indexes \union {-1} : ToolCalled(idx, isTask)
    \/ \E i \in 1..MaxTools : TaskReturns(i) \/ ToolReturns(i)
    \/ \E ok \in BOOLEAN : Exits(ok)
    \/ \E status \in {"stopped", "broken"} : Broken(status)

------------------------------------------------------------------------------
Texts == FlattenSeq([i \in 1..Len(tr.segs) |-> tr.segs[i].parts])
Said == SelectSeq(Texts, LAMBDA c : c # <<0, 0>>)

(* What the main agent says, and with Tasks that return in order nothing else, is in   *)
(* the transcript in the order in which it was said, no segment mixes two blocks, and  *)
(* the Tasks on the stack are never more than those whose results are due: no lost     *)
(* start or stop, no index used again, no unnamed or half-named Task hides later text. *)
TranscriptSound ==
    /\ IF cli.nested THEN Said = cli.said ELSE ToSet(cli.said) \subseteq ToSet(Said)
    /\ \A i \in 1..Len(tr.segs) : \A c, d \in ToSet(tr.segs[i].parts) : c[1] = d[1]
    /\ cli.nested => Len(tr.stack) = Len(cli.due)

(* When a turn is over its message shows the end of the transcript, whatever the       *)
(* throttle was doing and however long the text: the last thing said, up to date, and  *)
(* all of it if there is room.                                                         *)
ScreenSound ==
    LET segs == SelectSeq(tr.segs, LAMBDA s : s.kind # "text" \/ s.parts # <<>>)
        seen == ui.screen.parts
    IN cli.over =>
         /\ ui.screen.status \in {"complete", "stopped", "broken"}
         /\ (segs = <<>>) = (seen = <<>>)
         /\ segs # <<>> => /\ Last(seen).kind = Last(segs).kind /\ IsSuffix(Last(seen).parts, Last(segs).parts)
                           /\ (Last(segs).parts # <<>> => Last(seen).parts # <<>>)
         /\ Size(segs) <= Limit /\ (\A i \in 1..Len(segs) : Len(segs[i].parts) <= TextTail) => seen = segs
===============================================================================
