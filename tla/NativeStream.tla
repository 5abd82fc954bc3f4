---------------------------- MODULE NativeStream ----------------------------
(***************************************************************************)
(* A stream of a provider that speaks Anthropic's own protocol:            *)
(* AnthropicMessagesTransport.stream_response                              *)
(* (providers/anthropic_messages.py), the block policy that drops thinking *)
(* and renumbers blocks (core/anthropic/native_sse_block_policy.py), the   *)
(* tracker that ends a broken stream (emitted_sse_tracker.py), and the     *)
(* filter of providers/open_router/client.py.                              *)
(***************************************************************************)
EXTENDS ClientStream

CONSTANTS
    Up,          \* the indexes of upstream's blocks
    MaxEvents,   \* how many events upstream sends
    Orderly      \* whether upstream keeps to the protocol as far as the policy relies on
                 \* it: it starts no block twice, sends thinking only into a block that it
                 \* started, deltas of a block's own kind, and stops only blocks there are

VARIABLES
    policy,      \* NativeSseBlockPolicyState
    upstream,    \* what upstream has sent: its blocks, and its frames
    eventCount

nativeVars == <<policy, upstream, eventCount>>

NoSegment == [known |-> FALSE, kind |-> "none", down |-> 0, open |-> FALSE]

NativeInit ==
    /\ policy = [next |-> 0, by |-> [u \in Up |-> NoSegment], dropped |-> {},
                 suppressed |-> {}, stopped |-> FALSE]
    /\ upstream = [begun |-> FALSE, stopped |-> FALSE,
                   block |-> [u \in Up |-> "none"], kind |-> [u \in Up |-> "none"]]
    /\ eventCount = 0

\* _should_drop_block_type
Dropped(kind) == ~thinkingOn /\ kind \in {"thinking", "redacted_thinking"}

\* _synthetic_close_other_open_blocks
OthersOpen(u) == {o \in Up \ {u} : policy.by[o].open}

CloseOthers(u) ==
    [p |-> [policy EXCEPT !.by = [o \in Up |-> [policy.by[o] EXCEPT
                                     !.open = @ /\ o \notin OthersOpen(u)]],
                          !.suppressed = @ \union OthersOpen(u)],
     out |-> SetToSeq({Client!Block("stop", policy.by[o].down, "none") : o \in OthersOpen(u)})]

\* _allocate_new_segment
Allocate(p, u, kind) ==
    [p EXCEPT !.next = @ + 1,
              !.by[u] = [known |-> TRUE, kind |-> kind, down |-> p.next, open |-> TRUE]]

(* transform_native_sse_block_event: the policy it leaves and what it lets *)
(* through.                                                                *)
Passed(events) == [p |-> policy, out |-> events]

TransformStart(u, kind) ==
    IF Dropped(kind) THEN [p |-> [policy EXCEPT !.dropped = @ \union {u}], out |-> <<>>]
    ELSE LET closed == CloseOthers(u)
         IN [p |-> Allocate(closed.p, u, kind),
             out |-> Append(closed.out, Client!Block("start", policy.next, kind))]

\* A delta of a block that is not open downstream starts it again under a new index, but
\* thinking for a block that there never was is let through as it is.
TransformDelta(u, kind) ==
    CASE u \in policy.dropped \/ Dropped(kind) -> Passed(<<>>)
      [] policy.by[u].open -> Passed(<<Client!Block("delta", policy.by[u].down, kind)>>)
      [] ~policy.by[u].known /\ kind = "thinking" -> Passed(<<Client!Block("delta", u, kind)>>)
      [] OTHER ->
            [p |-> Allocate([policy EXCEPT !.suppressed = @ \ {u}], u, kind),
             out |-> <<Client!Block("start", policy.next, kind),
                       Client!Block("delta", policy.next, kind)>>]
\* A slip: a stop that repeats a synthetic one is let through.
TransformStopTwice(u) ==
    IF u \in policy.dropped \/ ~policy.by[u].known THEN Passed(<<>>)
    ELSE [p |-> [policy EXCEPT !.by[u].open = FALSE],
          out |-> <<Client!Block("stop", policy.by[u].down, "none")>>]

\* With thinking on, the stop of a block that there never was is let through as it is.
TransformStop(u) ==
    CASE u \in policy.dropped -> Passed(<<>>)
      [] u \in policy.suppressed -> [p |-> [policy EXCEPT !.suppressed = @ \ {u}], out |-> <<>>]
      [] policy.by[u].open ->
            [p |-> [policy EXCEPT !.by[u].open = FALSE],
             out |-> <<Client!Block("stop", policy.by[u].down, "none")>>]
      [] ~policy.by[u].known /\ thinkingOn -> Passed(<<Client!Block("stop", u, "none")>>)
      [] OTHER -> Passed(<<>>)

-----------------------------------------------------------------------------
NativeBegin ==
    /\ transport \in {"native", "openrouter"} /\ phase = "new"
    /\ Send(<<>>, "creating")
    /\ UNCHANGED nativeVars

NativeCreated ==
    /\ transport \in {"native", "openrouter"} /\ phase = "creating"
    /\ Send(<<>>, "streaming")
    /\ UNCHANGED nativeVars

\* OpenRouter's transport drops all that follows message_stop.
Sent(result, next) ==
    IF transport = "openrouter" /\ policy.stopped
    THEN policy' = policy /\ Send(<<>>, next)
    ELSE policy' = result.p /\ Send(result.out, next)

\* Upstream sends another event.
UpstreamSends ==
    /\ transport \in {"native", "openrouter"} /\ phase = "streaming" /\ outbox = <<>>
    /\ eventCount < MaxEvents /\ eventCount' = eventCount + 1

UpFrame(type) ==
    /\ UpstreamSends
    /\ IF type = "message_start" THEN ~upstream.begun ELSE upstream.begun
    /\ upstream' = [upstream EXCEPT !.begun = TRUE, !.stopped = @ \/ type = "message_stop"]
    /\ Sent([p |-> [policy EXCEPT !.stopped = @ \/ (transport = "openrouter" /\ type = "message_stop")],
             out |-> <<Client!Frame(type)>>], "streaming")

\* Upstream starts each block once, but need not stop one before the next.
UpStart(u, kind) ==
    /\ UpstreamSends /\ upstream.begun /\ ~upstream.stopped
    /\ Orderly => upstream.block[u] = "none"
    /\ upstream' = [upstream EXCEPT !.block[u] = "open", !.kind[u] = kind]
    /\ Sent(TransformStart(u, kind), "streaming")

\* Text and tool deltas may come without a start.
UpDelta(u, kind) ==
    /\ UpstreamSends /\ upstream.begun /\ ~upstream.stopped /\ kind \notin Deltaless
    /\ \/ upstream.block[u] = "open" /\ upstream.kind[u] = kind
       \/ upstream.block[u] = "none" /\ kind # "thinking"
       \/ ~Orderly
    /\ upstream' = [upstream EXCEPT !.block[u] = "open", !.kind[u] = kind]
    /\ Sent(TransformDelta(u, kind), "streaming")

\* A block's stop may come twice.
UpStop(u) ==
    /\ UpstreamSends
    /\ \/ upstream.block[u] = "closed" \/ (upstream.block[u] = "open" /\ ~upstream.stopped)
       \/ ~Orderly
    /\ upstream' = [upstream EXCEPT !.block[u] = "closed"]
    /\ Sent(TransformStop(u), "streaming")

\* Upstream closes the connection, wherever it is in its message.
UpCloses ==
    /\ transport \in {"native", "openrouter"} /\ phase = "streaming"
    /\ Send(<<>>, "finishing")
    /\ UNCHANGED nativeVars

\* What the tracker knows is what has been emitted: it closes what is open, says
\* what went wrong in a block of its own, and ends the message.
MidstreamTail ==
    LET fresh == IF view.seen = {} THEN 0 ELSE 1 + CHOOSE i \in view.seen : \A j \in view.seen : j <= i
    IN SetToSeq({Client!Block("stop", b[1], "none") : b \in view.open})
       \o ErrorText(fresh) \o MessageEnd

\* The request or the stream fails.
NativeFails ==
    /\ transport \in {"native", "openrouter"} /\ phase \in {"creating", "streaming"}
    /\ Send(IF view.last = "nothing"
            THEN <<Client!Frame("message_start")>> \o ErrorText(0) \o MessageEnd
            ELSE MidstreamTail, "failing")
    /\ UNCHANGED nativeVars

NativeStep ==
    \/ NativeBegin \/ NativeCreated
    \/ \E type \in {"message_start", "message_delta", "message_stop"} : UpFrame(type)
    \/ \E u \in Up, kind \in Kind : UpStart(u, kind) \/ UpDelta(u, kind)
    \/ \E u \in Up : UpStop(u)
    \/ UpCloses \/ NativeFails

-----------------------------------------------------------------------------
\* A native stream that breaks is nevertheless complete for its client; one whose
\* upstream closed it is complete if upstream had stopped its blocks and then its
\* message, and something of it is left once hidden thinking is dropped.
NativeComplete ==
    transport \in {"native", "openrouter"} =>
    /\ phase = "failed" => Client!Complete(view)
    /\ /\ phase = "finished" /\ upstream.stopped /\ \A u \in Up : upstream.block[u] # "open"
       /\ \E u \in Up : upstream.block[u] = "closed" /\ ~Dropped(upstream.kind[u])
       => view.open = {} /\ view.seen # {} /\ view.begun
          /\ (transport = "openrouter" => view.last = "message_stop")

=============================================================================
