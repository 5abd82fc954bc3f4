---------------------------- MODULE ClientStream ----------------------------
(***************************************************************************)
(* What the two kinds of transport have in common: an asynchronous         *)
(* generator hands events to a client one by one.  `outbox` holds what the *)
(* code has produced in one stretch and not yet yielded; the client may    *)
(* leave at any yield.                                                     *)
(***************************************************************************)
EXTENDS Integers, Sequences, SequencesExt, FiniteSets

CONSTANTS Index, Kind, Deltaless   \* see MessageStream

VARIABLES
    transport,   \* which transport serves the request
    phase,       \* of its generator
    outbox,      \* events produced and not yet yielded
    view,        \* what the client has seen
    thinkingOn   \* whether the request has thinking enabled

streamVars == <<transport, phase, outbox, view, thinkingOn>>

Client == INSTANCE MessageStream

StreamInit(transports) ==
    /\ transport \in transports /\ thinkingOn \in BOOLEAN
    /\ phase = "new" /\ outbox = <<>> /\ view = Client!NothingSeen

\* The events of emit_error and of the end of a message.
ErrorText(index) ==
    <<Client!Block("start", index, "text"), Client!Block("delta", index, "text"),
      Client!Block("stop", index, "none")>>

MessageEnd == <<Client!Frame("message_delta"), Client!Frame("message_stop")>>

\* The client takes the next event.
Yield ==
    /\ outbox # <<>>
    /\ outbox' = Tail(outbox)
    /\ view' = Client!After(view, Head(outbox))
    /\ UNCHANGED <<transport, phase, thinkingOn>>

\* The generator returns.
Return ==
    /\ phase \in {"finishing", "failing"} /\ outbox = <<>>
    /\ phase' = IF phase = "finishing" THEN "finished" ELSE "failed"
    /\ UNCHANGED <<transport, outbox, view, thinkingOn>>

\* The client disconnects: GeneratorExit or CancelledError at a yield or an await.
Disconnect ==
    /\ phase \notin {"new", "finished", "failed", "gone"}
    /\ phase' = "gone" /\ outbox' = <<>>
    /\ UNCHANGED <<transport, view, thinkingOn>>

\* The code of this stretch produces events and goes on to the given phase.
Send(events, next) ==
    /\ outbox = <<>> /\ outbox' = events /\ phase' = next
    /\ UNCHANGED <<transport, view, thinkingOn>>

-----------------------------------------------------------------------------
\* Every event the client gets is legal after those before it: a block is started
\* once, its deltas fit it, it is stopped while open.
RefinesMessageStream == Client!Spec

=============================================================================
