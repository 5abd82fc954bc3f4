---------------------------- MODULE MessageStream ----------------------------
(***************************************************************************)
(* What a client of the proxy is promised: a stream of Anthropic events,   *)
(* one at a time, each legal in the light of those before it.  This is the *)
(* contract that assert_anthropic_stream_contract                          *)
(* (core/anthropic/stream_contracts.py) checks on a recorded stream, as a  *)
(* state machine over what the client has seen so far.  Content blocks may *)
(* be open side by side: only their indexes are exclusive.                 *)
(***************************************************************************)
EXTENDS Naturals, FiniteSets

CONSTANTS
    Kind,       \* the types a content block may have
    Deltaless,  \* those that are sent whole in their start event
    Index       \* the indexes a block may have

VARIABLE view   \* what the client has seen

\* Events have all the fields; index and kind matter to blocks only, and the
\* kind of a delta says to which type of block such a delta belongs.
Frame(type) == [type |-> type, index |-> 0, kind |-> "none"]

Block(type, index, kind) == [type |-> type, index |-> index, kind |-> kind]

Event ==
    {Frame(type) : type \in {"message_start", "message_delta", "message_stop", "error"}}
    \union {Block(type, i, k) : type \in {"start", "delta"}, i \in Index, k \in Kind}
    \union {Block("stop", i, "none") : i \in Index}

NothingSeen == [begun |-> FALSE, last |-> "nothing", open |-> {}, seen |-> {}]

\* The client's bookkeeping, whether or not the event was legal.
After(v, e) ==
    [begun |-> v.begun \/ e.type = "message_start",
     last  |-> e.type,
     open  |-> CASE e.type = "start" -> v.open \union {<<e.index, e.kind>>}
                 [] e.type = "stop" -> {b \in v.open : b[1] # e.index}
                 [] OTHER -> v.open,
     seen  |-> IF e.type = "start" THEN v.seen \union {e.index} ELSE v.seen]

\* The assertions made for each event.
Legal(v, e) ==
    CASE e.type = "start" -> e.index \notin v.seen
      [] e.type = "delta" -> <<e.index, e.kind>> \in v.open /\ e.kind \notin Deltaless
      [] e.type = "stop"  -> \E b \in v.open : b[1] = e.index
      [] e.type = "message_start" -> ~v.begun
      [] OTHER -> v.begun

\* The assertions made at the end.
Complete(v) == v.begun /\ v.last = "message_stop" /\ v.open = {} /\ v.seen # {}

Init == view = NothingSeen

Receive(e) == Legal(view, e) /\ view' = After(view, e)

\* A delta that follows a delta shows in nothing that a client keeps.
Next == view' # view /\ \E e \in Event : Receive(e)

Spec == Init /\ [][Next]_view

=============================================================================
