----------------------------- MODULE NativeRequest -----------------------------
(***************************************************************************)
(* The body of a request to a provider that speaks Anthropic's protocol:   *)
(* core/anthropic/native_messages_request.py, providers/deepseek/request.py*)
(* and the small builders of the others.  The conversation grows by a      *)
(* message at a time, whatever provider and whatever thinking it was held  *)
(* with so far; the body is a function of it and of the request's options. *)
(***************************************************************************)
EXTENDS Naturals, FiniteSets, Sequences, SequencesExt

CONSTANTS MaxTalk, AssistantSays, UserSays   \* kinds of the blocks of one message

VARIABLES
    talk,      \* the messages: role and blocks
    options    \* how the request is made

nativeRequestVars == <<talk, options>>

Providers == {"base", "zai", "wafer", "fireworks", "open_router", "deepseek"}

\* policy: thinking is enabled by route, settings and request; asked: the request has a
\* budget for it; hints: it has others that keep a model thinking; extra: what its
\* extra_body holds.
Options == [provider : Providers, policy : BOOLEAN, asked : BOOLEAN, hints : BOOLEAN,
            extra : {"nothing", "own", "thinking", "messages"}, serverTools : BOOLEAN]

RequestInit ==
    /\ talk = <<>>
    /\ options \in {o \in Options :   \* those that differ in something the provider looks at
                       /\ o.extra # "nothing" => o.provider \in {"zai", "fireworks", "open_router"}
                       /\ o.serverTools \/ o.hints => o.provider = "deepseek"}

Blocks(messages) == FlattenSeq([i \in DOMAIN messages |-> messages[i].blocks])
Map(messages, Op(_, _)) ==
    [i \in DOMAIN messages |-> [messages[i] EXCEPT !.blocks = Op(messages[i].role, @)]]

------------------------------------------------------------------------------
(* The history of thinking that is replayed. *)

Thinking == {"signed", "unsigned", "empty", "redacted"}

\* sanitize_native_messages_thinking_policy: only what a model can take back.
Dropped(policy) == IF policy THEN {"unsigned", "empty"} ELSE Thinking
Sanitized(messages, policy) ==
    Map(messages, LAMBDA role, blocks :
        IF role = "user" THEN blocks ELSE SelectSeq(blocks, LAMBDA b : b.kind \notin Dropped(policy)))

(* DeepSeek: signatures do not matter to it, redacted thinking does. *)
DeepSeekDropped(policy) == IF policy THEN {"redacted"} ELSE Thinking
DeepSeekSanitized(messages, policy) ==
    Map(messages, LAMBDA role, blocks :
        IF role = "user" THEN blocks ELSE SelectSeq(blocks, LAMBDA b : b.kind \notin DeepSeekDropped(policy)))

\* _strip_unsupported_attachment_blocks: what is left empty gets a note in its place.
OmittedNote == [kind |-> "text", no |-> 0]
Stripped(messages) ==
    Map(messages, LAMBDA role, blocks :
        LET left == SelectSeq(blocks, LAMBDA b : b.kind # "image")
        IN IF left = <<>> /\ blocks # <<>> THEN <<OmittedNote>>
           ELSE [i \in DOMAIN left |-> IF left[i].kind = "image result" THEN [left[i] EXCEPT !.kind = "note result"]
                                       ELSE left[i]])

Results == {"result", "image result", "note result"}
\* _has_tool_history, _has_replayable_tool_thinking: the last thinking before the first call
ToolHistory(messages) ==
    \E b \in ToSet(Blocks(messages)) : b.kind = "tool_use" \/ b.kind \in Results
ReplayableAt(blocks) ==
    LET call == SelectInSeq(blocks, LAMBDA b : b.kind = "tool_use")
        plain == SelectSeq(SubSeq(blocks, 1, call - 1), LAMBDA b : b.kind \in {"signed", "unsigned", "empty"})
    IN call > 0 /\ plain # <<>> /\ Last(plain).kind # "empty"
Replayable(messages) == \E m \in ToSet(messages) : m.role = "assistant" /\ ReplayableAt(m.blocks)

\* A model that thought before a call must have it back: else there is no thinking now.
Effective(messages, policy) == policy /\ (ToolHistory(messages) => Replayable(messages))

------------------------------------------------------------------------------
Refused == [refused |-> TRUE]
Body(messages, thinking, hints) ==
    [refused |-> FALSE, messages |-> messages, thinking |-> thinking, hints |-> hints]

\* _remove_deepseek_thinking_hints, when it is the history that ends the thinking
HintsLeft(o, effective) == o.hints /\ (effective \/ ~ o.policy)

DeepSeekBody(o) ==
    LET messages == Stripped(talk)
        effective == Effective(messages, o.policy)
    IN IF o.serverTools \/ (\E b \in ToSet(Blocks(messages)) : b.kind = "server") THEN Refused
       ELSE Body(DeepSeekSanitized(messages, effective), effective /\ o.asked, HintsLeft(o, effective))

NativeBody(o) == Body(Sanitized(talk, o.policy), o.policy /\ o.asked, o.hints)

\* What extra_body may hold is merged in at the end; a budget for thinking may be there.
Merged(o, body) ==
    IF o.extra = "messages" THEN Refused ELSE [body EXCEPT !.thinking = @ \/ o.extra = "thinking"]

BuildRequestBody(o) ==
    CASE o.provider = "deepseek" -> DeepSeekBody(o)
      [] o.provider = "zai" -> IF o.extra # "nothing" THEN Refused ELSE NativeBody(o)
      [] o.provider = "wafer" -> [NativeBody(o) EXCEPT !.thinking = TRUE]
      [] o.provider = "fireworks" -> Merged(o, NativeBody(o))
      [] o.provider = "open_router" -> Merged(o, [NativeBody(o) EXCEPT !.thinking = o.policy])
      [] OTHER -> NativeBody(o)

------------------------------------------------------------------------------
(* The conversation: the client sends the whole of it every time, with other options. *)

Says(role, kinds) ==
    LET said == Len(Blocks(talk)) IN
    /\ Len(talk) < MaxTalk
    /\ talk' = Append(talk, [role |-> role,
                             blocks |-> [i \in DOMAIN kinds |-> [kind |-> kinds[i], no |-> said + i]]])
    /\ UNCHANGED options

RequestNext ==
    \/ Len(talk) % 2 = 1 /\ \E kinds \in AssistantSays : Says("assistant", kinds)
    \/ Len(talk) % 2 = 0 /\ \E kinds \in UserSays : Says("user", kinds)

------------------------------------------------------------------------------
(* Whatever the conversation was held with so far, a request that is not turned away   *)
(* replays every text, call and result in order; no thinking at all when there is to   *)
(* be none, and otherwise what the provider can take back; and DeepSeek thinks after   *)
(* tool calls only where a thought before a call goes back to it, and is not otherwise *)
(* told to.  Wafer always thinks, and extra_body can ask for it against the policy.    *)
RequestSound ==
    LET body == BuildRequestBody(options)
        kept(messages) ==
           SelectSeq(Blocks(messages), LAMBDA b : b.no > 0 /\ b.kind \notin Thinking \union {"image"})
        numbers(blocks) == [i \in DOMAIN blocks |-> blocks[i].no]
        replayed == ToSet(Blocks(body.messages))
        deepseek == options.provider = "deepseek"
    IN ~ body.refused =>
          /\ numbers(kept(body.messages)) = numbers(kept(talk))
          /\ ~ options.policy => ~ \E b \in replayed : b.kind \in Thinking
          /\ (~ options.policy /\ options.provider # "wafer" /\ options.extra # "thinking") => ~ body.thinking
          /\ ~ deepseek => ~ \E b \in replayed : b.kind \in {"unsigned", "empty"}
          /\ deepseek => ~ \E b \in replayed : b.kind \in {"redacted", "image", "image result", "server"}
          /\ (deepseek /\ options.policy /\ (body.thinking \/ body.hints) /\ \E b \in replayed : b.kind \in Results) =>
                \E m \in ToSet(body.messages) :
                   \E i, j \in DOMAIN m.blocks :
                      i < j /\ m.blocks[i].kind \in {"signed", "unsigned"} /\ m.blocks[j].kind = "tool_use"
==============================================================================
