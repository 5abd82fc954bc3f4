-------------------------- MODULE MessageConversion --------------------------
(***************************************************************************)
(* A conversation in Anthropic's form made one in OpenAI's:                *)
(* core/anthropic/conversion.py.  A chat completion cannot have text after *)
(* the tool calls of a message, so what an assistant says after its first  *)
(* call is put off until the results of all its calls have been replayed.  *)
(* Each step is one more message of the conversation, taken through the    *)
(* body of convert_messages.  Text, thinking and calls are numbered; a     *)
(* call has an id, and no two have the same.                               *)
(***************************************************************************)
EXTENDS Naturals, FiniteSets, Sequences, SequencesExt

CONSTANTS MaxMessages, MaxCalls, Shapes   \* kinds of the blocks that an assistant may say

VARIABLES
    result,    \* the converted messages
    deferred,  \* _PendingAfterTools: the calls without a result, the blocks put off and the
               \* reasoning_content of their message
    heard      \* the conversation: replay mode, messages, open calls, number of calls, and
               \* whether it went on while blocks were put off (late), or gave a result to
               \* none of the open calls (again)

convertVars == <<result, deferred, heard>>

Nothing == [calls |-> {}, blocks |-> <<>>, given |-> <<>>]
Block(kind, no) == [kind |-> kind, no |-> no]
Message(role, parts, calls, reasoning) ==
    [role |-> role, parts |-> parts, calls |-> calls, reasoning |-> reasoning]

ConvertInit ==
    /\ result = <<>> /\ deferred = Nothing
    /\ \E mode \in {"disabled", "think_tags", "reasoning_content"} :
          heard = [mode |-> mode, said |-> <<>>, open |-> {}, calls |-> 0, late |-> FALSE, again |-> FALSE]

Calls(blocks) == {b.no : b \in {c \in ToSet(blocks) : c.kind = "tool_use"}}
FirstCall(blocks) == SelectInSeq(blocks, LAMBDA b : b.kind = "tool_use")
Thinking(blocks) == SelectSeq(blocks, LAMBDA b : b.kind = "thinking")

\* _convert_assistant_message: thinking is left out, put into tags where it stood, or made
\* a field of its own, for which a reasoning_content that the message came with is taken
\* instead; redacted thinking never gets through.
Kept(blocks) ==
    SelectSeq(blocks, LAMBDA b : b.kind \in {"text", "given"} \/ (b.kind = "thinking" /\ heard.mode = "think_tags"))
Reasoning(blocks, given) ==
    IF heard.mode # "reasoning_content" THEN <<>> ELSE IF given # <<>> THEN given ELSE Thinking(blocks)
Assistant(blocks, given) == Message("assistant", Kept(blocks), {}, Reasoning(blocks, given))

\* _convert_assistant_message_with_split: all the calls go with what came before the
\* first; both halves have the reasoning that was given.
PutOff(blocks) == SelectSeq(SubSeq(blocks, FirstCall(blocks) + 1, Len(blocks)), LAMBDA b : b.kind # "tool_use")
WithCalls(blocks, given) ==
    [Assistant(SubSeq(blocks, 1, FirstCall(blocks) - 1), given) EXCEPT !.calls = Calls(blocks)]

Replayed(d) == IF d.blocks = <<>> THEN <<>> ELSE <<Assistant(d.blocks, d.given)>>

\* A user's blocks: results become messages of their own, between which text is joined.
\* The last of the results that were missing is followed by what had been put off, and so
\* is each result after it in the same message.  (A slip: the first of them.)
AfterFirst(d, no) == [d EXCEPT !.calls = {}]
After(d, no) == [d EXCEPT !.calls = @ \ {no}]
Texts(blocks) == IF blocks = <<>> THEN <<>> ELSE <<Message("user", blocks, {}, <<>>)>>
User(blocks, d) ==
    FoldLeft(LAMBDA s, b :
                IF b.kind = "text" THEN [s EXCEPT !.text = Append(@, b)]
                ELSE LET left == After(s.left, b.no)
                         put == IF left.calls = {} THEN Replayed(left) ELSE <<>>
                     IN [out |-> s.out \o Texts(s.text) \o <<Message("tool", <<b>>, {}, <<>>)>> \o put,
                         text |-> <<>>, left |-> left],
             [out |-> <<>>, text |-> <<>>, left |-> d], blocks)

------------------------------------------------------------------------------
(* convert_messages, a message at a time. *)

Spoken == FlattenSeq([i \in 1..Len(heard.said) |-> heard.said[i].blocks])

Hear(role, blocks, given, open, late, again) ==
    heard' = [heard EXCEPT !.said = Append(@, [role |-> role, blocks |-> blocks, given |-> given]),
                           !.open = open, !.calls = @ + Cardinality(Calls(blocks)),
                           !.late = @ \/ late, !.again = @ \/ again]
More == Len(heard.said) < MaxMessages

\* The reasoning_content of the next message, if it comes with any; nothing looks at it when
\* thinking is disabled.
Given == {<<>>} \union (IF heard.mode = "disabled" THEN {} ELSE {<<Block("given", Len(heard.said) + 1)>>})

\* An assistant's message, even if calls of the one before are open; calls are numbered on.
AssistantSpeaks(blocks, given) ==
    /\ More
    /\ IF FirstCall(blocks) = 0
       THEN result' = result \o Replayed(deferred) \o <<Assistant(blocks, given)>> /\ deferred' = Nothing
       ELSE /\ result' = result \o Replayed(deferred) \o <<WithCalls(blocks, given)>>
            /\ deferred' = IF PutOff(blocks) = <<>> THEN Nothing
                           ELSE [calls |-> Calls(blocks), blocks |-> PutOff(blocks), given |-> given]
    /\ Hear("assistant", blocks, given, Calls(blocks), FALSE, FALSE)

\* A user's text that is a string.  Calls that are still open stay without results: the
\* conversation was interrupted, and what was put off is said before the text.
UserWrites(text) ==
    /\ More
    /\ result' = result \o Replayed(deferred) \o Texts(text)
    /\ deferred' = Nothing
    /\ Hear("user", text, <<>>, {}, FALSE, FALSE)

\* A user's list of blocks without results, or an assistant's string, does not end the
\* waiting: what was put off is said later than it should be.
UserGoesOn(text) ==
    /\ More
    /\ result' = result \o Texts(text)
    /\ UNCHANGED deferred
    /\ Hear("user", text, <<>>, {}, deferred # Nothing, FALSE)

\* In a string, a reasoning that was given is put into tags before the text.
AssistantWrites(text, given) ==
    LET all == (IF heard.mode = "think_tags" THEN given ELSE <<>>) \o text IN
    /\ More
    /\ result' = Append(result, Assistant(all, given))
    /\ UNCHANGED deferred
    /\ Hear("assistant", all, given, {}, deferred # Nothing, FALSE)

\* A user's message with the results of the open calls, in any order, or of some of
\* them, the others following in the next message; text after the last.  Once, a result
\* comes that no open call waits for: of a call that has one, or was given up.
UserAnswers(order, more, text) ==
    LET no == order \o more
        blocks == [i \in 1..Len(no) |-> Block("tool_result", no[i])] \o text
        done == User(blocks, deferred)
    IN /\ More /\ no # <<>> /\ ToSet(order) \subseteq heard.open
       /\ (text # <<>> => ToSet(order) = heard.open)
       /\ (more # <<>> => ~heard.again)
       /\ result' = result \o done.out \o Texts(done.text)
       /\ deferred' = IF done.left.calls = {} THEN Nothing ELSE done.left
       /\ Hear("user", blocks, <<>>, heard.open \ ToSet(order), FALSE, more # <<>>)

\* The end: what is still put off is said then.
Ended == result \o Replayed(deferred)

\* Blocks of an assistant: numbers go on from those there are.
Numbered(kinds) ==
    [i \in 1..Len(kinds) |->
        Block(kinds[i], IF kinds[i] = "tool_use"
                        THEN heard.calls + Cardinality({j \in 1..i : kinds[j] = "tool_use"})
                        ELSE Len(Spoken) + i)]

ConvertNext ==
    \/ \E kinds \in Shapes, given \in Given :
          /\ heard.calls + Cardinality({i \in DOMAIN kinds : kinds[i] = "tool_use"}) <= MaxCalls
          /\ AssistantSpeaks(Numbered(kinds), given)
    \/ UserWrites(Numbered(<<"text">>)) \/ UserGoesOn(Numbered(<<"text">>))
    \/ \E given \in Given : AssistantWrites(Numbered(<<"text">>), given)
    \/ \E calls \in SUBSET heard.open : \E order \in SetToSeqs(calls) :
          \E more \in {<<>>} \union {<<c>> : c \in (1..heard.calls) \ (heard.open \ calls)} :
          \E text \in {<<>>, <<Block("text", Len(Spoken) + Len(order \o more) + 1)>>} :
             UserAnswers(order, more, text)

------------------------------------------------------------------------------
Told(messages) ==
    FlattenSeq([i \in 1..Len(messages) |-> SelectSeq(messages[i].parts, LAMBDA b : b.kind # "tool_result")])
Thought(messages) == FlattenSeq([i \in 1..Len(messages) |-> Thinking(messages[i].reasoning)])

\* What followed the first call in a message.
Deferrable == UNION {ToSet(PutOff(m.blocks)) : m \in {s \in ToSet(heard.said) : FirstCall(s.blocks) # 0}}

\* Nothing is lost or made up.  A conversation in which each result is an open call's says
\* everything once, and in order unless it went on without the results.  A result that no
\* open call waits for, behind the last one that was missing, repeats what had been put off
\* (deferred_emitted is not looked at before it is said again), and nothing else.
Conveys(told, all) ==
    IF heard.again
    THEN /\ ToSet(told) = ToSet(all)
         /\ \A i, j \in DOMAIN told : told[i] = told[j] => i = j \/ told[i] \in Deferrable
    ELSE IF heard.late THEN Len(told) = Len(all) /\ ToSet(told) = ToSet(all) ELSE told = all

\* The thinking of the messages that came without a reasoning of their own.
OwnThinking ==
    FlattenSeq([i \in 1..Len(heard.said) |->
                   IF heard.mode # "reasoning_content" \/ heard.said[i].given # <<>> THEN <<>>
                   ELSE Thinking(heard.said[i].blocks)])

\* What a message becomes, in both of its halves, has the reasoning that it was given, and
\* nobody else's.
ReasoningKept ==
    \A m \in ToSet(heard.said) : m.given # <<>> /\ heard.mode = "reasoning_content" =>
       LET halves == {i \in 1..Len(Ended) :
                        \/ Ended[i].calls \intersect Calls(m.blocks) # {}
                        \/ ToSet(Ended[i].parts) \intersect ToSet(m.blocks) # {}}
           given == {i \in 1..Len(Ended) : Ended[i].reasoning = m.given}
       IN halves \subseteq given /\ given # {}

\* The calls of a message are followed at once by their results, so far as there are any,
\* which a provider insists on.
ResultsFollow ==
    LET answered(calls) == {b.no : b \in {c \in ToSet(Spoken) : c.kind = "tool_result"}} \intersect calls
    IN \A i \in 1..Len(Ended) :
          LET results == answered(Ended[i].calls) IN
          \A j \in i + 1..i + Cardinality(results) :
             j <= Len(Ended) /\ Ended[j].role = "tool" /\ Ended[j].parts[1].no \in results

(* Whatever way the tools were called and answered, the converted conversation says     *)
(* everything, with its own reasoning, and once and in order as far as Conveys says; and *)
(* calls have their results behind them, if each result is an open call's.               *)
ConversionSound ==
    /\ Conveys(Told(Ended), Kept(SelectSeq(Spoken, LAMBDA b : b.kind # "tool_result")))
    /\ Conveys(Thought(Ended), OwnThinking)
    /\ ReasoningKept
    /\ ~heard.again => ResultsFollow

==============================================================================
