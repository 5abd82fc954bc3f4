--------------------------- MODULE HeuristicTools ---------------------------
(***************************************************************************)
(* HeuristicToolParser (core/anthropic/tools.py): tool calls that a model  *)
(* writes as text, cut into chunks anywhere.  The text is a sequence of    *)
(* pieces; every tag is two pieces, so that a chunk can end inside it:     *)
(*   "b" the bullet, "<f" "f>" <function=...>, "<p" "p>" <parameter=...>   *)
(*   with its value and closing tag, "<|" "|>" a control token, "web" a    *)
(*   whole call of WebFetch or WebSearch, "sp" white space, "w" other text *)
(***************************************************************************)
EXTENDS Integers, Sequences, SequencesExt, FiniteSets

CONSTANTS
    Piece,
    MaxPieces,
    MaxPending  \* how long a bullet waits for its function tag

VARIABLES
    given,      \* all pieces so far
    incoming,   \* pieces on their way, not yet fed
    parser,     \* the parser's state, buffer and current parameters
    passed,     \* text let through
    calls       \* tool calls detected: how many parameters each has

toolVars == <<given, incoming, parser, passed, calls>>

First(s, from, P(_)) ==
    LET at == {i \in from..Len(s) : P(s[i])}
    IN IF at = {} THEN 0 ELSE CHOOSE i \in at : \A j \in at : i <= j

Has(s, p) == First(s, 1, LAMBDA q : q = p) # 0
From(s, i) == SubSeq(s, i, Len(s))
Before(s, i) == SubSeq(s, 1, i - 1)

\* _strip_control_tokens: one that is complete disappears.
ControlTokens(s) ==
    {t \in (1..Len(s)) \X (1..Len(s)) :
        /\ t[1] < t[2] /\ s[t[1]] = "<|" /\ s[t[2]] = "|>"
        /\ \A k \in (t[1]+1)..(t[2]-1) : s[k] \in {"w", "sp", "b", "web"}}

Strip(s) ==
    LET keep == {k \in 1..Len(s) : \A t \in ControlTokens(s) : k \notin t[1]..t[2]}
    IN [n \in 1..Cardinality(keep) |->
            s[CHOOSE k \in keep : Cardinality({l \in keep : l < k}) = n - 1]]

(* What feed() works on: parser state, buffer, parameters of the current   *)
(* call, output; `go` is whether the loop goes on.                         *)

\* _extract_web_tool_json_calls: a call empties the buffer, whatever else it holds.
ExtractWeb(m) ==
    LET found == SelectSeq(m.buf, LAMBDA p : p = "web")
    IN IF found = <<>> THEN m
       ELSE [m EXCEPT !.buf = <<>>, !.calls = @ \o [i \in 1..Len(found) |-> 0]]

Out(m, s) == [m EXCEPT !.out = @ \o s]

\* The text before a bullet, or before an unfinished control token, is let through.
InText(m) ==
    LET bullet == First(m.buf, 1, LAMBDA p : p = "b")
        token == SelectLastInSeq(m.buf, LAMBDA p : p = "<|")
        open == token > 1 /\ ~Has(From(m.buf, token), "|>")
    IN CASE bullet # 0 -> [Out(m, Before(m.buf, bullet)) EXCEPT !.buf = From(m.buf, bullet),
                                                              !.state = "matching"]
         [] bullet = 0 /\ open -> [Out(m, Before(m.buf, token)) EXCEPT !.buf = From(m.buf, token),
                                                                      !.go = FALSE]
         [] OTHER -> [Out(m, m.buf) EXCEPT !.buf = <<>>, !.go = FALSE]

\* Where a bullet followed by a whole function tag begins, and where it ends.
FunctionTags(s) ==
    {t \in (1..Len(s)) \X (1..Len(s)) :
        /\ s[t[1]] = "b" /\ s[t[2]] = "f>"
        /\ \E j \in (t[1]+1)..(t[2]-1) :
            /\ s[j] = "<f" /\ \A l \in (t[1]+1)..(j-1) : s[l] = "sp"
            /\ \A l \in (j+1)..(t[2]-1) : s[l] \notin {"f>", "p>", "|>", "<p"}}

\* The text before the first of them that matches is dropped.
Matching(m) ==
    LET tags == FunctionTags(m.buf) IN
    CASE tags # {} ->
            LET end == CHOOSE k \in {t[2] : t \in tags} : \A t \in tags : k <= t[2]
            IN [m EXCEPT !.buf = From(m.buf, end + 1), !.params = 0, !.state = "parameters"]
      [] tags = {} /\ Len(m.buf) > MaxPending ->
            [Out(m, <<Head(m.buf)>>) EXCEPT !.buf = Tail(@), !.state = "text"]
      [] OTHER -> [m EXCEPT !.go = FALSE]

\* Whole parameters are taken out of the buffer; the text before each is let through.
TakeParameter(m) ==
    LET begin == First(m.buf, 1, LAMBDA p : p = "<p")
        end == IF begin = 0 THEN 0 ELSE First(m.buf, begin, LAMBDA p : p = "p>")
    IN IF end = 0 THEN m
       ELSE [Out(m, Before(m.buf, begin)) EXCEPT !.buf = From(m.buf, end + 1), !.params = @ + 1]
TakeParameters(m) == FoldLeft(LAMBDA n, p : TakeParameter(n), m, m.buf)

StartsTag(s) ==
    LET i == First(s, 1, LAMBDA p : p # "sp") IN i # 0 /\ s[i] \in {"<f", "<p", "<|"}

Detected(m) == [m EXCEPT !.calls = Append(@, m.params), !.state = "text"]

\* A call is over at the next bullet, or at text that is not a tag.
InParameters(m) ==
    LET n == TakeParameters(m)
        bullet == First(n.buf, 1, LAMBDA p : p = "b")
    IN CASE bullet # 0 -> Detected([Out(n, Before(n.buf, bullet)) EXCEPT !.buf = From(n.buf, bullet)])
         [] bullet = 0 /\ n.buf # <<>> /\ ~StartsTag(n.buf) /\ ~Has(n.buf, "<p") ->
                Detected([Out(n, n.buf) EXCEPT !.buf = <<>>])
         [] OTHER -> [n EXCEPT !.go = FALSE]

LoopStep(m) ==
    CASE ~m.go -> m
      [] m.go /\ m.state = "text" -> InText(m)
      [] m.go /\ m.state = "matching" -> Matching(m)
      [] m.go /\ m.state = "parameters" -> InParameters(m)

FeedPieces(p, s) ==
    LET m == ExtractWeb([state |-> p.state, buf |-> Strip(p.buf \o s), params |-> p.params,
                         out |-> <<>>, calls |-> <<>>, go |-> TRUE])
    IN FoldLeft(LAMBDA n, i : LoopStep(n), m, [i \in 1..(3 * Len(m.buf) + 3) |-> i])

\* flush(): a call under way is given up with the parameter it was reading; text
\* held back is not given up.
FlushedCalls(p) ==
    IF p.state # "parameters" THEN <<>>
    ELSE <<p.params + (IF Has(Strip(p.buf), "<p") THEN 1 ELSE 0)>>

NewParser == [state |-> "text", buf |-> <<>>, params |-> 0]

ToolInit ==
    given = <<>> /\ incoming = <<>> /\ parser = NewParser /\ passed = <<>> /\ calls = <<>>

ArrivePiece(p) ==
    /\ Len(given) + Len(incoming) < MaxPieces
    /\ incoming' = Append(incoming, p)
    /\ UNCHANGED <<given, parser, passed, calls>>

Fed(m) ==
    /\ parser' = [state |-> m.state, buf |-> m.buf, params |-> m.params]
    /\ passed' = passed \o m.out
    /\ calls' = calls \o m.calls

FeedIncoming ==
    /\ incoming # <<>>
    /\ given' = given \o incoming /\ incoming' = <<>>
    /\ Fed(FeedPieces(parser, incoming))

ToolNext == FeedIncoming \/ \E p \in Piece : ArrivePiece(p)

-----------------------------------------------------------------------------
(* Text in which every bullet begins a call, and the parameters of a call  *)
(* follow its function tag and each other without a gap.                   *)
CallsUnbroken(s) ==
    \A i \in 1..Len(s) :
        LET next == IF i < Len(s) THEN s[i+1] ELSE "end"
            last == IF i > 1 THEN s[i-1] ELSE "begin"
        IN CASE s[i] = "b" -> next \in {"<f", "sp", "end"} /\ (next = "sp" =>
                                i + 2 > Len(s) \/ s[i+2] = "<f")
             [] s[i] = "<f" -> next \in {"f>", "end"} /\ (last = "b" \/ (last = "sp" /\ i > 2 /\ s[i-2] = "b"))
             [] s[i] = "f>" -> last = "<f"
             [] s[i] = "<p" -> next \in {"p>", "end"} /\ last \in {"f>", "p>"}
             [] s[i] = "p>" -> last = "<p"
             [] OTHER -> s[i] \in {"w", "sp"}

\* The calls it contains: for each function tag, the parameters up to the next.
CallsOf(s) ==
    LET tags == SelectSeq([i \in 1..Len(s) |-> i], LAMBDA i : s[i] = "f>")
        last(n) == IF n < Len(tags) THEN tags[n + 1] ELSE Len(s)
    IN [n \in 1..Len(tags) |-> Cardinality({i \in tags[n]..last(n) : s[i] = "<p"})]

\* In such text every call is found once with all its parameters, however the
\* text is cut.  Whatever the text, nothing of it is let through twice or out of order.
CallsFound ==
    /\ CallsUnbroken(given) => calls \o FlushedCalls(parser) = CallsOf(given)
    /\ passed \in SubSeqs(given) \/ \E keep \in SUBSET (1..Len(given)) :
            passed = [n \in 1..Cardinality(keep) |->
                given[CHOOSE k \in keep : Cardinality({l \in keep : l < k}) = n - 1]]

\* However the text is cut, the parser finds the calls and lets through the text
\* that it would with the text in one chunk.  The code does not keep this outside
\* orderly text: what ends a call, or is lost, depends on where a chunk ends.
ToolCutsDoNotMatter ==
    LET whole == FeedPieces(NewParser, given)
    IN /\ passed = whole.out
       /\ calls \o FlushedCalls(parser) = whole.calls \o FlushedCalls(whole)

=============================================================================
