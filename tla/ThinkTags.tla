----------------------------- MODULE ThinkTags ------------------------------
(***************************************************************************)
(* ThinkTagParser (core/anthropic/thinking.py): thinking marked by tags in *)
(* the text of a model, cut into chunks anywhere.  The tags are shortened: *)
(* what matters of "think" is that it separates the brackets.              *)
(***************************************************************************)
EXTENDS Integers, Sequences, SequencesExt

CONSTANTS
    Char,       \* characters of the text, those of the tags among them
    MaxText     \* how long a text may get

VARIABLES
    fed,        \* all text so far
    chunk,      \* text on its way, not yet fed
    buffer, inThink,
    parsed      \* what has been yielded: characters with their kind

tagVars == <<fed, chunk, buffer, inThink, parsed>>

OpenTag == <<"<", "t", ">">>
CloseTag == <<"<", "/", "t", ">">>

At(s, i, tag) == i + Len(tag) - 1 <= Len(s) /\ SubSeq(s, i, i + Len(tag) - 1) = tag

\* str.find and str.rfind, 0 for not found
Find(s, tag) ==
    LET at == {i \in 1..Len(s) : At(s, i, tag)}
    IN IF at = {} THEN 0 ELSE CHOOSE i \in at : \A j \in at : i <= j

LastBracket(s) == SelectLastInSeq(s, LAMBDA c : c = "<")

After(s, i, tag) == SubSeq(s, i + Len(tag), Len(s))

Marked(s, kind) == [i \in 1..Len(s) |-> <<s[i], kind>>]

\* A slip: what may be a tag is kept only if it has begun with its second character.
MayBeLongTag(tail, tags) ==
    \E tag \in tags : Len(tail) \in 2..(Len(tag) - 1) /\ IsPrefix(tail, tag)

\* The end of the text may be the beginning of a tag.
MayBeTag(tail, tags) == \E tag \in tags : Len(tail) < Len(tag) /\ IsPrefix(tail, tag)

Hold(m, kind, tags) ==
    LET last == LastBracket(m.buf)
        tail == SubSeq(m.buf, last, Len(m.buf))
    IN IF last # 0 /\ MayBeTag(tail, tags)
       THEN [m EXCEPT !.out = @ \o Marked(SubSeq(m.buf, 1, last - 1), kind), !.buf = tail]
       ELSE [m EXCEPT !.out = @ \o Marked(m.buf, kind), !.buf = <<>>]

Through(m, i, tag, kind, think) ==
    [buf |-> After(m.buf, i, tag), think |-> think,
     out |-> m.out \o Marked(SubSeq(m.buf, 1, i - 1), kind)]

\* _parse_outside_think: a closing tag without its opening one is dropped.
ParseOutside(m) ==
    LET start == Find(m.buf, OpenTag)
        orphan == Find(m.buf, CloseTag)
    IN CASE orphan # 0 /\ (start = 0 \/ orphan < start) ->
                Through(m, orphan, CloseTag, "text", FALSE)
         [] start = 0 /\ orphan = 0 -> Hold(m, "text", {OpenTag, CloseTag})
         [] OTHER -> Through(m, start, OpenTag, "text", TRUE)

\* _parse_inside_think
ParseInside(m) ==
    LET end == Find(m.buf, CloseTag)
    IN IF end = 0 THEN Hold(m, "thinking", {CloseTag})
       ELSE Through(m, end, CloseTag, "thinking", FALSE)

\* feed(): parse until nothing more can be.
Step(m) == IF m.buf = <<>> THEN m ELSE IF m.think THEN ParseInside(m) ELSE ParseOutside(m)

FeedAll(m) == FoldLeft(LAMBDA n, i : Step(n), m, [i \in 1..(Len(m.buf) + 1) |-> i])

\* flush(): what is held back is given up as it is.
Flushed == parsed \o Marked(buffer, IF inThink THEN "thinking" ELSE "text")

TagInit == fed = <<>> /\ chunk = <<>> /\ buffer = <<>> /\ inThink = FALSE /\ parsed = <<>>

\* The chunk grows by a character.
Arrive(c) ==
    /\ Len(fed) + Len(chunk) < MaxText
    /\ chunk' = Append(chunk, c)
    /\ UNCHANGED <<fed, buffer, inThink, parsed>>

Become(m) == buffer' = m.buf /\ inThink' = m.think /\ parsed' = m.out

Feed ==
    /\ chunk # <<>>
    /\ fed' = fed \o chunk /\ chunk' = <<>>
    /\ Become(FeedAll([buf |-> buffer \o chunk, think |-> inThink, out |-> parsed]))

TagNext == Feed \/ \E c \in Char : Arrive(c)

-----------------------------------------------------------------------------
(* The whole text read from left to right, one tag or character at a time: *)
(* from position i on, inside of thinking or not.                          *)
Scan(s) ==
    LET from[i \in 1..(Len(s) + 1), inside \in BOOLEAN] ==
        CASE i > Len(s) -> <<>>
          [] At(s, i, CloseTag) -> from[i + Len(CloseTag), FALSE]
          [] ~inside /\ At(s, i, OpenTag) -> from[i + Len(OpenTag), TRUE]
          [] OTHER -> <<<<s[i], IF inside THEN "thinking" ELSE "text">>>> \o from[i + 1, inside]
    IN from[1, FALSE]

\* However the text is cut into chunks, the parser yields what reading it whole
\* would, and holds back no more than an unfinished tag.
CutsDoNotMatter == Flushed = Scan(fed) /\ Len(buffer) < Len(CloseTag)

=============================================================================
