------------------------------ MODULE ChatCalls ------------------------------
(***************************************************************************)
(* What the platforms make of a call to send, edit or delete a message:    *)
(* messaging/platforms/telegram.py (_with_retry and the methods around     *)
(* it) and platforms/discord.py, directly or through the limiter.  The     *)
(* service may refuse, ask for patience, or carry a call out and lose the  *)
(* answer.                                                                 *)
(***************************************************************************)
EXTENDS Naturals, FiniteSets

CONSTANTS MaxRetries, MaxLost

VARIABLES
    call,     \* the call: platform, kind, where it is, attempts, markup, result; whether
              \* the library's refusals are a class of their own or network errors
    service   \* what the service has of it: messages sent, the one to edit or delete

callVars == <<call, service>>

CallInit ==
    /\ \E platform \in {"telegram", "discord"}, kind \in {"send", "edit", "delete"}, markup, there, own \in BOOLEAN :
          /\ call = [platform |-> platform, own |-> own, kind |-> kind, at |-> "queued", attempt |-> 0, again |-> FALSE,
                     markup |-> markup, result |-> "none", last |-> "none"]
          /\ service = [sent |-> 0, lost |-> 0, text |-> IF kind = "send" \/ there THEN "old" ELSE "gone", calls |-> 0]

\* queue_*_message: through the limiter, whose worker calls, or at once.
Dispatch ==
    /\ call.at = "queued" /\ call' = [call EXCEPT !.at = "trying", !.attempt = 1]
    /\ UNCHANGED service

\* What the service does with an attempt, and its answer.
Carried == CASE call.kind = "send" -> [service EXCEPT !.sent = @ + 1, !.calls = @ + 1]
             [] call.kind = "edit" -> [service EXCEPT !.text = "new", !.calls = @ + 1]
             [] OTHER -> [service EXCEPT !.text = "gone", !.calls = @ + 1]
Refused == [service EXCEPT !.calls = @ + 1]

Answers ==
    LET exists == call.kind = "send" \/ service.text # "gone"
        done == service.text = "new" /\ call.kind = "edit"
    IN {<<"forbidden", Refused>> : x \in IF exists /\ call.kind # "send" THEN {1} ELSE {}}
       \union {<<"network", Refused>>, <<"flood", Refused>>, <<"other", Refused>>}
       \union {<<"gone", Refused>> : x \in IF exists THEN {} ELSE {1}}
       \union {<<"same", Refused>> : x \in IF done THEN {1} ELSE {}}
       \union {<<"markup", Refused>> : x \in IF call.markup /\ call.kind # "delete" /\ exists THEN {1} ELSE {}}
       \union {<<"ok", Carried>> : x \in IF exists /\ ~done THEN {1} ELSE {}}
       \union {<<"network", [Carried EXCEPT !.lost = @ + 1]>> : x \in IF exists /\ ~done /\ service.lost < MaxLost THEN {1} ELSE {}}

Returns(value, answer) == call' = [call EXCEPT !.at = "over", !.result = value, !.last = answer]
Raises(answer) == call' = [call EXCEPT !.at = "over", !.result = "raised", !.last = answer]

\* The loop of _with_retry: a network error is tried again while attempts are left.
Network == IF call.attempt < MaxRetries THEN call' = [call EXCEPT !.attempt = @ + 1] ELSE Raises("network")

\* "Not modified", a message that is gone and one that is not the bot's are no errors; after a wait, or without
\* markup, the function is called once more and what that raises is raised.
Harmless == {"gone", "same", "forbidden"}

Telegram(answer) ==
    LET asNetwork == answer = "network" \/ (~call.own /\ answer \in {"gone", "forbidden", "markup"}) IN
    IF answer = "ok" THEN Returns(IF call.kind = "send" THEN "id" ELSE "none", answer)
    ELSE IF call.again THEN Raises(answer)
    ELSE IF asNetwork THEN Network
    ELSE CASE answer \in Harmless -> Returns("none", answer)
           [] answer = "flood" -> call' = [call EXCEPT !.again = TRUE]
           [] answer = "markup" -> call' = [call EXCEPT !.again = TRUE, !.markup = FALSE]
           [] OTHER -> Raises(answer)

\* discord.py retries on its own; an edit or deletion of a message that is not found,
\* and a deletion that is forbidden, is no error.
Discord(answer) ==
    CASE answer = "ok" -> Returns(IF call.kind = "send" THEN "id" ELSE "none", answer)
      [] answer = "gone" \/ (answer = "forbidden" /\ call.kind = "delete") -> Returns("none", answer)
      [] OTHER -> Raises(answer)

Try ==
    /\ call.at = "trying"
    /\ \E a \in Answers :
          /\ (call.platform = "discord" => a[1] \notin {"markup", "same", "flood"})
          /\ service' = a[2]
          /\ IF call.platform = "telegram" THEN Telegram(a[1]) ELSE Discord(a[1])

CallNext == Dispatch \/ Try

(* A call that returns has been carried out, or its message is gone or forbidden: no    *)
(* answer, wait or retry turns an error into a result.  It is carried out once more     *)
(* than answers are lost, at most; a send that raises after a lost answer may be on     *)
(* the screen all the same.                                                             *)
CallsSettle ==
    /\ service.calls <= MaxRetries + 1 /\ service.sent <= 1 + service.lost
    /\ call.result \in {"id", "none"} /\ call.at = "over" =>
          CASE call.kind = "send" -> call.result = "id" /\ service.sent > 0
            [] call.kind = "edit" -> service.text \in {"new", "gone"} \/ call.last = "forbidden"
            [] OTHER -> service.text = "gone" \/ call.last = "forbidden"
=============================================================================
