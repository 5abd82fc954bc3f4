------------------------------ MODULE VoiceNotes ------------------------------
(***************************************************************************)
(* Voice notes of the bots: messaging/voice.py, the voice handlers of      *)
(* platforms/telegram.py and platforms/discord.py, messaging/              *)
(* transcription.py, and the part of /clear (messaging/commands.py) that   *)
(* cancels a note.  A handler sends a status message, registers the note   *)
(* under both messages, transcribes it in a thread and hands the text on   *)
(* if the note is still registered.  Handlers and commands run as tasks of *)
(* their own in Discord; Telegram's run one after the other, which is one  *)
(* of these orders.                                                        *)
(***************************************************************************)
EXTENDS Naturals, FiniteSets

CONSTANTS Note, MaxClears

VARIABLES
    note,     \* where its handler is
    pending,  \* PendingVoiceRegistry: keys -> notes, as a set of <<"voice" or "status", note>>
    chat,     \* the messages of the chat
    files,    \* temporary files
    turns,    \* notes whose text has reached the message handler, as often as it has
    told      \* what /clear has answered: <<note, "cancelled" or "cleared">>; how often

voiceVars == <<note, pending, chat, files, turns, told>>

Keys(n) == {<<"voice", n>>, <<"status", n>>}
Ended == {"handed", "dropped", "failed", "refused", "lost"}

VoiceInit ==
    /\ note = [n \in Note |-> "new"]
    /\ pending = {} /\ chat = {<<"voice", n>> : n \in Note} /\ files = {}
    /\ turns = [n \in Note |-> 0] /\ told = [clears |-> 0, answers |-> {}]

Becomes(n, at) == note' = [note EXCEPT ![n] = at]

\* A note is refused if the bot does not take any; else its status message is queued.
Heard(n) ==
    /\ note[n] = "new"
    /\ Becomes(n, "asked") \/ Becomes(n, "refused")
    /\ UNCHANGED <<pending, chat, files, turns, told>>

\* The limiter sends it, or gives up: the error ends the handler outside its try.
StatusSent(n) ==
    /\ note[n] = "asked"
    /\ \/ Becomes(n, "sent") /\ chat' = chat \union {<<"status", n>>}
       \/ Becomes(n, "lost") /\ UNCHANGED chat
    /\ UNCHANGED <<pending, files, turns, told>>

\* _register_pending_voice and the download.
Register(n) ==
    /\ note[n] = "sent"
    /\ Becomes(n, "loading") /\ pending' = pending \union Keys(n) /\ files' = files \union {n}
    /\ UNCHANGED <<chat, turns, told>>

\* transcribe, in a thread: the file is looked at there.
Transcribe(n) ==
    /\ note[n] = "loading" /\ Becomes(n, "transcribing")
    /\ UNCHANGED <<pending, chat, files, turns, told>>

StillPending(n) == <<"voice", n>> \in pending

\* The text is there: it is handed on, with the status message for the turn to use,
\* or the status message is deleted.
Transcribed(n) ==
    /\ note[n] = "transcribing" /\ files' = files \ {n}
    /\ IF StillPending(n)
       THEN Becomes(n, "handed") /\ pending' = pending \ Keys(n) /\ turns' = [turns EXCEPT ![n] = @ + 1] /\ UNCHANGED chat
       ELSE Becomes(n, "dropped") /\ chat' = chat \ {<<"status", n>>} /\ UNCHANGED <<pending, turns>>
    /\ UNCHANGED told

\* A download or a transcription that fails (a file that is too large, a backend that is
\* not installed) is told in a reply; the note stays registered.
Fails(n) ==
    /\ note[n] \in {"loading", "transcribing"}
    /\ Becomes(n, "failed") /\ files' = files \ {n}
    /\ UNCHANGED <<pending, chat, turns, told>>

\* /clear in reply to the note or its status message, of which no tree knows yet: cancel
\* and delete both.
Cancelled(key) == Keys(key[2])
ClearReply(key) ==
    /\ told.clears < MaxClears /\ key \in chat /\ note[key[2]] # "handed"
    /\ IF key \in pending
       THEN /\ pending' = pending \ Cancelled(key) /\ chat' = chat \ Keys(key[2])
            /\ told' = [clears |-> told.clears + 1, answers |-> told.answers \union {<<key[2], "cancelled">>}]
       ELSE UNCHANGED <<pending, chat>> /\ told' = [told EXCEPT !.clears = @ + 1]
    /\ UNCHANGED <<note, files, turns>>

\* /clear on its own knows nothing of pending notes: the messages of the log go, and the
\* turns, but a transcription goes on and its text becomes a turn of the empty chat.
ClearAll ==
    /\ told.clears < MaxClears
    /\ \E some \in SUBSET {m \in chat : m[1] = "voice"} : chat' = chat \ some
    /\ told' = [clears |-> told.clears + 1,
                answers |-> told.answers \union {<<n, "cleared">> : n \in {m \in Note : note[m] = "handed"}}]
    /\ UNCHANGED <<note, pending, files, turns>>

VoiceNext ==
    \/ \E n \in Note : Heard(n) \/ StatusSent(n) \/ Register(n) \/ Transcribe(n) \/ Transcribed(n) \/ Fails(n)
    \/ \E key \in UNION {Keys(n) : n \in Note} : ClearReply(key)
    \/ ClearAll

(* A note of which /clear has said that it is cancelled never becomes a turn and leaves  *)
(* no message, a note that was transcribed and not cancelled becomes one turn, and a    *)
(* note that is done with leaves no file and, unless it failed, no registration under   *)
(* which a later /clear could find it.                                                  *)
VoiceNotesSound ==
    \A n \in Note :
       /\ turns[n] = IF note[n] = "handed" THEN 1 ELSE 0
       /\ <<n, "cancelled">> \in told.answers =>
             /\ note[n] \in {"loading", "transcribing", "dropped", "failed"}
             /\ Keys(n) \intersect (chat \union pending) = {}
       /\ note[n] = "dropped" => <<n, "cancelled">> \in told.answers
       /\ note[n] \in Ended => n \notin files
       /\ note[n] \in Ended \ {"failed"} => Keys(n) \intersect pending = {}
===============================================================================
