--------------------------- MODULE SidePartsProofs ---------------------------
(***************************************************************************)
(* The parts beside the proxy, each with an inductive invariant, for any   *)
(* notes, turns, launchers, files, graphs, loaders, writers, hooks and     *)
(* tasks: it holds at the start, each operation keeps it, and what the     *)
(* part promises follows from it.  PartsProofs draws the theorems about    *)
(* MCParts from the lemmas named ...Start, ...Step, ...Stutter, ...Safe.   *)
(***************************************************************************)
EXTENDS SideParts, FiniteSetTheorems, WellFoundedInduction, TLAPS

\* A set of naturals that is not empty has a least element.
LEMMA LeastNatural ==
    ASSUME NEW T, T \subseteq Nat, T # {}
    PROVE  \E x \in T : \A y \in T : x <= y
<1>1. PICK x \in T : \A y \in T : ~ (<<y, x>> \in OpToRel(<, Nat))
  BY NatLessThanWellFounded, WFMin
<1>2. ASSUME NEW y \in T
      PROVE  ~ (y < x)
  <2>1. y \in Nat /\ x \in Nat
    BY <1>2
  <2>2. ~ (<<y, x>> \in {p \in Nat \X Nat : p[1] < p[2]})
    BY <1>1, <1>2, Zenon DEF OpToRel
  <2> QED
    BY <2>1, <2>2
<1> QED
  BY <1>2

-----------------------------------------------------------------------------
(***************************************************************************)
(* Voice notes: which note is registered, and who has been told what.      *)
(***************************************************************************)
VoiceKey == {"voice", "status"} \X Note
VoiceTypeOK ==
    /\ note \in [Note -> {"new", "asked", "sent", "loading", "transcribing"} \union Voice!Ended]
    /\ pending \subseteq VoiceKey /\ chat \subseteq VoiceKey /\ voiceFiles \subseteq Note
    /\ turns \in [Note -> Nat]
    /\ told \in [clears : Nat, answers : SUBSET (Note \X {"cancelled", "cleared"})]

\* A note is registered under both its messages while its handler is at work on it, unless
\* it was cancelled, and has a file meanwhile; what else the property says of it.
NoteOK(n) ==
    /\ <<"voice", n>> \in pending <=> <<"status", n>> \in pending
    /\ <<"voice", n>> \in pending => note[n] \in {"loading", "transcribing", "failed"}
    /\ note[n] \in {"loading", "transcribing"} /\ <<"voice", n>> \notin pending =>
          <<n, "cancelled">> \in told.answers
    /\ n \in voiceFiles => note[n] \in {"loading", "transcribing"}
    /\ turns[n] = IF note[n] = "handed" THEN 1 ELSE 0
    /\ <<n, "cancelled">> \in told.answers =>
          /\ note[n] \in {"loading", "transcribing", "dropped", "failed"}
          /\ <<"voice", n>> \notin chat /\ <<"status", n>> \notin chat /\ <<"voice", n>> \notin pending
    /\ note[n] = "dropped" => <<n, "cancelled">> \in told.answers

VoiceInv == VoiceTypeOK /\ \A n \in Note : NoteOK(n)

\* What the property says follows for each note from what is known of it.
LEMMA VoiceSafe ==
    ASSUME VoiceInv
    PROVE  Voice!VoiceNotesSound
<1> SUFFICES ASSUME NEW n \in Note
             PROVE  /\ turns[n] = IF note[n] = "handed" THEN 1 ELSE 0
                    /\ <<n, "cancelled">> \in told.answers =>
                          /\ note[n] \in {"loading", "transcribing", "dropped", "failed"}
                          /\ Voice!Keys(n) \intersect (chat \union pending) = {}
                    /\ note[n] = "dropped" => <<n, "cancelled">> \in told.answers
                    /\ note[n] \in Voice!Ended => n \notin voiceFiles
                    /\ note[n] \in Voice!Ended \ {"failed"} => Voice!Keys(n) \intersect pending = {}
  BY DEF Voice!VoiceNotesSound
<1>1. NoteOK(n)
  BY DEF VoiceInv
<1>2. /\ turns[n] = IF note[n] = "handed" THEN 1 ELSE 0
      /\ note[n] = "dropped" => <<n, "cancelled">> \in told.answers
      /\ note[n] \in Voice!Ended => n \notin voiceFiles
  BY <1>1 DEF NoteOK, Voice!Ended
<1>3. <<n, "cancelled">> \in told.answers =>
         /\ note[n] \in {"loading", "transcribing", "dropped", "failed"}
         /\ Voice!Keys(n) \intersect (chat \union pending) = {}
  BY <1>1 DEF NoteOK, Voice!Keys
<1>4. note[n] \in Voice!Ended \ {"failed"} => Voice!Keys(n) \intersect pending = {}
  BY <1>1 DEF NoteOK, Voice!Keys, Voice!Ended
<1> QED
  BY <1>2, <1>3, <1>4

LEMMA VoiceStart ==
    ASSUME Voice!VoiceInit
    PROVE  VoiceInv
<1>1. VoiceTypeOK
  BY DEF Voice!VoiceInit, VoiceTypeOK, VoiceKey
<1>2. ASSUME NEW n \in Note
      PROVE  NoteOK(n)
  BY DEF Voice!VoiceInit, NoteOK
<1> QED
  BY <1>1, <1>2 DEF VoiceInv

\* A step is about one note; nothing that is said of another one changes but messages of
\* the chat that go.
Spared(m) ==
    /\ note'[m] = note[m] /\ turns'[m] = turns[m] /\ (m \in voiceFiles' <=> m \in voiceFiles)
    /\ <<"voice", m>> \in pending' <=> <<"voice", m>> \in pending
    /\ <<"status", m>> \in pending' <=> <<"status", m>> \in pending
    /\ <<"voice", m>> \in chat' => <<"voice", m>> \in chat
    /\ <<"status", m>> \in chat' => <<"status", m>> \in chat
    /\ <<m, "cancelled">> \in told'.answers <=> <<m, "cancelled">> \in told.answers

\* Whether the note of a step is well, and the types, settles it.
LEMMA OneNote ==
    ASSUME VoiceInv, NEW n \in Note, VoiceTypeOK', NoteOK(n)', \A m \in Note \ {n} : Spared(m)
    PROVE  VoiceInv'
<1>1. ASSUME NEW m \in Note, m # n
      PROVE  NoteOK(m)'
  <2>1. NoteOK(m) /\ Spared(m)
    BY <1>1 DEF VoiceInv
  <2> QED
    BY <2>1 DEF NoteOK, Spared
<1>2. \A m \in Note : NoteOK(m)'
  BY <1>1
<1> QED
  BY <1>2 DEF VoiceInv

LEMMA HeardStep ==
    ASSUME VoiceInv, NEW n \in Note, Voice!Heard(n) \/ Voice!StatusSent(n) \/ Voice!Transcribe(n) \/ Voice!Fails(n)
    PROVE  VoiceInv'
<1>1. PICK to \in {"asked", "refused", "sent", "lost", "transcribing", "failed"} :
        /\ note' = [note EXCEPT ![n] = to]
        /\ to \in {"asked", "refused", "sent", "lost"} => note[n] \in {"new", "asked"}
        /\ to \in {"transcribing", "failed"} => note[n] \in {"loading", "transcribing"}
        /\ chat' = IF to = "sent" THEN chat \union {<<"status", n>>} ELSE chat
        /\ voiceFiles' = IF to = "failed" THEN voiceFiles \ {n} ELSE voiceFiles
        /\ UNCHANGED <<pending, turns, told>>
  BY DEF Voice!Heard, Voice!StatusSent, Voice!Transcribe, Voice!Fails, Voice!Becomes
<1>2. VoiceTypeOK'
  BY <1>1 DEF VoiceInv, VoiceTypeOK, VoiceKey, Voice!Ended
<1>3. note'[n] = to /\ NoteOK(n)
  BY <1>1 DEF VoiceInv, VoiceTypeOK
<1>4. NoteOK(n)'
  <2>1. CASE to \in {"asked", "refused", "sent", "lost"}
    <3>1. <<n, "cancelled">> \notin told.answers /\ <<"voice", n>> \notin pending /\ n \notin voiceFiles
      BY <1>1, <1>3, <2>1 DEF NoteOK
    <3> QED
      BY <1>1, <1>3, <2>1, <3>1 DEF NoteOK
  <2>2. CASE to \in {"transcribing", "failed"}
    BY <1>1, <1>3, <2>2 DEF NoteOK
  <2> QED
    BY <2>1, <2>2
<1>5. \A m \in Note \ {n} : Spared(m)
  BY <1>1 DEF VoiceInv, VoiceTypeOK, Spared
<1> QED
  BY <1>2, <1>4, <1>5, OneNote

LEMMA NoteRegisterStep ==
    ASSUME VoiceInv, NEW n \in Note, Voice!Register(n)
    PROVE  VoiceInv'
<1>1. /\ note[n] = "sent" /\ note' = [note EXCEPT ![n] = "loading"]
      /\ pending' = pending \union {<<"voice", n>>, <<"status", n>>} /\ voiceFiles' = voiceFiles \union {n}
      /\ UNCHANGED <<chat, turns, told>>
  BY DEF Voice!Register, Voice!Becomes, Voice!Keys
<1>2. VoiceTypeOK'
  BY <1>1 DEF VoiceInv, VoiceTypeOK, VoiceKey
<1>3. note'[n] = "loading" /\ NoteOK(n)
  BY <1>1 DEF VoiceInv, VoiceTypeOK
<1>4. NoteOK(n)'
  BY <1>1, <1>3 DEF NoteOK
<1>5. \A m \in Note \ {n} : Spared(m)
  BY <1>1 DEF VoiceInv, VoiceTypeOK, Spared
<1> QED
  BY <1>2, <1>4, <1>5, OneNote

LEMMA TranscribedStep ==
    ASSUME VoiceInv, NEW n \in Note, Voice!Transcribed(n)
    PROVE  VoiceInv'
<1>1. /\ note[n] = "transcribing" /\ voiceFiles' = voiceFiles \ {n} /\ UNCHANGED told
      /\ \/ /\ <<"voice", n>> \in pending /\ note' = [note EXCEPT ![n] = "handed"]
            /\ pending' = pending \ {<<"voice", n>>, <<"status", n>>}
            /\ turns' = [turns EXCEPT ![n] = @ + 1] /\ UNCHANGED chat
         \/ /\ <<"voice", n>> \notin pending /\ note' = [note EXCEPT ![n] = "dropped"]
            /\ chat' = chat \ {<<"status", n>>} /\ UNCHANGED <<pending, turns>>
  BY DEF Voice!Transcribed, Voice!Becomes, Voice!Keys, Voice!StillPending
<1>2. VoiceTypeOK'
  BY <1>1 DEF VoiceInv, VoiceTypeOK, VoiceKey, Voice!Ended
<1>3. NoteOK(n)
  BY DEF VoiceInv
<1>4. NoteOK(n)'
  <2>1. CASE <<"voice", n>> \in pending
    <3>1. note'[n] = "handed" /\ turns'[n] = turns[n] + 1 /\ turns[n] = 0
      BY <1>1, <1>3, <2>1 DEF VoiceInv, VoiceTypeOK, NoteOK
    <3>2. <<"voice", n>> \notin pending' /\ <<"status", n>> \notin pending' /\ n \notin voiceFiles'
      BY <1>1, <2>1
    <3>3. <<n, "cancelled">> \notin told'.answers
      BY <1>1, <1>3, <2>1 DEF NoteOK
    <3> QED
      BY <3>1, <3>2, <3>3 DEF NoteOK
  <2>2. CASE <<"voice", n>> \notin pending
    <3>1. note'[n] = "dropped" /\ turns'[n] = turns[n] /\ UNCHANGED <<pending, told>> /\ n \notin voiceFiles'
      BY <1>1, <2>2 DEF VoiceInv, VoiceTypeOK
    <3>2. <<"voice", n>> \in chat' => <<"voice", n>> \in chat
      BY <1>1
    <3>3. <<"status", n>> \in chat' => <<"status", n>> \in chat
      BY <1>1
    <3> QED
      BY <1>1, <1>3, <2>2, <3>1, <3>2, <3>3 DEF NoteOK
  <2> QED
    BY <2>1, <2>2
<1>5. \A m \in Note \ {n} : Spared(m)
  BY <1>1 DEF VoiceInv, VoiceTypeOK, Spared
<1> QED
  BY <1>2, <1>4, <1>5, OneNote

LEMMA ClearReplyStep ==
    ASSUME VoiceInv, NEW n \in Note, NEW key \in Voice!Keys(n), Voice!ClearReply(key)
    PROVE  VoiceInv'
<1>1. key[2] = n /\ key \in {<<"voice", n>>, <<"status", n>>}
  BY DEF Voice!Keys
<1>2. \/ /\ key \in pending
         /\ pending' = pending \ {<<"voice", n>>, <<"status", n>>} /\ chat' = chat \ {<<"voice", n>>, <<"status", n>>}
         /\ told' = [clears |-> told.clears + 1, answers |-> told.answers \union {<<n, "cancelled">>}]
      \/ key \notin pending /\ UNCHANGED <<pending, chat>> /\ told' = [told EXCEPT !.clears = @ + 1]
  BY <1>1 DEF Voice!ClearReply, Voice!Cancelled, Voice!Keys
<1>3. UNCHANGED <<note, voiceFiles, turns>>
  BY DEF Voice!ClearReply
<1>4. VoiceTypeOK'
  BY <1>2, <1>3 DEF VoiceInv, VoiceTypeOK, VoiceKey
<1>5. NoteOK(n)
  BY DEF VoiceInv
<1>6. told'.answers = IF key \in pending THEN told.answers \union {<<n, "cancelled">>} ELSE told.answers
  <2>1. CASE key \in pending
    BY <1>2, <2>1
  <2>2. CASE key \notin pending
    <3>1. told' = [told EXCEPT !.clears = @ + 1] /\ told \in [clears : Nat, answers : SUBSET (Note \X {"cancelled", "cleared"})]
      BY <1>2, <2>2 DEF VoiceInv, VoiceTypeOK
    <3> QED
      BY <2>2, <3>1
  <2> QED
    BY <2>1, <2>2
<1>7. NoteOK(n)'
  <2>1. CASE key \in pending
    <3>1. note[n] \in {"loading", "transcribing", "failed"}
      BY <1>1, <1>5, <2>1 DEF NoteOK
    <3>2. /\ <<"voice", n>> \notin pending' /\ <<"status", n>> \notin pending'
          /\ <<"voice", n>> \notin chat' /\ <<"status", n>> \notin chat'
          /\ <<n, "cancelled">> \in told'.answers
      BY <1>2, <1>6, <2>1
    <3> QED
      BY <1>3, <1>5, <3>1, <3>2 DEF NoteOK
  <2>2. CASE key \notin pending
    BY <1>2, <1>3, <1>5, <1>6, <2>2 DEF NoteOK
  <2> QED
    BY <2>1, <2>2
<1>8. \A m \in Note \ {n} : Spared(m)
  BY <1>2, <1>3, <1>6 DEF Spared
<1> QED
  BY <1>4, <1>7, <1>8, OneNote

LEMMA ClearAllStep ==
    ASSUME VoiceInv, Voice!ClearAll
    PROVE  VoiceInv'
<1>1. /\ chat' \subseteq chat /\ UNCHANGED <<note, pending, voiceFiles, turns>>
      /\ told' = [clears |-> told.clears + 1,
                  answers |-> told.answers \union {<<n, "cleared">> : n \in {m \in Note : note[m] = "handed"}}]
  BY DEF Voice!ClearAll
<1>2. VoiceTypeOK'
  BY <1>1 DEF VoiceInv, VoiceTypeOK
<1>3. \A n \in Note : <<n, "cancelled">> \in told'.answers <=> <<n, "cancelled">> \in told.answers
  BY <1>1
<1>4. ASSUME NEW n \in Note
      PROVE  NoteOK(n)'
  <2>1. NoteOK(n)
    BY DEF VoiceInv
  <2>2. <<"voice", n>> \in chat' => <<"voice", n>> \in chat
    BY <1>1
  <2>3. <<"status", n>> \in chat' => <<"status", n>> \in chat
    BY <1>1
  <2> QED
    BY <1>1, <1>3, <2>1, <2>2, <2>3 DEF NoteOK
<1> QED
  BY <1>2, <1>4 DEF VoiceInv

LEMMA VoiceStep ==
    ASSUME VoiceInv, Voice!VoiceNext
    PROVE  VoiceInv'
BY HeardStep, NoteRegisterStep, TranscribedStep, ClearReplyStep, ClearAllStep DEF Voice!VoiceNext

LEMMA VoiceStutter ==
    ASSUME VoiceInv, UNCHANGED voice
    PROVE  VoiceInv'
BY DEF voice, VoiceInv, VoiceTypeOK, NoteOK, Voice!Ended
-----------------------------------------------------------------------------
(***************************************************************************)
(* A call of a platform: its attempts are counted, and until it is over    *)
(* what it did was not answered.                                           *)
(***************************************************************************)
CallRecord ==
    [platform : {"telegram", "discord"}, own : BOOLEAN, kind : {"send", "edit", "delete"},
     at : {"queued", "trying", "over"}, attempt : 0..3, again : BOOLEAN,
     markup : BOOLEAN, result : {"none", "id", "raised"},
     last : {"none", "ok", "network", "flood", "other", "gone", "same", "markup", "forbidden"}]
ServiceRecord == [sent : Nat, lost : Nat, text : {"old", "new", "gone"}, calls : Nat]
CallTypeOK == call \in CallRecord /\ service \in ServiceRecord

\* One call of the service for each attempt but the one that is due, and one more for the
\* second chance; while it is tried every message sent is one whose answer was lost.
CallsCounted ==
    /\ call.at = "queued" => call.attempt = 0 /\ service.calls = 0 /\ ~call.again
    /\ call.at = "trying" => call.attempt >= 1 /\ service.calls + 1 <= call.attempt + (IF call.again THEN 1 ELSE 0)
    /\ call.at # "over" => service.sent <= service.lost

CallInv == CallTypeOK /\ CallsCounted /\ Chat!CallsSettle

LEMMA CallStart ==
    ASSUME Chat!CallInit
    PROVE  CallInv
BY DEF Chat!CallInit, CallInv, CallTypeOK, CallRecord, ServiceRecord, CallsCounted, Chat!CallsSettle

\* What is left of a call, and what is new, when it goes on and when it is over.
Became(c, d, where, attempt, again, outcome, last) ==
    /\ d \in CallRecord /\ d.kind = c.kind /\ d.at = where /\ d.attempt = attempt /\ d.again = again
    /\ d.result = outcome /\ d.last = last

LEMMA CallStarted ==
    ASSUME NEW c \in CallRecord, NEW where \in {"queued", "trying", "over"}, NEW attempt \in 0..3, NEW d,
           d = [c EXCEPT !.at = where, !.attempt = attempt]
    PROVE  Became(c, d, where, attempt, c.again, c.result, c.last)
BY DEF CallRecord, Became

LEMMA CallRepeated ==
    ASSUME NEW c \in CallRecord, NEW d, c.attempt < 3, d = [c EXCEPT !.attempt = c.attempt + 1]
    PROVE  Became(c, d, c.at, c.attempt + 1, c.again, c.result, c.last)
BY DEF CallRecord, Became

LEMMA CallGivenAnother ==
    ASSUME NEW c \in CallRecord, NEW d,
           d = [c EXCEPT !.again = TRUE] \/ d = [c EXCEPT !.again = TRUE, !.markup = FALSE]
    PROVE  Became(c, d, c.at, c.attempt, TRUE, c.result, c.last)
BY DEF CallRecord, Became

LEMMA CallOver ==
    ASSUME NEW c \in CallRecord, NEW outcome \in {"none", "id", "raised"},
           NEW last \in {"none", "ok", "network", "flood", "other", "gone", "same", "markup", "forbidden"},
           NEW d, d = [c EXCEPT !.at = "over", !.result = outcome, !.last = last]
    PROVE  Became(c, d, "over", c.attempt, c.again, outcome, last)
BY DEF CallRecord, Became

LEMMA DispatchStep ==
    ASSUME CallInv, Chat!Dispatch
    PROVE  CallInv'
<1>1. /\ call \in CallRecord /\ call.at = "queued" /\ UNCHANGED service
      /\ call' = [call EXCEPT !.at = "trying", !.attempt = 1]
  BY DEF CallInv, CallTypeOK, Chat!Dispatch
<1>2. Became(call, call', "trying", 1, call.again, call.result, call.last)
  <2>1. "trying" \in {"queued", "trying", "over"} /\ 1 \in 0..3
    OBVIOUS
  <2> QED
    BY <1>1, <2>1, CallStarted
<1>3. UNCHANGED service /\ call.at = "queued"
  BY <1>1
<1> QED
  BY <1>2, <1>3 DEF CallInv, CallTypeOK, CallsCounted, Chat!CallsSettle, Became

\* What an attempt may be answered, and what the service has done by then.
Did(answer, after) ==
    /\ after \in ServiceRecord
    /\ after.calls = service.calls + 1
    /\ after.sent <= service.sent + 1
    /\ answer # "ok" => after.sent - after.lost <= service.sent - service.lost
    /\ answer = "ok" => /\ after.lost = service.lost
                        /\ call.kind = "send" => after.sent > 0
                        /\ call.kind = "edit" => after.text = "new"
                        /\ call.kind = "delete" => after.text = "gone"
    /\ answer = "same" => call.kind = "edit" /\ after.text = "new"
    /\ answer \in {"gone", "forbidden"} => call.kind # "send"
    /\ answer = "gone" => after.text = "gone"

\* What a call leaves at the service.
Wrote(s, t, number, text, count) ==
    /\ t \in ServiceRecord /\ t.sent = number /\ t.lost = s.lost /\ t.text = text /\ t.calls = count

LEMMA ServiceWritten ==
    ASSUME NEW s \in ServiceRecord, NEW number \in Nat, NEW count \in Nat, NEW t,
           t = [s EXCEPT !.sent = number, !.calls = count]
    PROVE  Wrote(s, t, number, s.text, count)
BY DEF ServiceRecord, Wrote

LEMMA TextWritten ==
    ASSUME NEW s \in ServiceRecord, NEW text \in {"old", "new", "gone"}, NEW count \in Nat, NEW t,
           t = [s EXCEPT !.text = text, !.calls = count]
    PROVE  Wrote(s, t, s.sent, text, count)
BY DEF ServiceRecord, Wrote

LEMMA Refuses ==
    ASSUME NEW s \in ServiceRecord, NEW t, t = [s EXCEPT !.calls = s.calls + 1]
    PROVE  /\ t \in ServiceRecord /\ t.calls = s.calls + 1 /\ t.lost = s.lost
           /\ t.sent = s.sent /\ t.text = s.text
BY DEF ServiceRecord

LEMMA LosesAnswer ==
    ASSUME NEW s \in ServiceRecord, NEW t, t = [s EXCEPT !.lost = s.lost + 1]
    PROVE  /\ t \in ServiceRecord /\ t.calls = s.calls /\ t.lost = s.lost + 1 /\ t.sent = s.sent
           /\ t.text = s.text
BY DEF ServiceRecord

LEMMA AnswersDid ==
    ASSUME CallInv, NEW a \in Chat!Answers
    PROVE  /\ Did(a[1], a[2])
           /\ a[1] \in {"ok", "network", "flood", "other", "gone", "same", "markup", "forbidden"}
<1>1. call.kind \in {"send", "edit", "delete"} /\ service \in ServiceRecord
  BY DEF CallInv, CallTypeOK, CallRecord
<1>2. /\ service.sent \in Nat /\ service.lost \in Nat /\ service.calls \in Nat
      /\ service.text \in {"old", "new", "gone"}
  BY <1>1 DEF ServiceRecord
<1> PICK refused : refused = Chat!Refused
  OBVIOUS
<1>3. refused = [service EXCEPT !.calls = service.calls + 1]
  BY DEF Chat!Refused
<1>4. /\ refused \in ServiceRecord /\ refused.calls = service.calls + 1 /\ refused.lost = service.lost
      /\ refused.sent = service.sent /\ refused.text = service.text
  BY <1>1, <1>3, Refuses
<1> PICK carried : carried = Chat!Carried
  OBVIOUS
<1>5. \/ call.kind = "send" /\ carried = [service EXCEPT !.sent = service.sent + 1, !.calls = service.calls + 1]
      \/ call.kind = "edit" /\ carried = [service EXCEPT !.text = "new", !.calls = service.calls + 1]
      \/ call.kind = "delete" /\ carried = [service EXCEPT !.text = "gone", !.calls = service.calls + 1]
  BY <1>1 DEF Chat!Carried
<1>6. /\ carried \in ServiceRecord /\ carried.calls = service.calls + 1 /\ carried.lost = service.lost
      /\ carried.sent \in {service.sent, service.sent + 1}
      /\ call.kind = "send" => carried.sent = service.sent + 1
      /\ call.kind = "edit" => carried.text = "new"
      /\ call.kind = "delete" => carried.text = "gone"
  <2>1. PICK number \in Nat, count \in Nat : number = service.sent + 1 /\ count = service.calls + 1
    BY <1>2
  <2>2. CASE call.kind = "send"
    <3>1. carried = [service EXCEPT !.sent = number, !.calls = count]
      BY <1>5, <2>1, <2>2
    <3>2. Wrote(service, carried, number, service.text, count)
      BY <1>1, <3>1, ServiceWritten
    <3> QED
      BY <2>1, <2>2, <3>2 DEF Wrote
  <2>3. ASSUME NEW text \in {"new", "gone"}, carried = [service EXCEPT !.text = text, !.calls = service.calls + 1]
        PROVE  Wrote(service, carried, service.sent, text, count)
    <3>1. carried = [service EXCEPT !.text = text, !.calls = count]
      BY <2>1, <2>3
    <3>2. text \in {"old", "new", "gone"}
      OBVIOUS
    <3> QED
      BY <1>1, <3>1, <3>2, TextWritten
  <2>4. CASE call.kind = "edit"
    <3>1. Wrote(service, carried, service.sent, "new", count)
      BY <1>5, <2>3, <2>4
    <3> QED
      BY <2>1, <2>4, <3>1 DEF Wrote
  <2>5. CASE call.kind = "delete"
    <3>1. Wrote(service, carried, service.sent, "gone", count)
      BY <1>5, <2>3, <2>5
    <3> QED
      BY <2>1, <2>5, <3>1 DEF Wrote
  <2> QED
    BY <1>1, <2>2, <2>4, <2>5
<1> PICK lost : lost = [carried EXCEPT !.lost = carried.lost + 1]
  OBVIOUS
<1>8. /\ lost \in ServiceRecord /\ lost.calls = service.calls + 1 /\ lost.lost = service.lost + 1
      /\ lost.sent \in {service.sent, service.sent + 1}
  <2>1. /\ lost \in ServiceRecord /\ lost.calls = carried.calls /\ lost.lost = carried.lost + 1
        /\ lost.sent = carried.sent
    BY <1>6, LosesAnswer
  <2> QED
    BY <1>6, <2>1
<1>9. \/ a \in {<<"network", refused>>, <<"flood", refused>>, <<"other", refused>>, <<"markup", refused>>}
      \/ a = <<"forbidden", refused>> /\ call.kind # "send"
      \/ a = <<"gone", refused>> /\ call.kind # "send" /\ service.text = "gone"
      \/ a = <<"same", refused>> /\ call.kind = "edit" /\ service.text = "new"
      \/ a \in {<<"ok", carried>>, <<"network", lost>>}
  BY DEF Chat!Answers
<1>10. a[1] \in {"ok", "network", "flood", "other", "gone", "same", "markup", "forbidden"}
  BY <1>9
<1>11. ASSUME NEW answer, answer # "ok", answer \in {"forbidden", "gone", "same"} => call.kind # "send",
               answer = "gone" => service.text = "gone",
               answer = "same" => call.kind = "edit" /\ service.text = "new"
       PROVE  Did(answer, refused)
  <2>1. refused.sent <= service.sent + 1 /\ refused.sent - refused.lost <= service.sent - service.lost
    BY <1>2, <1>4
  <2>2. answer = "same" => call.kind = "edit" /\ refused.text = "new"
    BY <1>4, <1>11
  <2>3. answer = "gone" => refused.text = "gone"
    BY <1>4, <1>11
  <2>4. answer \in {"gone", "forbidden"} => call.kind # "send"
    BY <1>11
  <2> QED
    BY <1>4, <1>11, <2>1, <2>2, <2>3, <2>4 DEF Did
<1>12. Did("ok", carried)
  BY <1>2, <1>6 DEF Did
<1>13. Did("network", lost)
  BY <1>2, <1>8 DEF Did
<1>14. PICK answer, after : answer = a[1] /\ after = a[2]
  OBVIOUS
<1>15. \/ /\ after = refused /\ answer # "ok" /\ (answer \in {"forbidden", "gone", "same"} => call.kind # "send")
          /\ answer = "gone" => service.text = "gone"
          /\ answer = "same" => call.kind = "edit" /\ service.text = "new"
       \/ answer = "ok" /\ after = carried
       \/ answer = "network" /\ after = lost
  BY <1>9, <1>14
<1>16. Did(answer, after)
  <2>1. CASE answer = "ok" /\ after = carried
    BY <1>12, <2>1
  <2>2. CASE answer = "network" /\ after = lost
    BY <1>13, <2>2
  <2> QED
    BY <1>11, <1>15, <2>1, <2>2
<1> QED
  BY <1>10, <1>14, <1>16

LEMMA TryStep ==
    ASSUME CallInv, Chat!Try
    PROVE  CallInv'
<1>1. PICK a \in Chat!Answers :
        /\ service' = a[2]
        /\ IF call.platform = "telegram" THEN Chat!Telegram(a[1]) ELSE Chat!Discord(a[1])
  BY DEF Chat!Try
<1> PICK ans : ans = a[1]
  OBVIOUS
<1>2. Did(ans, service') /\ ans \in {"ok", "network", "flood", "other", "gone", "same", "markup", "forbidden"}
  BY <1>1, AnswersDid
<1>3. call.at = "trying" /\ CallTypeOK /\ CallsCounted
  BY DEF Chat!Try, CallInv
<1>4. call \in CallRecord /\ call.attempt \in 0..3 /\ call.again \in BOOLEAN
  BY <1>3 DEF CallTypeOK, CallRecord
<1>5. ans = "forbidden" => call.kind # "send"
  BY <1>2 DEF Did
<1>6. \/ call' = [call EXCEPT !.at = "over", !.result = IF call.kind = "send" THEN "id" ELSE "none", !.last = "ok"] /\ ans = "ok"
      \/ /\ call' = [call EXCEPT !.at = "over", !.result = "none", !.last = ans]
         /\ ans \in {"gone", "same", "forbidden"} /\ (ans = "forbidden" => call.kind # "send")
      \/ call' = [call EXCEPT !.at = "over", !.result = "raised", !.last = ans] /\ ans # "ok"
      \/ call' = [call EXCEPT !.at = "over", !.result = "raised", !.last = "network"] /\ ans # "ok"
      \/ call' = [call EXCEPT !.attempt = @ + 1] /\ call.attempt < 3 /\ ~call.again /\ ans # "ok"
      \/ call' = [call EXCEPT !.again = TRUE] /\ ~call.again /\ ans # "ok"
      \/ call' = [call EXCEPT !.again = TRUE, !.markup = FALSE] /\ ~call.again /\ ans # "ok"
  <2>1. CASE call.platform = "telegram"
    <3>1. Chat!Telegram(ans)
      BY <1>1, <2>1
    <3> QED
      BY <1>2, <1>5, <3>1 DEF Chat!Telegram, Chat!Returns, Chat!Raises, Chat!Network, Chat!Harmless
  <2>2. CASE call.platform # "telegram"
    <3>1. Chat!Discord(ans)
      BY <1>1, <2>2
    <3> QED
      BY <1>2, <1>5, <3>1 DEF Chat!Discord, Chat!Returns, Chat!Raises
  <2> QED
    BY <2>1, <2>2
<1>7. \/ /\ Became(call, call', "over", call.attempt, call.again, IF call.kind = "send" THEN "id" ELSE "none", "ok")
         /\ ans = "ok"
      \/ Became(call, call', "over", call.attempt, call.again, "none", ans) /\ ans \in {"gone", "same", "forbidden"}
      \/ Became(call, call', "over", call.attempt, call.again, "raised", ans) /\ ans # "ok"
      \/ Became(call, call', "over", call.attempt, call.again, "raised", "network") /\ ans # "ok"
      \/ /\ Became(call, call', "trying", call.attempt + 1, call.again, call.result, call.last)
         /\ call.attempt < 3 /\ ~call.again /\ ans # "ok"
      \/ Became(call, call', "trying", call.attempt, TRUE, call.result, call.last) /\ ~call.again /\ ans # "ok"
  <2>1. CASE call' = [call EXCEPT !.at = "over", !.result = IF call.kind = "send" THEN "id" ELSE "none", !.last = "ok"] /\ ans = "ok"
    <3> PICK value \in {"none", "id", "raised"} : value = IF call.kind = "send" THEN "id" ELSE "none"
      OBVIOUS
    <3>1. Became(call, call', "over", call.attempt, call.again, value, "ok")
      BY <1>4, <2>1, CallOver
    <3> QED
      BY <2>1, <3>1
  <2>2. CASE /\ call' = [call EXCEPT !.at = "over", !.result = "none", !.last = ans]
             /\ ans \in {"gone", "same", "forbidden"}
    <3>1. Became(call, call', "over", call.attempt, call.again, "none", ans)
      BY <1>4, <2>2, CallOver
    <3> QED
      BY <2>2, <3>1
  <2>3. CASE call' = [call EXCEPT !.at = "over", !.result = "raised", !.last = ans] /\ ans # "ok"
    <3>1. Became(call, call', "over", call.attempt, call.again, "raised", ans)
      BY <1>2, <1>4, <2>3, CallOver
    <3> QED
      BY <2>3, <3>1
  <2>4. CASE call' = [call EXCEPT !.at = "over", !.result = "raised", !.last = "network"] /\ ans # "ok"
    <3>1. Became(call, call', "over", call.attempt, call.again, "raised", "network")
      BY <1>4, <2>4, CallOver
    <3> QED
      BY <2>4, <3>1
  <2>5. CASE call' = [call EXCEPT !.attempt = @ + 1] /\ call.attempt < 3 /\ ~call.again /\ ans # "ok"
    <3>1. Became(call, call', "trying", call.attempt + 1, call.again, call.result, call.last)
      BY <1>3, <1>4, <2>5, CallRepeated
    <3> QED
      BY <2>5, <3>1
  <2>6. CASE /\ call' = [call EXCEPT !.again = TRUE] \/ call' = [call EXCEPT !.again = TRUE, !.markup = FALSE]
             /\ ~call.again /\ ans # "ok"
    <3>1. Became(call, call', "trying", call.attempt, TRUE, call.result, call.last)
      BY <1>3, <1>4, <2>6, CallGivenAnother
    <3> QED
      BY <2>6, <3>1
  <2> QED
    BY <1>6, <2>1, <2>2, <2>3, <2>4, <2>5, <2>6
<1>8. service \in ServiceRecord /\ service' \in ServiceRecord /\ call' \in CallRecord
  BY <1>2, <1>3, <1>7 DEF CallTypeOK, Did, Became
<1>9. /\ service.sent \in Nat /\ service.lost \in Nat /\ service.calls \in Nat
      /\ service'.sent \in Nat /\ service'.lost \in Nat /\ service'.calls \in Nat
  BY <1>8 DEF ServiceRecord
<1>10. /\ service'.calls = service.calls + 1 /\ service'.sent <= service.sent + 1
       /\ ans # "ok" => service'.sent - service'.lost <= service.sent - service.lost
       /\ ans = "ok" => service'.lost = service.lost
  BY <1>2 DEF Did
<1>11. /\ call.attempt >= 1 /\ service.calls + 1 <= call.attempt + (IF call.again THEN 1 ELSE 0)
       /\ service.sent <= service.lost
  BY <1>3 DEF CallsCounted
<1>12. CallsCounted'
  <2>1. call'.at # "queued"
    BY <1>7 DEF Became
  <2>2. call'.at = "trying" => call'.attempt >= 1 /\ service'.calls + 1 <= call'.attempt + (IF call'.again THEN 1 ELSE 0)
    BY <1>4, <1>7, <1>9, <1>10, <1>11 DEF Became
  <2>3. call'.at # "over" => service'.sent <= service'.lost
    BY <1>7, <1>9, <1>10, <1>11 DEF Became
  <2> QED
    BY <2>1, <2>2, <2>3 DEF CallsCounted
<1>13. service'.calls <= 3 + 1 /\ service'.sent <= 1 + service'.lost
  BY <1>4, <1>9, <1>10, <1>11
<1>14. call'.result \in {"id", "none"} /\ call'.at = "over" =>
          CASE call'.kind = "send" -> call'.result = "id" /\ service'.sent > 0
            [] call'.kind = "edit" -> service'.text \in {"new", "gone"} \/ call'.last = "forbidden"
            [] OTHER -> service'.text = "gone" \/ call'.last = "forbidden"
  <2>1. call'.kind = call.kind /\ call.kind \in {"send", "edit", "delete"}
    BY <1>4, <1>7 DEF Became, CallRecord
  <2>2. CASE ans = "ok"
    BY <1>2, <1>7, <2>1, <2>2 DEF Did, Became
  <2>3. CASE ans # "ok"
    BY <1>2, <1>7, <2>1, <2>3 DEF Did, Became
  <2> QED
    BY <2>2, <2>3
<1>15. Chat!CallsSettle'
  BY <1>13, <1>14 DEF Chat!CallsSettle
<1> QED
  BY <1>8, <1>12, <1>15 DEF CallInv, CallTypeOK

LEMMA ChatCallStep ==
    ASSUME CallInv, Chat!CallNext
    PROVE  CallInv'
BY DispatchStep, TryStep DEF Chat!CallNext

LEMMA ChatCallStutter ==
    ASSUME CallInv, UNCHANGED chatCalls
    PROVE  CallInv'
BY DEF chatCalls, CallInv, CallTypeOK, CallsCounted, Chat!CallsSettle
-----------------------------------------------------------------------------
(***************************************************************************)
(* The application's life.  As long as no turn changes after a flush, what *)
(* the timers are to save is what there is, and without one the file has   *)
(* it.                                                                     *)
(***************************************************************************)
TurnState == {"new", "accepted", "running", "completed", "error"}
NoBotYet == {"out", "validating", "messaging", "exited"}

ServerType == [at : {"connecting", "up"} \union NoBotYet \union Runtime!Stopping,
               life : Nat, again : BOOLEAN, registry : {"none", "live", "cleaned"}, cut : BOOLEAN]
BotType == [at : {"none", "connecting", "connected", "failed", "stopped"},
            kind : {"none", "telegram", "discord"}, tries : Nat, limiter : BOOLEAN, handler : BOOLEAN]
RunTypeOK ==
    /\ srv \in ServerType /\ bot \in BotType
    /\ turn \in [Turn -> TurnState] /\ disk \in [Turn -> TurnState]
    /\ known \subseteq Turn /\ late \in BOOLEAN
    /\ \A s \in timers : s.saves \in [Turn -> TurnState]

\* There is no bot, and no turn under way, until a server has started it.
NoneBeforeBot ==
    /\ srv.at \in NoBotYet => ~bot.handler /\ \A t \in Turn : turn[t] \notin Runtime!Active
    /\ ~bot.handler => bot.at = "none" /\ (srv.at # "exited" => known = {})
    /\ \A t \in Turn : turn[t] \in Runtime!Active => t \in known

\* A turn as it is in a file that was read, or will be.
AsSaved(saved, t) == turn[t] = saved[t] \/ (saved[t] \in Runtime!Active /\ turn[t] = "error")

NoTimers == NoBotYet \union (Runtime!Stopping \ {"flush"})
InTime ==
    ~late =>
       /\ \A s \in timers : s.life = srv.life /\ s.saves = turn
       /\ srv.at \in NoTimers => timers = {}
       /\ timers # {} => bot.handler
       /\ bot.handler => \A t \in Turn \ known : turn[t] = "new"
       /\ timers = {} => \A t \in Turn : AsSaved(disk, t)
       /\ timers = {} /\ bot.handler => disk = turn

RunInv == RunTypeOK /\ NoneBeforeBot /\ InTime

LEMMA RunStart ==
    ASSUME Runtime!RuntimeInit
    PROVE  RunInv
BY DEF Runtime!RuntimeInit, Runtime!NoBot, Runtime!Unknown, RunInv, RunTypeOK, ServerType, BotType, NoneBeforeBot, InTime,
       NoBotYet, NoTimers, AsSaved, TurnState, Runtime!Active, Runtime!Stopping

\* Where the server goes while the turns stay as they are.
LEMMA OnlyServer ==
    ASSUME RunInv, UNCHANGED <<turn, known, disk, timers, late>>,
           srv' \in ServerType, bot' \in BotType, srv'.life = srv.life,
           bot'.handler = bot.handler, bot.at = "none" => bot'.at = "none",
           srv'.at \in NoBotYet => srv.at \in NoBotYet, srv'.at \in NoTimers => srv.at \in NoTimers,
           srv.at # "exited"
    PROVE  RunInv'
<1>1. RunTypeOK'
  BY DEF RunInv, RunTypeOK
<1>2. NoneBeforeBot'
  BY DEF RunInv, NoneBeforeBot
<1>3. \A t \in Turn : AsSaved(disk, t)' <=> AsSaved(disk, t)
  BY DEF AsSaved
<1>4. InTime'
  BY <1>3 DEF RunInv, InTime
<1> QED
  BY <1>1, <1>2, <1>4 DEF RunInv

LEMMA ServerSteps ==
    ASSUME RunInv, \/ Runtime!Start \/ Runtime!Validated \/ Runtime!Connect \/ Runtime!ConnectsLate
                   \/ \E again \in BOOLEAN : Runtime!Shutdown(again)
                   \/ Runtime!StopPlatform \/ Runtime!StopCli \/ Runtime!Cleanup \/ Runtime!StopLimiter
    PROVE  RunInv'
<1>1. srv \in ServerType /\ bot \in BotType
  BY DEF RunInv, RunTypeOK
<1>2. CASE Runtime!Start \/ Runtime!Validated \/ \E again \in BOOLEAN : Runtime!Shutdown(again)
  BY <1>1, <1>2, OnlyServer DEF Runtime!Start, Runtime!Validated, Runtime!Shutdown, Runtime!Goes, ServerType, NoBotYet, NoTimers,
                                Runtime!Stopping
<1>3. CASE Runtime!StopPlatform \/ Runtime!StopCli \/ Runtime!Cleanup \/ Runtime!StopLimiter
  BY <1>1, <1>3, OnlyServer DEF Runtime!StopPlatform, Runtime!StopCli, Runtime!Cleanup, Runtime!StopLimiter, Runtime!Goes,
                                ServerType, BotType, NoBotYet, NoTimers, Runtime!Stopping
<1>4. CASE Runtime!Connect \/ Runtime!ConnectsLate
  <2>1. /\ UNCHANGED <<turn, known, disk, timers, late>> /\ srv.at \in {"connecting", "up"} \union Runtime!Stopping
        /\ srv' = srv \/ srv' = [srv EXCEPT !.at = "up"]
    BY <1>4 DEF Runtime!Connect, Runtime!ConnectsLate, Runtime!Goes
  <2>2. bot' \in BotType /\ bot'.handler = bot.handler /\ bot.at # "none"
    <3>1. MaxTries \in Nat /\ bot.tries \in Nat
      BY <1>1, RuntimeAssumption DEF BotType
    <3>2. PICK tries \in Nat : tries = bot.tries + 1
      BY <3>1
    <3>3. \/ bot' = [bot EXCEPT !.at = "connected"] /\ bot.at = "connecting"
          \/ bot' = [bot EXCEPT !.limiter = TRUE] /\ bot.at = "connected"
          \/ bot' = [bot EXCEPT !.tries = tries] /\ bot.at = "connecting"
          \/ bot' = [bot EXCEPT !.tries = MaxTries] /\ bot.at = "connecting"
          \/ bot' = [bot EXCEPT !.at = "failed"] /\ bot.at = "connecting"
      BY <1>4, <3>2 DEF Runtime!Connect, Runtime!ConnectsLate
    <3> QED
      BY <1>1, <3>1, <3>3 DEF BotType
  <2>3. srv' \in ServerType /\ srv'.life = srv.life /\ srv'.at \in {srv.at, "up"}
    BY <1>1, <2>1 DEF ServerType
  <2>4. srv.at \notin NoBotYet /\ srv'.at \notin NoBotYet /\ (srv'.at \in NoTimers => srv.at \in NoTimers)
    BY <2>1, <2>3 DEF NoBotYet, NoTimers, Runtime!Stopping
  <2>5. srv.at # "exited"
    BY <2>4 DEF NoBotYet
  <2> QED
    BY <2>1, <2>2, <2>3, <2>4, <2>5, OnlyServer
<1> QED
  BY <1>2, <1>3, <1>4

\* A start without a bot changes nothing more; one with a bot takes the turns from the file,
\* as errors if they were under way.
LEMMA StartMessagingStep ==
    ASSUME RunInv, Runtime!StartMessaging
    PROVE  RunInv'
<1>1. /\ srv.at = "messaging" /\ UNCHANGED <<timers, late>> /\ RunTypeOK /\ NoneBeforeBot /\ InTime /\ ~bot.handler
      /\ bot.at = "none" /\ known = {}
  BY DEF Runtime!StartMessaging, RunInv, NoneBeforeBot, NoBotYet
<1>2. CASE Runtime!Goes("up") /\ bot' = Runtime!NoBot /\ UNCHANGED <<turn, known, disk>>
  BY <1>1, <1>2, OnlyServer DEF Runtime!Goes, Runtime!NoBot, RunTypeOK, ServerType, BotType, NoBotYet, NoTimers, Runtime!Stopping
<1>3. CASE \E kind \in {"telegram", "discord"} :
             /\ Runtime!Goes("connecting") /\ Runtime!Restore
             /\ bot' = [at |-> "connecting", kind |-> kind, tries |-> 0, limiter |-> kind = "discord", handler |-> TRUE]
  <2>1. PICK kind \in {"telegram", "discord"} :
             bot' = [at |-> "connecting", kind |-> kind, tries |-> 0, limiter |-> kind = "discord", handler |-> TRUE]
    BY <1>3
  <2>2. srv' = [srv EXCEPT !.at = "connecting"]
    BY <1>3 DEF Runtime!Goes
  <2>3. /\ known' = {t \in Turn : disk[t] # "new"}
        /\ disk' = [t \in Turn |-> IF disk[t] \in Runtime!Active THEN "error" ELSE disk[t]]
        /\ turn' = [t \in Turn |-> IF disk[t] # "new" THEN disk'[t] ELSE turn[t]]
    BY <1>3 DEF Runtime!Restore, Runtime!Restored, Runtime!Stale, Runtime!Unknown
  <2>4. bot' \in BotType
    BY <2>1 DEF BotType
  <2>5. RunTypeOK'
    BY <1>1, <2>2, <2>3, <2>4 DEF RunTypeOK, ServerType, TurnState
  <2>6. \A t \in Turn : turn'[t] \notin Runtime!Active
    BY <1>1, <2>3 DEF NoneBeforeBot, NoBotYet, Runtime!Active
  <2>7. NoneBeforeBot'
    BY <2>1, <2>2, <2>6, <1>1 DEF NoneBeforeBot, RunTypeOK, ServerType, NoBotYet
  <2>8. ~late => timers = {} /\ \A t \in Turn : AsSaved(disk, t)
    BY <1>1 DEF InTime, NoTimers, NoBotYet
  <2>9. ~late => \A t \in Turn : disk[t] = "new" => turn[t] = "new"
    BY <2>8 DEF AsSaved, Runtime!Active
  <2>10. ~late => disk' = turn'
    BY <2>3, <2>9, <1>1 DEF RunTypeOK, Runtime!Active
  <2>11. ~late => \A t \in Turn \ known' : turn'[t] = "new"
    BY <2>3, <2>9
  <2>12. InTime'
    BY <1>1, <2>1, <2>8, <2>10, <2>11 DEF InTime, AsSaved
  <2> QED
    BY <2>5, <2>7, <2>12 DEF RunInv
<1> QED
  BY <1>2, <1>3 DEF Runtime!StartMessaging

\* A turn changes: a timer is set for all of them.
LEMMA TurnChanges ==
    ASSUME RunInv, bot.handler, srv.at # "down", srv.at # "exited", NEW t \in Turn, NEW to \in TurnState \ {"new"},
           UNCHANGED <<srv, bot, disk>>, known' = known \union {t},
           turn' = [turn EXCEPT ![t] = to],
           timers' = {s \in timers : s.life # srv.life}
                        \union {[life |-> srv.life, saves |-> [u \in Turn |-> IF u \in known' THEN turn'[u] ELSE "new"]]},
           late' = (late \/ srv.at \in Runtime!Stopping \ {"flush"})
    PROVE  RunInv'
<1>1. RunTypeOK /\ NoneBeforeBot /\ InTime
  BY DEF RunInv
<1> DEFINE saves == [u \in Turn |-> IF u \in known' THEN turn'[u] ELSE "new"]
<1>2. turn' \in [Turn -> TurnState] /\ saves \in [Turn -> TurnState] /\ late' \in BOOLEAN
  BY <1>1 DEF RunTypeOK, TurnState
<1>3. RunTypeOK'
  BY <1>1, <1>2 DEF RunTypeOK
<1>4. srv.at \notin NoBotYet
  BY <1>1 DEF NoneBeforeBot
<1>5. NoneBeforeBot'
  BY <1>1, <1>4 DEF NoneBeforeBot, RunTypeOK
<1>6. ASSUME ~late'
      PROVE  ~late /\ srv.at \notin NoTimers
  BY <1>1, <1>4, <1>6 DEF RunTypeOK, NoTimers
<1>7. ASSUME ~late'
      PROVE  /\ \A u \in Turn \ known' : turn'[u] = "new"
             /\ saves = turn' /\ timers' = {[life |-> srv.life, saves |-> saves]}
  <2>1. \A u \in Turn \ known' : turn'[u] = "new"
    BY <1>1, <1>6, <1>7 DEF InTime, RunTypeOK
  <2>2. saves = turn'
    BY <1>2, <2>1
  <2>3. {s \in timers : s.life # srv.life} = {}
    BY <1>1, <1>6, <1>7 DEF InTime
  <2> QED
    BY <2>1, <2>2, <2>3
<1>8. ASSUME ~late'
      PROVE  /\ \A s \in timers' : s.life = srv'.life /\ s.saves = turn'
             /\ timers' # {}
  <2>1. PICK s : s = [life |-> srv.life, saves |-> saves]
    OBVIOUS
  <2>2. timers' = {s} /\ s.life = srv.life /\ s.saves = turn' /\ srv' = srv
    BY <1>7, <1>8, <2>1
  <2> QED
    BY <2>2
<1>9. ~late' => srv'.at \notin NoTimers
  BY <1>6
<1> HIDE DEF saves
<1>10. InTime'
  BY <1>7, <1>8, <1>9 DEF InTime
<1> QED
  BY <1>3, <1>5, <1>10 DEF RunInv

LEMMA AcceptStep ==
    ASSUME RunInv, NEW t \in Turn, Runtime!Accept(t)
    PROVE  RunInv'
<1>1. /\ bot.handler /\ srv.at # "down" /\ srv.at # "exited"
  BY DEF Runtime!Accept, RunInv, NoneBeforeBot, NoBotYet
<1> QED
  BY <1>1, TurnChanges DEF Runtime!Accept, Runtime!Unknown, TurnState

LEMMA WorkStep ==
    ASSUME RunInv, NEW t \in Turn, Runtime!Work(t)
    PROVE  RunInv'
<1>1. /\ t \in known /\ turn[t] \in Runtime!Active /\ srv.at # "down" /\ UNCHANGED <<srv, bot, known, disk>>
      /\ Runtime!Changes(t, "running") \/ Runtime!Changes(t, "completed")
  BY DEF Runtime!Work, Runtime!Active
<1>2. srv.at # "exited" /\ bot.handler
  BY <1>1 DEF RunInv, NoneBeforeBot, NoBotYet
<1>3. known' = known \union {t}
  BY <1>1
<1>4. PICK to \in {"running", "completed"} : Runtime!Changes(t, to)
  BY <1>1
<1>5. timers' = {s \in timers : s.life # srv.life}
                    \union {[life |-> srv.life, saves |-> [u \in Turn |-> IF u \in known' THEN turn'[u] ELSE "new"]]}
  BY <1>1, <1>4 DEF Runtime!Changes, Runtime!Snapshot, Runtime!Unknown
<1> QED
  BY <1>1, <1>2, <1>3, <1>4, <1>5, TurnChanges DEF Runtime!Changes, TurnState

LEMMA SaveStep ==
    ASSUME RunInv, NEW s \in timers, Runtime!Save(s)
    PROVE  RunInv'
<1>1. /\ disk' = s.saves /\ timers' = timers \ {s} /\ UNCHANGED <<srv, bot, turn, known, late>>
      /\ RunTypeOK /\ NoneBeforeBot /\ InTime
  BY DEF Runtime!Save, RunInv
<1>2. RunTypeOK' /\ NoneBeforeBot'
  BY <1>1 DEF RunTypeOK, NoneBeforeBot
<1>3. ~late => disk' = turn
  BY <1>1 DEF InTime
<1>4. InTime'
  BY <1>1, <1>3 DEF InTime, AsSaved
<1> QED
  BY <1>1, <1>2, <1>4 DEF RunInv

LEMMA FlushStep ==
    ASSUME RunInv, Runtime!Flush
    PROVE  RunInv'
<1>1. /\ srv.at = "flush" /\ srv' = [srv EXCEPT !.at = "platform"] /\ timers' = {s \in timers : s.life # srv.life}
      /\ disk' = (IF \E s \in timers : s.life = srv.life THEN Runtime!Snapshot(turn) ELSE disk)
      /\ UNCHANGED <<bot, turn, known, late>> /\ RunTypeOK /\ NoneBeforeBot /\ InTime
  BY DEF Runtime!Flush, Runtime!Flushed, Runtime!Goes, RunInv
<1>2. Runtime!Snapshot(turn) \in [Turn -> TurnState]
  BY <1>1 DEF RunTypeOK, Runtime!Snapshot, Runtime!Unknown, TurnState
<1>3. srv' \in ServerType /\ srv'.at = "platform" /\ srv'.life = srv.life
  BY <1>1 DEF RunTypeOK, ServerType, Runtime!Stopping
<1>4. RunTypeOK'
  BY <1>1, <1>2, <1>3 DEF RunTypeOK
<1>5. NoneBeforeBot'
  BY <1>1, <1>3 DEF NoneBeforeBot, NoBotYet
<1>6. ASSUME ~late
      PROVE  timers' = {} /\ (timers # {} => disk' = turn /\ bot.handler) /\ (timers = {} => disk' = disk)
  <2>1. \A s \in timers : s.life = srv.life
    BY <1>1, <1>6 DEF InTime
  <2>2. bot.handler => Runtime!Snapshot(turn) = turn
    BY <1>1, <1>6 DEF InTime, RunTypeOK, Runtime!Snapshot, Runtime!Unknown
  <2>3. timers # {} => bot.handler
    BY <1>1, <1>6 DEF InTime
  <2> QED
    BY <1>1, <2>1, <2>2, <2>3
<1>7. ~late => \A t \in Turn : AsSaved(disk', t)
  BY <1>1, <1>6 DEF InTime, AsSaved
<1>8. InTime'
  BY <1>1, <1>3, <1>6, <1>7 DEF InTime, AsSaved
<1> QED
  BY <1>4, <1>5, <1>8 DEF RunInv

\* The loop's end makes errors of the turns under way, in memory only.
LEMMA EndsStep ==
    ASSUME RunInv, Runtime!Ends
    PROVE  RunInv'
<1>1. /\ srv.at = "down" /\ bot' = Runtime!NoBot /\ UNCHANGED <<disk, late>>
      /\ turn' = [t \in Turn |-> IF turn[t] \in Runtime!Active THEN "error" ELSE turn[t]]
      /\ \/ srv' = [srv EXCEPT !.at = "out", !.life = @ + 1] /\ known' = {} /\ UNCHANGED timers
         \/ srv' = [srv EXCEPT !.at = "exited"] /\ timers' = {} /\ UNCHANGED known
      /\ RunTypeOK /\ NoneBeforeBot /\ InTime
  BY DEF Runtime!Ends, Runtime!Goes, RunInv
<1>2. srv' \in ServerType /\ srv'.at \in {"out", "exited"} /\ (srv'.at = "out" => known' = {})
  <2>1. srv \in ServerType /\ srv.life \in Nat
    BY <1>1 DEF RunTypeOK, ServerType
  <2>2. PICK life \in Nat : life = srv.life + 1
    BY <2>1
  <2>3. \/ srv' = [srv EXCEPT !.at = "out", !.life = life] /\ known' = {}
        \/ srv' = [srv EXCEPT !.at = "exited"]
    BY <1>1, <2>2
  <2>4. "out" \in NoBotYet /\ "exited" \in NoBotYet
    BY DEF NoBotYet
  <2> QED
    BY <2>1, <2>2, <2>3, <2>4 DEF ServerType
<1>3. bot' \in BotType /\ ~bot'.handler /\ bot'.at = "none"
  BY <1>1 DEF Runtime!NoBot, BotType
<1>4. turn' \in [Turn -> TurnState] /\ \A t \in Turn : turn'[t] \notin Runtime!Active
  BY <1>1 DEF RunTypeOK, TurnState, Runtime!Active
<1>5. RunTypeOK'
  BY <1>1, <1>2, <1>3, <1>4 DEF RunTypeOK
<1>6. NoneBeforeBot'
  BY <1>2, <1>3, <1>4 DEF NoneBeforeBot
<1>7. ~late => timers = {} /\ timers' = {} /\ \A t \in Turn : AsSaved(disk, t)
  BY <1>1 DEF InTime, NoTimers, Runtime!Stopping
<1>8. ~late => \A t \in Turn : AsSaved(disk, t)'
  BY <1>1, <1>7 DEF AsSaved
<1>9. InTime'
  BY <1>1, <1>3, <1>7, <1>8 DEF InTime
<1> QED
  BY <1>5, <1>6, <1>9 DEF RunInv

LEMMA RunStep ==
    ASSUME RunInv, Runtime!RuntimeNext
    PROVE  RunInv'
BY ServerSteps, StartMessagingStep, AcceptStep, WorkStep, SaveStep, FlushStep, EndsStep DEF Runtime!RuntimeNext

LEMMA RunStutter ==
    ASSUME RunInv, UNCHANGED runtime
    PROVE  RunInv'
BY DEF runtime, RunInv, RunTypeOK, NoneBeforeBot, InTime, AsSaved

LEMMA RunSafe ==
    ASSUME RunInv
    PROVE  Runtime!RuntimeSound
BY DEF RunInv, NoneBeforeBot, InTime, NoTimers, NoBotYet, AsSaved, Runtime!RuntimeSound
-----------------------------------------------------------------------------
(***************************************************************************)
(* The debugger's queue.  A task that was not captured has no file, one    *)
(* that was has its file in one directory until the agent that was shown   *)
(* it removes it, and what was shown has been written.  A live lock that a *)
(* hook is about to remove was taken since the hook read it.               *)
(***************************************************************************)
HookType == [phase : {"idle", "write", "format", "lock", "read", "unlink", "pop", "scan", "flush"},
             task : Task \union {Debugger!NoTask}, left : SUBSET Task]

HooksOK ==
    /\ hook \in [Hook -> HookType]
    /\ \A h \in Hook : /\ hook[h].phase \in {"write", "format"} => hook[h].task \in Task
                       /\ hook[h].phase = "scan" => hook[h].left # {}

InOneDirectory == {{"pending"}, {"skipped"}, {"failed"}}

DebuggerTypeOK ==
    /\ place \in [Task -> SUBSET Debugger!Dirs] /\ whole \in [Task -> BOOLEAN] /\ order \in [Task -> Nat]
    /\ old \subseteq Task /\ notices \subseteq Task
    /\ HooksOK /\ IsFiniteSet(Debugger!Captured)

FilesOK ==
    \A t \in Task :
       /\ order[t] = 0 => place[t] = {} /\ t \notin notices
       /\ order[t] > 0 => place[t] \in InOneDirectory \/ (place[t] = {} /\ t \in notices)

ShownOK == \A t \in notices : whole[t] /\ (place[t] = {"failed"} => t \in old)

QueueInv == DebuggerTypeOK /\ FilesOK /\ ShownOK

LEMMA QueueSafe ==
    ASSUME QueueInv
    PROVE  Debugger!TaskKept /\ Debugger!ShownTasksStay
<1>1. \A d : Cardinality({d}) = 1
  BY FS_Singleton
<1>2. \A t \in Debugger!Captured : Cardinality(place[t]) = 1 \/ (place[t] = {} /\ t \in notices)
  BY <1>1 DEF QueueInv, FilesOK, Debugger!Captured, InOneDirectory
<1>3. Debugger!TaskKept
  BY <1>2 DEF Debugger!TaskKept, Debugger!Cardinality, Cardinality
<1>4. Debugger!ShownTasksStay
  BY DEF QueueInv, ShownOK, Debugger!ShownTasksStay
<1> QED
  BY <1>3, <1>4

LEMMA QueueStart ==
    ASSUME Debugger!QueueInit
    PROVE  QueueInv
<1>1. /\ place = [t \in Task |-> {}] /\ whole = [t \in Task |-> FALSE] /\ old = {}
      /\ order = [t \in Task |-> 0] /\ hook = [h \in Hook |-> Debugger!Waiting] /\ notices = {}
  BY DEF Debugger!QueueInit
<1>2. Debugger!Captured = {}
  BY <1>1 DEF Debugger!Captured
<1>3. HooksOK
  BY <1>1 DEF HooksOK, HookType, Debugger!Waiting
<1>4. DebuggerTypeOK
  BY <1>1, <1>2, <1>3, FS_EmptySet DEF DebuggerTypeOK, Debugger!Dirs
<1> QED
  BY <1>1, <1>4 DEF QueueInv, FilesOK, ShownOK

\* A hook becomes what it may be.
LEMMA HookBecomes ==
    ASSUME HooksOK, NEW h \in Hook,
           NEW p \in {"idle", "write", "format", "lock", "read", "unlink", "pop", "scan", "flush"},
           NEW t \in Task \union {Debugger!NoTask}, NEW l \in SUBSET Task,
           p \in {"write", "format"} => t \in Task, p = "scan" => l # {},
           Debugger!Become(h, p, t, l)
    PROVE  HooksOK'
<1> DEFINE new == [phase |-> p, task |-> t, left |-> l]
<1>1. new \in HookType /\ new.phase = p /\ new.task = t /\ new.left = l
  BY DEF HookType
<1>2. hook' = [hook EXCEPT ![h] = new]
  BY DEF Debugger!Become
<1> HIDE DEF new
<1>3. hook' \in [Hook -> HookType] /\ \A g \in Hook : hook'[g] = IF g = h THEN new ELSE hook[g]
  BY <1>1, <1>2 DEF HooksOK
<1> QED
  BY <1>1, <1>3 DEF HooksOK

\* A file is moved only out of pending/, which only an old one leaves for failed/ once shown.
LEMMA FileMoves ==
    ASSUME QueueInv, NEW t \in Task, NEW d \in {"skipped", "failed"},
           place' = Debugger!Moved(t, d), d = "failed" => t \in old \/ ~whole[t],
           HooksOK', UNCHANGED <<whole, old, order, notices>>
    PROVE  QueueInv'
<1>1. place' = [place EXCEPT ![t] = IF place[t] = {"pending"} THEN {d} ELSE place[t]]
  BY DEF Debugger!Moved
<1>2. place \in [Task -> SUBSET Debugger!Dirs] /\ {d} \in SUBSET Debugger!Dirs
  BY DEF QueueInv, DebuggerTypeOK, Debugger!Dirs
<1>3. /\ place' \in [Task -> SUBSET Debugger!Dirs]
      /\ place'[t] = IF place[t] = {"pending"} THEN {d} ELSE place[t]
      /\ \A u \in Task \ {t} : place'[u] = place[u]
  BY <1>1, <1>2
<1>4. Debugger!Captured' = Debugger!Captured
  BY DEF Debugger!Captured
<1>5. DebuggerTypeOK'
  BY <1>3, <1>4 DEF QueueInv, DebuggerTypeOK
<1>6. place[t] = {"pending"} => place[t] # {}
  OBVIOUS
<1>7. FilesOK'
  BY <1>3, <1>6 DEF QueueInv, FilesOK, InOneDirectory
<1>8. place'[t] = {"failed"} => place[t] = {"failed"} \/ t \in old \/ ~whole[t]
  BY <1>3
<1>9. ShownOK'
  BY <1>3, <1>8 DEF QueueInv, DebuggerTypeOK, ShownOK
<1> QED
  BY <1>5, <1>7, <1>9 DEF QueueInv

\* Steps that leave the files alone.
LEMMA FilesLeft ==
    ASSUME QueueInv, HooksOK', UNCHANGED <<place, whole, old, order, notices>>
    PROVE  QueueInv'
<1>1. Debugger!Captured' = Debugger!Captured
  BY DEF Debugger!Captured
<1> QED
  BY <1>1 DEF QueueInv, DebuggerTypeOK, FilesOK, ShownOK

LEMMA OldestIsThere ==
    ASSUME order \in [Task -> Nat], NEW S \in SUBSET Task, S # {}
    PROVE  Debugger!Oldest(S) \in S
<1> DEFINE T == {order[u] : u \in S}
<1>1. T \subseteq Nat /\ T # {}
  OBVIOUS
<1>2. \E x \in T : \A y \in T : x <= y
  <2> HIDE DEF T
  <2> QED
    BY <1>1, LeastNatural
<1>3. \E t \in S : \A u \in S : order[t] <= order[u]
  BY <1>2
<1> QED
  BY <1>3 DEF Debugger!Oldest

LEMMA QueueStep ==
    ASSUME QueueInv, Debugger!QueueNext
    PROVE  QueueInv'
<1> USE DEF Debugger!NoTask
<1>1. ASSUME NEW h \in Hook, NEW t \in Task, Debugger!Capture(h, t)
      PROVE  QueueInv'
  <2>1. /\ order[t] = 0 /\ order' = [order EXCEPT ![t] = 1 + Debugger!Cardinality(Debugger!Captured)]
        /\ place' = [place EXCEPT ![t] = {"pending"}] /\ Debugger!Become(h, "write", t, {})
        /\ UNCHANGED <<whole, old, notices>>
    BY <1>1 DEF Debugger!Capture
  <2>2. HooksOK'
    BY <2>1, HookBecomes DEF QueueInv, DebuggerTypeOK
  <2>3. PICK n \in Nat : n = Debugger!Cardinality(Debugger!Captured)
    BY FS_CardinalityType DEF QueueInv, DebuggerTypeOK, Debugger!Cardinality, Cardinality
  <2>4. /\ order' \in [Task -> Nat] /\ order'[t] = 1 + n
        /\ \A u \in Task \ {t} : order'[u] = order[u]
    BY <2>1, <2>3 DEF QueueInv, DebuggerTypeOK
  <2>5. /\ place' \in [Task -> SUBSET Debugger!Dirs] /\ place'[t] = {"pending"}
        /\ \A u \in Task \ {t} : place'[u] = place[u]
    BY <2>1 DEF QueueInv, DebuggerTypeOK, Debugger!Dirs
  <2>6. order'[t] > 0
    BY <2>3, <2>4
  <2>7. Debugger!Captured' = Debugger!Captured \union {t}
    BY <2>4, <2>6 DEF Debugger!Captured
  <2>8. IsFiniteSet(Debugger!Captured')
    BY <2>7, FS_AddElement DEF QueueInv, DebuggerTypeOK
  <2>9. DebuggerTypeOK'
    BY <2>1, <2>2, <2>4, <2>5, <2>8 DEF QueueInv, DebuggerTypeOK
  <2>10. FilesOK'
    <3>1. order'[t] # 0
      BY <2>3, <2>4
    <3> QED
      BY <2>1, <2>4, <2>5, <3>1 DEF QueueInv, FilesOK, InOneDirectory
  <2>11. ShownOK'
    BY <2>1, <2>5 DEF QueueInv, FilesOK, ShownOK
  <2> QED
    BY <2>9, <2>10, <2>11 DEF QueueInv
<1>2. ASSUME NEW h \in Hook, Debugger!Write(h)
      PROVE  QueueInv'
  <2>1. PICK t \in Task : t = hook[h].task
    BY <1>2 DEF Debugger!Write, QueueInv, DebuggerTypeOK, HooksOK
  <2>2. /\ whole' = [whole EXCEPT ![t] = TRUE] /\ Debugger!Become(h, "format", t, {})
        /\ UNCHANGED <<place, old, order, notices>>
    BY <1>2, <2>1 DEF Debugger!Write
  <2>3. HooksOK'
    BY <2>2, HookBecomes DEF QueueInv, DebuggerTypeOK
  <2>4. whole' \in [Task -> BOOLEAN] /\ \A u \in Task : whole[u] => whole'[u]
    BY <2>2, Zenon DEF QueueInv, DebuggerTypeOK
  <2>5. Debugger!Captured' = Debugger!Captured
    BY <2>2 DEF Debugger!Captured
  <2>6. DebuggerTypeOK'
    BY <2>2, <2>3, <2>4, <2>5 DEF QueueInv, DebuggerTypeOK
  <2>7. FilesOK'
    BY <2>2 DEF QueueInv, FilesOK
  <2>8. ShownOK'
    BY <2>2, <2>4, Zenon DEF QueueInv, DebuggerTypeOK, ShownOK
  <2> QED
    BY <2>6, <2>7, <2>8 DEF QueueInv
<1>3. ASSUME NEW h \in Hook,
             Debugger!SeeQueue(h) \/ Debugger!SeeLock(h) \/ Debugger!ReadLock(h) \/ Debugger!ReleaseLock(h)
      PROVE  QueueInv'
  <2>1. /\ \/ Debugger!Become(h, "lock", Debugger!NoTask, {}) \/ Debugger!Become(h, "read", Debugger!NoTask, {})
           \/ Debugger!Become(h, "unlink", Debugger!NoTask, {}) \/ Debugger!Become(h, "pop", Debugger!NoTask, {})
           \/ Debugger!Become(h, "idle", Debugger!NoTask, {})
        /\ UNCHANGED <<place, whole, old, order, notices>>
    BY <1>3 DEF Debugger!SeeQueue, Debugger!SeeLock, Debugger!ReadLock, Debugger!ReleaseLock
  <2>2. HooksOK'
    BY <2>1, HookBecomes, SMTT(20) DEF QueueInv, DebuggerTypeOK
  <2> QED
    BY <2>1, <2>2, FilesLeft
<1>4. ASSUME NEW h \in Hook, Debugger!ListPending(h)
      PROVE  QueueInv'
  <2>1. Debugger!Pending \in SUBSET Task
    BY DEF Debugger!Pending
  <2>2. \/ Debugger!Become(h, "idle", Debugger!NoTask, {})
        \/ Debugger!Pending # {} /\ Debugger!Become(h, "scan", Debugger!NoTask, Debugger!Pending)
    BY <1>4 DEF Debugger!ListPending
  <2>3. HooksOK'
    <3> HIDE DEF Debugger!NoTask
    <3> QED
      BY <2>1, <2>2, HookBecomes DEF QueueInv, DebuggerTypeOK
  <2> QED
    BY <1>4, <2>3, FilesLeft DEF Debugger!ListPending
<1>5. ASSUME NEW h \in Hook, Debugger!PopOldest(h)
      PROVE  QueueInv'
  <2>1. PICK l \in SUBSET Task : l = hook[h].left
    BY DEF QueueInv, DebuggerTypeOK, HooksOK, HookType
  <2>2. PICK t \in l : t = Debugger!Oldest(l)
    BY <1>5, <2>1, OldestIsThere DEF Debugger!PopOldest, QueueInv, DebuggerTypeOK, HooksOK
  <2>3. UNCHANGED <<whole, old, order, notices>>
    BY <1>5 DEF Debugger!PopOldest
  <2>4. \/ Debugger!Become(h, "idle", Debugger!NoTask, {}) /\ UNCHANGED place
        \/ t \in old /\ place' = Debugger!Moved(t, "failed") /\ Debugger!Become(h, "idle", Debugger!NoTask, {})
        \/ /\ t \in old /\ place' = Debugger!Moved(t, "failed") /\ l # {t}
           /\ Debugger!Become(h, "scan", Debugger!NoTask, l \ {t})
        \/ Debugger!Become(h, "format", t, {}) /\ UNCHANGED place
    BY <1>5, <2>1, <2>2 DEF Debugger!PopOldest
  <2>5. HooksOK'
    <3>1. l \ {t} \in SUBSET Task /\ (l # {t} => l \ {t} # {}) /\ t \in Task
      BY <2>2
    <3>2. CASE Debugger!Become(h, "idle", Debugger!NoTask, {}) \/ Debugger!Become(h, "format", t, {})
      BY <3>1, <3>2, HookBecomes DEF QueueInv, DebuggerTypeOK
    <3>3. CASE l # {t} /\ Debugger!Become(h, "scan", Debugger!NoTask, l \ {t})
      <4>1. PICK left \in SUBSET Task : left = l \ {t} /\ left # {}
        BY <3>1, <3>3
      <4> QED
        BY <3>3, <4>1, HookBecomes DEF QueueInv, DebuggerTypeOK
    <3> QED
      BY <2>4, <3>2, <3>3
  <2> QED
    BY <2>2, <2>3, <2>4, <2>5, FilesLeft, FileMoves
<1>6. ASSUME NEW h \in Hook, Debugger!Format(h)
      PROVE  QueueInv'
  <2>1. PICK t \in Task : t = hook[h].task
    BY <1>6 DEF Debugger!Format, QueueInv, DebuggerTypeOK, HooksOK
  <2>2. /\ place' = IF Debugger!Readable(t) THEN place ELSE Debugger!Moved(t, "failed")
        /\ notices' = IF Debugger!Readable(t) THEN notices \union {t} ELSE notices
        /\ Debugger!Become(h, "idle", Debugger!NoTask, {}) /\ UNCHANGED <<whole, old, order>>
    BY <1>6, <2>1 DEF Debugger!Format
  <2>3. HooksOK'
    BY <2>2, HookBecomes DEF QueueInv, DebuggerTypeOK
  <2>4. CASE Debugger!Readable(t)
    <3>1. place[t] = {"pending"} /\ whole[t] /\ UNCHANGED place /\ notices' = notices \union {t}
      BY <2>2, <2>4 DEF Debugger!Readable
    <3>2. order[t] # 0
      BY <3>1 DEF QueueInv, FilesOK
    <3>3. Debugger!Captured' = Debugger!Captured
      BY <2>2 DEF Debugger!Captured
    <3>4. DebuggerTypeOK'
      BY <2>2, <2>3, <3>1, <3>3 DEF QueueInv, DebuggerTypeOK
    <3>5. FilesOK'
      BY <2>2, <3>1, <3>2 DEF QueueInv, FilesOK
    <3>6. place[t] # {"failed"}
      BY <3>1
    <3>7. ShownOK'
      BY <2>2, <3>1, <3>6 DEF QueueInv, ShownOK
    <3> QED
      BY <3>4, <3>5, <3>7 DEF QueueInv
  <2>5. CASE ~Debugger!Readable(t) /\ whole[t]
    <3>1. place' = place /\ UNCHANGED notices
      <4>1. place[t] # {"pending"}
        BY <2>5 DEF Debugger!Readable
      <4>2. place' = [place EXCEPT ![t] = place[t]]
        BY <2>2, <2>5, <4>1 DEF Debugger!Moved
      <4> QED
        BY <2>2, <2>5, <4>2 DEF QueueInv, DebuggerTypeOK
    <3> QED
      BY <2>2, <2>3, <3>1, FilesLeft
  <2>6. CASE ~Debugger!Readable(t) /\ ~whole[t]
    BY <2>2, <2>3, <2>6, FileMoves
  <2> QED
    BY <2>4, <2>5, <2>6
<1>7. ASSUME NEW h \in Hook, Debugger!FlushBegins(h)
      PROVE  QueueInv'
  <2>1. Debugger!Pending \in SUBSET Task
    BY DEF Debugger!Pending
  <2>2. HooksOK'
    BY <1>7, <2>1, HookBecomes DEF Debugger!FlushBegins, QueueInv, DebuggerTypeOK
  <2> QED
    BY <1>7, <2>2, FilesLeft DEF Debugger!FlushBegins
<1>8. ASSUME NEW h \in Hook, Debugger!FlushOne(h)
      PROVE  QueueInv'
  <2>1. PICK l \in SUBSET Task : l = hook[h].left
    BY DEF QueueInv, DebuggerTypeOK, HooksOK, HookType
  <2>2. PICK t \in l : /\ place' = Debugger!Moved(t, "skipped")
                       /\ \/ Debugger!Become(h, "idle", Debugger!NoTask, {})
                          \/ Debugger!Become(h, "flush", Debugger!NoTask, l \ {t})
    BY <1>8, <2>1 DEF Debugger!FlushOne
  <2>3. HooksOK'
    <3>1. l \ {t} \in SUBSET Task
      BY <2>2
    <3> QED
      BY <2>2, <3>1, HookBecomes DEF QueueInv, DebuggerTypeOK
  <2> QED
    BY <1>8, <2>2, <2>3, FileMoves DEF Debugger!FlushOne
<1>9. ASSUME Debugger!AgentLocks \/ Debugger!AgentDies
      PROVE  QueueInv'
  <2>1. HooksOK'
    BY <1>9 DEF Debugger!AgentLocks, Debugger!AgentDies, QueueInv, DebuggerTypeOK, HooksOK
  <2> QED
    BY <1>9, <2>1, FilesLeft DEF Debugger!AgentLocks, Debugger!AgentDies
<1>10. ASSUME NEW t \in Task, Debugger!AgentDone(t)
      PROVE  QueueInv'
  <2>1. /\ t \in notices /\ place[t] = {"pending"} /\ place' = [place EXCEPT ![t] = {}]
        /\ UNCHANGED <<whole, old, order, hook, notices>>
    BY <1>10 DEF Debugger!AgentDone, Debugger!Pending
  <2>2. /\ place' \in [Task -> SUBSET Debugger!Dirs] /\ place'[t] = {}
        /\ \A u \in Task \ {t} : place'[u] = place[u]
    BY <2>1 DEF QueueInv, DebuggerTypeOK, Debugger!Dirs
  <2>3. Debugger!Captured' = Debugger!Captured /\ HooksOK'
    BY <2>1 DEF Debugger!Captured, QueueInv, DebuggerTypeOK, HooksOK
  <2>4. DebuggerTypeOK'
    BY <2>1, <2>2, <2>3 DEF QueueInv, DebuggerTypeOK
  <2>5. FilesOK'
    BY <2>1, <2>2 DEF QueueInv, FilesOK
  <2>6. ShownOK'
    BY <2>1, <2>2 DEF QueueInv, ShownOK
  <2> QED
    BY <2>4, <2>5, <2>6 DEF QueueInv
<1>11. ASSUME NEW t \in Task, Debugger!Ages(t)
      PROVE  QueueInv'
  <2>1. old' = old \union {t} /\ UNCHANGED <<place, whole, order, hook, notices>>
    BY <1>11 DEF Debugger!Ages
  <2>2. Debugger!Captured' = Debugger!Captured /\ HooksOK'
    BY <2>1 DEF Debugger!Captured, QueueInv, DebuggerTypeOK, HooksOK
  <2> QED
    BY <2>1, <2>2 DEF QueueInv, DebuggerTypeOK, FilesOK, ShownOK
<1> QED
  BY <1>1, <1>2, <1>3, <1>4, <1>5, <1>6, <1>7, <1>8, <1>9, <1>10, <1>11 DEF Debugger!QueueNext

\* What a hook does next, other than to remove a lock that is live.
LEMMA LockLeft ==
    ASSUME HooksOK, Debugger!LiveLockSpared, NEW h \in Hook, NEW p, NEW t, NEW l,
           Debugger!Become(h, p, t, l), p # "unlink" \/ lock # "live",
           UNCHANGED <<lock, overtaken>>
    PROVE  Debugger!LiveLockSpared'
<1>1. \A g \in Hook : g # h => hook'[g] = hook[g]
  BY DEF Debugger!Become, HooksOK
<1>2. hook'[h].phase = p
  BY DEF Debugger!Become, HooksOK
<1> QED
  BY <1>1, <1>2 DEF Debugger!LiveLockSpared

LEMMA LockStep ==
    ASSUME HooksOK, Debugger!LiveLockSpared, Debugger!QueueNext
    PROVE  Debugger!LiveLockSpared'
<1>1. ASSUME NEW h \in Hook, NEW t \in Task, Debugger!Capture(h, t)
      PROVE  Debugger!LiveLockSpared'
  BY <1>1, LockLeft DEF Debugger!Capture
<1>2. ASSUME NEW h \in Hook, Debugger!Write(h) \/ Debugger!SeeQueue(h) \/ Debugger!FlushBegins(h)
      PROVE  Debugger!LiveLockSpared'
  BY <1>2, LockLeft DEF Debugger!Write, Debugger!SeeQueue, Debugger!FlushBegins
<1>3. ASSUME NEW h \in Hook, Debugger!SeeLock(h)
      PROVE  Debugger!LiveLockSpared'
  <2>1. PICK p \in {"pop", "read"} : Debugger!Become(h, p, Debugger!NoTask, {})
    BY <1>3 DEF Debugger!SeeLock
  <2> QED
    BY <1>3, <2>1, LockLeft DEF Debugger!SeeLock
<1>4. ASSUME NEW h \in Hook, Debugger!ReadLock(h)
      PROVE  Debugger!LiveLockSpared'
  <2>1. PICK p : Debugger!Become(h, p, Debugger!NoTask, {}) /\ p = IF lock = "live" THEN "idle" ELSE "unlink"
    BY <1>4 DEF Debugger!ReadLock
  <2> QED
    BY <1>4, <2>1, LockLeft DEF Debugger!ReadLock
<1>5. ASSUME NEW h \in Hook, Debugger!ReleaseLock(h)
      PROVE  Debugger!LiveLockSpared'
  BY <1>5 DEF Debugger!ReleaseLock, Debugger!LiveLockSpared
<1>6. ASSUME NEW h \in Hook, Debugger!ListPending(h)
      PROVE  Debugger!LiveLockSpared'
  <2>1. PICK p \in {"idle", "scan"}, l \in {{}, Debugger!Pending} : Debugger!Become(h, p, Debugger!NoTask, l)
    BY <1>6 DEF Debugger!ListPending
  <2> QED
    BY <1>6, <2>1, LockLeft DEF Debugger!ListPending
<1>7. ASSUME NEW h \in Hook, Debugger!PopOldest(h)
      PROVE  Debugger!LiveLockSpared'
  <2>1. \E p \in {"idle", "scan", "format"} : \E t, l : Debugger!Become(h, p, t, l)
    BY <1>7 DEF Debugger!PopOldest
  <2> QED
    BY <1>7, <2>1, LockLeft DEF Debugger!PopOldest
<1>8. ASSUME NEW h \in Hook, Debugger!Format(h)
      PROVE  Debugger!LiveLockSpared'
  BY <1>8, LockLeft DEF Debugger!Format
<1>9. ASSUME NEW h \in Hook, Debugger!FlushOne(h)
      PROVE  Debugger!LiveLockSpared'
  <2>1. \E p \in {"idle", "flush"} : \E l : Debugger!Become(h, p, Debugger!NoTask, l)
    BY <1>9 DEF Debugger!FlushOne
  <2> QED
    BY <1>9, <2>1, LockLeft DEF Debugger!FlushOne
<1>10. ASSUME Debugger!AgentLocks \/ Debugger!AgentDies
       PROVE  Debugger!LiveLockSpared'
  BY <1>10 DEF Debugger!AgentLocks, Debugger!AgentDies, Debugger!LiveLockSpared
<1>11. ASSUME NEW t \in Task, Debugger!AgentDone(t) \/ Debugger!Ages(t)
       PROVE  Debugger!LiveLockSpared'
  BY <1>11 DEF Debugger!AgentDone, Debugger!Ages, Debugger!LiveLockSpared
<1> QED
  BY <1>1, <1>2, <1>3, <1>4, <1>5, <1>6, <1>7, <1>8, <1>9, <1>10, <1>11 DEF Debugger!QueueNext

DebuggerInv == QueueInv /\ Debugger!LiveLockSpared

LEMMA DebuggerSafe ==
    ASSUME DebuggerInv
    PROVE  Debugger!DebuggerQueueSound
BY QueueSafe DEF DebuggerInv, Debugger!DebuggerQueueSound

LEMMA DebuggerStart ==
    ASSUME Debugger!QueueInit
    PROVE  DebuggerInv
<1>1. lock = "none"
  BY DEF Debugger!QueueInit
<1> QED
  BY <1>1, QueueStart DEF DebuggerInv, Debugger!LiveLockSpared

LEMMA DebuggerStep ==
    ASSUME DebuggerInv, Debugger!QueueNext
    PROVE  DebuggerInv'
<1>1. HooksOK
  BY DEF DebuggerInv, QueueInv, DebuggerTypeOK
<1> QED
  BY <1>1, QueueStep, LockStep DEF DebuggerInv

LEMMA DebuggerStutter ==
    ASSUME DebuggerInv, UNCHANGED <<place, whole, old, order, lock, hook, notices, overtaken>>
    PROVE  DebuggerInv'
<1>1. HooksOK'
  BY DEF DebuggerInv, QueueInv, DebuggerTypeOK, HooksOK
<1>2. QueueInv'
  BY <1>1, FilesLeft DEF DebuggerInv
<1> QED
  BY <1>2 DEF DebuggerInv, Debugger!LiveLockSpared

-----------------------------------------------------------------------------
(***************************************************************************)
(* Terminal sessions.  A launcher at work on a row of its own that nobody  *)
(* resumes by reference is the only one that names it, and whatever        *)
(* another launcher has seen of the row does not look stale to it.         *)
(***************************************************************************)
RowType == [status : {"absent", "active", "resumable", "missing_transcript", "failed"},
            pid : Launcher \union {Terminals!None}, fresh : BOOLEAN,
            native : Launcher \union {Terminals!None}, file : BOOLEAN]
SeenType == [id : Launcher, pid : Launcher \union {Terminals!None}, fresh : BOOLEAN,
             native : Launcher \union {Terminals!None}, file : BOOLEAN]
LaunchPhase == {"new", "heal", "choose", "reheal", "select", "pick", "plan", "takeover", "insert",
                "spawn", "register", "running", "finish", "done", "dead"}
LaunchType == [phase : LaunchPhase, seen : SUBSET SeenType, row : Launcher \union {Terminals!None},
               native : Launcher \union {Terminals!None}, file : BOOLEAN]

TermTypeOK ==
    /\ row \in [Launcher -> RowType] /\ run \in [Launcher -> LaunchType]
    /\ files \in Seq(Launcher) /\ since \in [Launcher -> SUBSET Launcher]
    /\ alive \subseteq Launcher

\* A row is there once its launcher has inserted it, which nobody else names before.
Inserted(l) == run[l].row = l
Working(l) == Inserted(l) /\ run[l].phase \in {"spawn", "register", "running"}

RowsNamed ==
    /\ \A l \in Launcher : Inserted(l) => run[l].phase \in {"spawn", "register", "running", "finish", "done", "dead"}
    /\ \A l \in Launcher : run[l].phase \in {"plan", "takeover", "spawn", "register", "running", "finish"}
                              => run[l].row \in Launcher
    /\ \A l \in Launcher : row[l] # Terminals!NoRow => Inserted(l)
    /\ \A l \in Launcher, m \in Launcher : run[l].row = m => Inserted(m)
    /\ \A l \in Launcher : \A s \in run[l].seen : Inserted(s.id)

\* The row of a launcher at work, unless it is resumed by reference: as it was inserted, then
\* with its process; named by no other launcher, and not stale to one that has listed it.
RowKept ==
    \A l \in Launcher : Working(l) /\ l \notin asked =>
       /\ row[l].status = "active" /\ ~row[l].file
       /\ IF run[l].phase = "running" THEN row[l].pid = l ELSE row[l].pid = Terminals!None /\ row[l].fresh
       /\ run[l].phase # "spawn" => l \in alive
       /\ \A m \in Launcher \ {l} : run[m].row # l

SeenAlive ==
    \A m \in Launcher : \A s \in run[m].seen : Working(s.id) /\ s.id \notin asked =>
       (s.pid = Terminals!None /\ s.fresh) \/ (s.pid = s.id /\ run[s.id].phase = "running")

\* A list to pick from holds no row of a launcher at work, however old it is.
ListedIdle ==
    \A m \in Launcher : run[m].phase = "pick" => \A s \in run[m].seen : Working(s.id) => s.id \in asked

TermInv == TermTypeOK /\ RowsNamed /\ RowKept /\ SeenAlive /\ ListedIdle

LEMMA TerminalsSafe ==
    ASSUME TermInv
    PROVE  Terminals!TerminalSessionsSound
<1>1. Terminals!NewSessionsLeftAlone
  BY DEF TermInv, RowKept, Working, Inserted, Terminals!NewSessionsLeftAlone
<1>2. ASSUME NEW l \in Launcher, run[l].phase \in {"plan", "takeover"}, run[l].row \notin asked,
             run[run[l].row].row = run[l].row
      PROVE  run[run[l].row].phase \notin {"spawn", "register", "running"}
  <2>1. PICK m \in Launcher : m = run[l].row
    BY <1>2 DEF TermInv, RowsNamed
  <2>2. m # l
    BY <1>2, <2>1 DEF TermInv, RowsNamed, Inserted
  <2> QED
    BY <1>2, <2>1, <2>2 DEF TermInv, RowKept, Working, Inserted
<1>3. Terminals!NothingRunningResumed
  BY <1>2 DEF Terminals!NothingRunningResumed
<1> QED
  BY <1>1, <1>3 DEF Terminals!TerminalSessionsSound

LEMMA TerminalsStart ==
    ASSUME Terminals!TermInit, Terminals!None \notin Launcher
    PROVE  TermInv
<1>1. /\ row = [r \in Launcher |-> Terminals!NoRow] /\ alive = {} /\ files = <<>>
      /\ since = [r \in Launcher |-> {}] /\ run = [l \in Launcher |-> Terminals!Fields]
  BY DEF Terminals!TermInit
<1>2. \A l \in Launcher : /\ run[l].phase = "new" /\ run[l].seen = {} /\ run[l].row = Terminals!None
                          /\ row[l] = Terminals!NoRow
  BY <1>1 DEF Terminals!Fields
<1>3. TermTypeOK
  <2>1. Terminals!NoRow \in RowType
    BY DEF RowType, Terminals!NoRow
  <2>2. Terminals!Fields \in LaunchType
    BY DEF LaunchType, LaunchPhase, Terminals!Fields
  <2> QED
    BY <1>1, <2>1, <2>2 DEF TermTypeOK
<1> QED
  BY <1>2, <1>3 DEF TermInv, RowsNamed, RowKept, SeenAlive, ListedIdle, Working, Inserted

\* What a launcher has seen may be kept.
SeenWell(s) ==
    /\ Inserted(s.id)
    /\ Working(s.id) /\ s.id \notin asked =>
          (s.pid = Terminals!None /\ s.fresh) \/ (s.pid = s.id /\ run[s.id].phase = "running")

\* One launcher gets further without naming another row, and the row of one that has been
\* inserted changes, but not under a launcher at work.
LEMMA TermMoves ==
    ASSUME TermInv, NEW l \in Launcher, NEW new \in LaunchType, NEW r \in Launcher, NEW newRow \in RowType,
           run' = [run EXCEPT ![l] = new], row' = [row EXCEPT ![r] = newRow],
           alive' \subseteq Launcher, \A m \in Launcher \ {l} : m \in alive => m \in alive',
           files' \in Seq(Launcher), since' \in [Launcher -> SUBSET Launcher], asked' = asked,
           new.row = run[l].row, \A s \in new.seen : SeenWell(s),
           new.phase = "pick" => \A s \in new.seen : Working(s.id) => s.id \in asked,
           Inserted(l) => new.phase \in {"spawn", "register", "running", "finish", "done", "dead"},
           new.phase \in {"plan", "takeover", "spawn", "register", "running", "finish"} => new.row \in Launcher,
           Inserted(r) \/ newRow = row[r],
           Working(r) /\ r \notin asked /\ r # l => newRow = row[r],
           Inserted(l) /\ new.phase \in {"spawn", "register", "running"} /\ l \notin asked =>
              /\ Working(l) /\ (run[l].phase = "running" => new.phase = "running")
              /\ row'[l].status = "active" /\ ~row'[l].file
              /\ IF new.phase = "running" THEN row'[l].pid = l
                 ELSE row'[l].pid = Terminals!None /\ row'[l].fresh
              /\ new.phase # "spawn" => l \in alive'
    PROVE  TermInv'
<1>1. /\ run' \in [Launcher -> LaunchType] /\ run'[l] = new
      /\ \A m \in Launcher \ {l} : run'[m] = run[m]
  BY DEF TermInv, TermTypeOK
<1>2. /\ row' \in [Launcher -> RowType] /\ row'[r] = newRow
      /\ \A m \in Launcher \ {r} : row'[m] = row[m]
  BY DEF TermInv, TermTypeOK
<1>3. TermTypeOK'
  BY <1>1, <1>2 DEF TermTypeOK
<1>4. \A m \in Launcher : run'[m].row = run[m].row
  BY <1>1
<1>5. \A m \in Launcher : \A s \in run'[m].seen : SeenWell(s)
  BY <1>1 DEF SeenWell, TermInv, RowsNamed, SeenAlive
<1>6. RowsNamed'
  <2>1. \A m \in Launcher : run'[m].row = m => run'[m].phase \in {"spawn", "register", "running", "finish", "done", "dead"}
    BY <1>1, <1>4 DEF TermInv, RowsNamed, Inserted
  <2>2. \A m \in Launcher : run'[m].phase \in {"plan", "takeover", "spawn", "register", "running", "finish"}
                               => run'[m].row \in Launcher
    BY <1>1 DEF TermInv, RowsNamed
  <2>3. \A m \in Launcher : row'[m] # Terminals!NoRow => run'[m].row = m
    BY <1>2, <1>4 DEF TermInv, RowsNamed, Inserted
  <2>4. \A m \in Launcher, k \in Launcher : run'[m].row = k => run'[k].row = k
    BY <1>4 DEF TermInv, RowsNamed, Inserted
  <2>5. \A m \in Launcher : \A s \in run'[m].seen : run'[s.id].row = s.id
    <3>1. \A m \in Launcher : \A s \in run'[m].seen : s.id \in Launcher
      BY <1>1 DEF LaunchType, SeenType
    <3> QED
      BY <1>4, <1>5, <3>1 DEF SeenWell, Inserted
  <2> QED
    BY <2>1, <2>2, <2>3, <2>4, <2>5 DEF RowsNamed, Inserted
<1>7. \A m \in Launcher : m \notin asked /\ Working(m)' => Working(m) /\ (run[m].phase = "running" => run'[m].phase = "running")
  BY <1>1, <1>4 DEF Working, Inserted
<1>8. RowKept'
  <2> SUFFICES ASSUME NEW m \in Launcher, Working(m)', m \notin asked
               PROVE  /\ row'[m].status = "active" /\ ~row'[m].file
                      /\ IF run'[m].phase = "running" THEN row'[m].pid = m
                         ELSE row'[m].pid = Terminals!None /\ row'[m].fresh
                      /\ run'[m].phase # "spawn" => m \in alive'
                      /\ \A k \in Launcher \ {m} : run'[k].row # m
    BY DEF RowKept
  <2>1. Working(m)
    BY <1>7
  <2>2. \A k \in Launcher \ {m} : run'[k].row # m
    BY <1>4, <2>1 DEF TermInv, RowKept
  <2>3. CASE m = l
    BY <1>1, <1>4, <2>2, <2>3 DEF Working, Inserted
  <2>4. CASE m # l
    <3>1. row'[m] = row[m] /\ run'[m] = run[m]
      BY <1>1, <1>2, <2>1, <2>4
    <3> QED
      BY <2>1, <2>2, <2>4, <3>1 DEF TermInv, RowKept
  <2> QED
    BY <2>3, <2>4
<1>9. SeenAlive'
  <2>1. \A m \in Launcher : \A s \in run'[m].seen : s.id \in Launcher
    BY <1>1 DEF LaunchType, SeenType
  <2> QED
    BY <1>5, <1>7, <2>1 DEF SeenAlive, SeenWell
<1>10. ListedIdle'
  <2> SUFFICES ASSUME NEW m \in Launcher, run'[m].phase = "pick", NEW s \in run'[m].seen,
                      Working(s.id)', s.id \notin asked
               PROVE  FALSE
    BY DEF ListedIdle
  <2>1. s.id \in Launcher
    BY <1>1 DEF LaunchType, SeenType
  <2>2. Working(s.id)
    BY <1>7, <2>1
  <2>3. CASE m = l
    BY <1>1, <2>2, <2>3
  <2>4. CASE m # l
    BY <1>1, <2>2, <2>4 DEF TermInv, ListedIdle
  <2> QED
    BY <2>3, <2>4
<1> QED
  BY <1>3, <1>6, <1>8, <1>9, <1>10 DEF TermInv

\* A launcher has another phase, and all else as it was.
LEMMA PhaseChanges ==
    ASSUME NEW f \in LaunchType, NEW p \in LaunchPhase, NEW g, g = [f EXCEPT !.phase = p]
    PROVE  g \in LaunchType /\ g.phase = p /\ g.seen = f.seen /\ g.row = f.row /\ g.native = f.native
BY DEF LaunchType

\* Only a launcher's own steps, no row and no list.
LEMMA PhaseMoves ==
    ASSUME TermInv, NEW l \in Launcher,
           NEW p \in {"register", "finish", "done", "dead"},
           Terminals!Goes(l, [run[l] EXCEPT !.phase = p]),
           UNCHANGED <<row, files, since, asked>>,
           alive' \subseteq Launcher, \A m \in Launcher \ {l} : m \in alive => m \in alive',

           p \in {"register", "finish"} => run[l].row \in Launcher,
           p = "register" => run[l].phase = "spawn" /\ l \in alive'
    PROVE  TermInv'
<1>1. PICK new : new = [run[l] EXCEPT !.phase = p]
  OBVIOUS
<1>2. run[l] \in LaunchType /\ row[l] \in RowType
  BY DEF TermInv, TermTypeOK
<1>3. new \in LaunchType /\ new.phase = p /\ new.seen = run[l].seen /\ new.row = run[l].row
  <2>1. p \in LaunchPhase
    BY DEF LaunchPhase
  <2> QED
    BY <1>1, <1>2, <2>1, PhaseChanges
<1>4. run' = [run EXCEPT ![l] = new]
  BY <1>1 DEF Terminals!Goes
<1>5. row' = [row EXCEPT ![l] = row[l]]
  BY DEF TermInv, TermTypeOK
<1>6. \A s \in new.seen : SeenWell(s)
  BY <1>3 DEF TermInv, RowsNamed, SeenAlive, SeenWell
<1>7. Inserted(l) => new.phase \in {"spawn", "register", "running", "finish", "done", "dead"}
  BY <1>3
<1>8. Inserted(l) /\ new.phase \in {"spawn", "register", "running"} /\ l \notin asked =>
         /\ Working(l) /\ run[l].phase # "running" /\ new.phase # "running"
         /\ row'[l].status = "active" /\ ~row'[l].file
         /\ row'[l].pid = Terminals!None /\ row'[l].fresh /\ l \in alive'
  BY <1>3 DEF TermInv, RowKept, Working
<1>9. new.phase \in {"plan", "takeover", "spawn", "register", "running", "finish"} => new.row \in Launcher
  BY <1>3
<1>10. files' \in Seq(Launcher) /\ since' \in [Launcher -> SUBSET Launcher]
  BY DEF TermInv, TermTypeOK
<1>11. new.phase # "pick"
  BY <1>3
<1> HIDE DEF TermInv
<1> QED
  BY <1>2, <1>3, <1>4, <1>5, <1>6, <1>7, <1>8, <1>9, <1>10, <1>11, TermMoves, ZenonT(60)

\* Steps of the rows only: nobody at work but l itself finds its row changed.
LEMMA RowMoves ==
    ASSUME TermInv, NEW l \in Launcher, NEW r \in Launcher, NEW newRow \in RowType,
           row' = [row EXCEPT ![r] = newRow], UNCHANGED <<run, alive, files, since, asked>>,
           Inserted(r), Working(r) /\ r \notin asked =>
              /\ newRow.status = "active" /\ ~newRow.file /\ newRow.pid = row[r].pid
              /\ newRow.fresh = row[r].fresh \/ run[r].phase = "running"
    PROVE  TermInv'
<1>1. run[r] \in LaunchType /\ run' = [run EXCEPT ![r] = run[r]]
  BY DEF TermInv, TermTypeOK
<1>2. row'[r] = newRow
  BY DEF TermInv, TermTypeOK
<1>3. \A s \in run[r].seen : SeenWell(s)
  BY DEF TermInv, RowsNamed, SeenAlive, SeenWell
<1>4. /\ Inserted(r) => run[r].phase \in {"spawn", "register", "running", "finish", "done", "dead"}
      /\ run[r].phase \in {"plan", "takeover", "spawn", "register", "running", "finish"} => run[r].row \in Launcher
  BY DEF TermInv, RowsNamed
<1>5. Inserted(r) /\ run[r].phase \in {"spawn", "register", "running"} /\ r \notin asked =>
         /\ Working(r)
         /\ row'[r].status = "active" /\ ~row'[r].file
         /\ IF run[r].phase = "running" THEN row'[r].pid = r
            ELSE row'[r].pid = Terminals!None /\ row'[r].fresh
         /\ run[r].phase # "spawn" => r \in alive'
  BY <1>2 DEF TermInv, RowKept, Working
<1>6. /\ files' \in Seq(Launcher) /\ since' \in [Launcher -> SUBSET Launcher] /\ alive' \subseteq Launcher
      /\ \A m \in Launcher \ {r} : m \in alive => m \in alive'
  BY DEF TermInv, TermTypeOK
<1>7. run[r].phase = "pick" => \A s \in run[r].seen : Working(s.id) => s.id \in asked
  BY DEF TermInv, ListedIdle
<1> HIDE DEF TermInv
<1> QED
  BY <1>1, <1>3, <1>4, <1>5, <1>6, <1>7, TermMoves

\* Nothing but the transcripts, and processes of launchers that are not at work.
LEMMA FilesMove ==
    ASSUME TermInv, UNCHANGED <<row, run, asked>>,
           alive' \subseteq Launcher, files' \in Seq(Launcher), since' \in [Launcher -> SUBSET Launcher],
           \A m \in Launcher : Working(m) /\ m \in alive => m \in alive'
    PROVE  TermInv'
<1>1. TermTypeOK'
  BY DEF TermInv, TermTypeOK
<1>2. RowsNamed'
  BY DEF TermInv, RowsNamed, Inserted
<1>3. SeenAlive' /\ ListedIdle'
  BY DEF TermInv, SeenAlive, ListedIdle, Working, Inserted
<1>4. RowKept'
  <2>1. \A m \in Launcher : Working(m)' = Working(m)
    BY DEF Working, Inserted
  <2> QED
    BY <2>1 DEF TermInv, RowKept
<1> QED
  BY <1>1, <1>2, <1>3, <1>4 DEF TermInv

\* What a launcher reads of a row.
LEMMA SeesRow ==
    ASSUME TermInv, NEW r \in Terminals!Rows
    PROVE  /\ Terminals!Seen(r) \in SeenType /\ Terminals!Seen(r).id = r
           /\ Inserted(r) /\ SeenWell(Terminals!Seen(r))
<1>1. r \in Launcher /\ row[r] # Terminals!NoRow /\ row[r] \in RowType
  BY DEF Terminals!Rows, TermInv, TermTypeOK
<1>2. Terminals!Seen(r) \in SeenType /\ Terminals!Seen(r).id = r /\ Terminals!Seen(r).pid = row[r].pid
      /\ Terminals!Seen(r).fresh = row[r].fresh
  BY <1>1 DEF RowType, SeenType, Terminals!Seen
<1>3. Inserted(r)
  BY <1>1 DEF TermInv, RowsNamed
<1>4. Working(r) /\ r \notin asked => (row[r].pid = Terminals!None /\ row[r].fresh)
                                      \/ (row[r].pid = r /\ run[r].phase = "running")
  BY <1>1 DEF TermInv, RowKept
<1> QED
  BY <1>2, <1>3, <1>4 DEF SeenWell

\* A launcher that names no row lists some, or drops what it has listed.
LEMMA ListMoves ==
    ASSUME TermInv, NEW l \in Launcher, NEW new,
           NEW p \in {"heal", "choose", "reheal", "select", "pick", "insert"},
           NEW left \in SUBSET SeenType, \A s \in left : SeenWell(s),
           p = "pick" => \A s \in left : Working(s.id) => s.id \in asked,
           new = [run[l] EXCEPT !.phase = p, !.seen = left], Terminals!Goes(l, new), ~Inserted(l),
           UNCHANGED <<row, alive, files, since, asked>>
    PROVE  TermInv'
<1>1. run[l] \in LaunchType /\ row[l] \in RowType
  BY DEF TermInv, TermTypeOK
<1>2. new \in LaunchType /\ new.phase = p /\ new.seen = left /\ new.row = run[l].row
  BY <1>1 DEF LaunchType, LaunchPhase
<1>3. run' = [run EXCEPT ![l] = new]
  BY DEF Terminals!Goes
<1>4. row' = [row EXCEPT ![l] = row[l]]
  BY DEF TermInv, TermTypeOK
<1>5. \A s \in new.seen : SeenWell(s)
  BY <1>2
<1>6. new.phase = "pick" => \A s \in new.seen : Working(s.id) => s.id \in asked
  BY <1>2
<1>7. new.phase \notin {"plan", "takeover", "spawn", "register", "running", "finish"}
  BY <1>2
<1>8. /\ files' \in Seq(Launcher) /\ since' \in [Launcher -> SUBSET Launcher] /\ alive' \subseteq Launcher
      /\ \A m \in Launcher \ {l} : m \in alive => m \in alive'
  BY DEF TermInv, TermTypeOK
<1> HIDE DEF TermInv
<1> QED
  BY <1>1, <1>2, <1>3, <1>4, <1>5, <1>6, <1>7, <1>8, TermMoves

\* A launcher that heals is in one of four phases after it.
LEMMA AfterHealGoes ==
    ASSUME TermInv, NEW l \in Launcher, NEW left, Terminals!AfterHeal(l, left)
    PROVE  \E p \in {"heal", "choose", "reheal", "select"} :
              Terminals!Goes(l, [run[l] EXCEPT !.phase = p, !.seen = left])
<1>1. PICK p : p = IF Terminals!First(l) THEN IF left = {} THEN "choose" ELSE "heal"
                   ELSE IF left = {} THEN "select" ELSE "reheal"
  OBVIOUS
<1>2. p \in {"heal", "choose", "reheal", "select"}
  BY <1>1
<1>3. PICK new : new = [run[l] EXCEPT !.phase = p, !.seen = left]
  OBVIOUS
<1>4. new = [run[l] EXCEPT !.seen = left, !.phase = p]
  BY <1>3 DEF TermInv, TermTypeOK, LaunchType
<1>5. Terminals!Goes(l, new)
  BY <1>1, <1>4 DEF Terminals!AfterHeal
<1> QED
  BY <1>2, <1>3, <1>5

LEMMA HealBeginsStep ==
    ASSUME TermInv, NEW l \in Launcher, Terminals!HealBegins(l)
    PROVE  TermInv'
<1>1. PICK left : left = {Terminals!Seen(r) : r \in Terminals!Active}
  OBVIOUS
<1>2. \A s \in left : s \in SeenType /\ SeenWell(s)
  BY <1>1, SeesRow DEF Terminals!Active
<1>3. /\ run[l].phase \in {"new", "choose"} /\ UNCHANGED <<row, alive, files, since, asked>>
      /\ Terminals!AfterHeal(l, left)
  BY <1>1 DEF Terminals!HealBegins
<1>3p. PICK p \in {"heal", "choose", "reheal", "select"} :
         Terminals!Goes(l, [run[l] EXCEPT !.phase = p, !.seen = left])
  BY <1>3, AfterHealGoes
<1>3n. PICK new : new = [run[l] EXCEPT !.phase = p, !.seen = left]
  OBVIOUS
<1>4. p \in {"heal", "choose", "reheal", "select"} /\ new = [run[l] EXCEPT !.phase = p, !.seen = left]
      /\ Terminals!Goes(l, new)
  BY <1>3p, <1>3n
<1>5. ~Inserted(l) /\ left \in SUBSET SeenType
  BY <1>2, <1>3 DEF TermInv, RowsNamed
<1> HIDE DEF TermInv
<1> QED
  BY <1>2, <1>3, <1>4, <1>5, ListMoves

LEMMA HealOneStep ==
    ASSUME TermInv, NEW l \in Launcher, Terminals!HealOne(l)
    PROVE  TermInv'
<1>1. PICK s \in run[l].seen :
         /\ row' = IF Terminals!Stale(s)
                   THEN [row EXCEPT ![s.id].status = "resumable", ![s.id].pid = Terminals!None,
                                    ![s.id].fresh = TRUE]
                   ELSE row
         /\ Terminals!AfterHeal(l, run[l].seen \ {s})
  BY DEF Terminals!HealOne
<1>2. run[l].phase \in {"heal", "reheal"} /\ UNCHANGED <<alive, files, since, asked>>
  BY DEF Terminals!HealOne
<1>3. PICK left : left = run[l].seen \ {s}
  OBVIOUS
<1>3p. PICK p \in {"heal", "choose", "reheal", "select"} :
         Terminals!Goes(l, [run[l] EXCEPT !.phase = p, !.seen = left])
  <2>1. Terminals!AfterHeal(l, left)
    BY <1>1, <1>3
  <2> QED
    BY <2>1, AfterHealGoes
<1>3n. PICK new : new = [run[l] EXCEPT !.phase = p, !.seen = left]
  OBVIOUS
<1>4. p \in {"heal", "choose", "reheal", "select"} /\ new = [run[l] EXCEPT !.phase = p, !.seen = left]
      /\ Terminals!Goes(l, new)
  BY <1>3p, <1>3n
<1>5. run[l] \in LaunchType /\ row[l] \in RowType /\ left \subseteq SeenType
  BY <1>3 DEF TermInv, TermTypeOK, LaunchType
<1>6. \A x \in left : SeenWell(x)
  BY <1>3 DEF TermInv, RowsNamed, SeenAlive, SeenWell
<1>7. new \in LaunchType /\ new.phase = p /\ new.seen = left /\ new.row = run[l].row
  BY <1>4, <1>5 DEF LaunchType, LaunchPhase
<1>8. PICK r \in Launcher : r = s.id
  BY <1>5 DEF LaunchType, SeenType
<1>9. Inserted(r)
  BY <1>8 DEF TermInv, RowsNamed
<1>10. PICK newRow \in RowType : /\ row' = [row EXCEPT ![r] = newRow]
                                 /\ ~Terminals!Stale(s) => newRow = row[r]
  <2>1. CASE Terminals!Stale(s)
    <3>1. PICK n : n = [row[r] EXCEPT !.status = "resumable", !.pid = Terminals!None, !.fresh = TRUE]
      OBVIOUS
    <3>2. row[r] \in RowType
      BY DEF TermInv, TermTypeOK
    <3>3. n \in RowType
      BY <3>1, <3>2 DEF RowType
    <3>4. row' = [row EXCEPT ![r] = n]
      BY <1>1, <1>8, <2>1, <3>1, <3>2 DEF TermInv, TermTypeOK
    <3> QED
      BY <2>1, <3>3, <3>4
  <2>2. CASE ~Terminals!Stale(s)
    BY <1>1, <2>2 DEF TermInv, TermTypeOK
  <2> QED
    BY <2>1, <2>2
<1>11. Working(r) /\ r \notin asked => ~Terminals!Stale(s)
  <2> SUFFICES ASSUME Working(r), r \notin asked
               PROVE  ~Terminals!Stale(s)
    OBVIOUS
  <2>1. \/ s.pid = Terminals!None /\ s.fresh
        \/ s.pid = r /\ run[r].phase = "running"
    BY <1>8 DEF TermInv, SeenAlive
  <2>2. run[r].phase = "running" => r \in alive
    BY DEF TermInv, RowKept
  <2> QED
    BY <2>1, <2>2, TerminalAssumption DEF Terminals!Stale
<1>12. ~Inserted(l)
  BY <1>2 DEF TermInv, RowsNamed
<1>13. new.phase \notin {"pick", "plan", "takeover", "spawn", "register", "running", "finish"}
  BY <1>4, <1>7
<1>14. /\ files' \in Seq(Launcher) /\ since' \in [Launcher -> SUBSET Launcher] /\ alive' \subseteq Launcher
       /\ \A m \in Launcher \ {l} : m \in alive => m \in alive'
  BY <1>2 DEF TermInv, TermTypeOK
<1>15. \A x \in new.seen : SeenWell(x)
  BY <1>6, <1>7
<1> HIDE DEF TermInv
<1> QED
  BY <1>2, <1>4, <1>7, <1>9, <1>10, <1>11, <1>12, <1>13, <1>14, <1>15, TermMoves DEF Terminals!Goes

\* A set of positions that is not empty has a first one.
LEMMA FirstPosition ==
    ASSUME NEW S, S \subseteq Nat, S # {}
    PROVE  Terminals!Min(S) \in S /\ \A j \in S : Terminals!Min(S) <= j
<1>1. \E x \in S : \A y \in S : x <= y
  BY LeastNatural
<1> QED
  BY <1>1 DEF Terminals!Min

LEMMA Transcripts ==
    ASSUME files \in Seq(Launcher)
    PROVE  /\ DOMAIN files \subseteq Nat /\ \A i \in DOMAIN files : files[i] \in Launcher
           /\ Terminals!Range(files) \subseteq Launcher
<1>1. DOMAIN files = 1..Len(files) /\ \A i \in DOMAIN files : files[i] \in Launcher
  OBVIOUS
<1>2. DOMAIN files \subseteq Nat
  BY <1>1
<1> QED
  BY <1>1, <1>2 DEF Terminals!Range

LEMMA LatestIsThere ==
    ASSUME files \in Seq(Launcher), NEW r
    PROVE  Terminals!Latest(r) = Terminals!None
           \/ (Terminals!Latest(r) \in Launcher /\ Terminals!Latest(r) \in since[r])
<1> DEFINE S == Terminals!OfDirectory(r)
<1>1. S \subseteq DOMAIN files /\ \A i \in S : files[i] \in since[r]
  BY DEF Terminals!OfDirectory
<1>2. CASE S # {}
  <2>1. S \subseteq Nat
    BY <1>1, Transcripts
  <2> HIDE DEF S
  <2>2. PICK i \in S : i = Terminals!Min(S)
    BY <1>2, <2>1, FirstPosition
  <2>3. files[i] \in Launcher /\ files[i] \in since[r]
    BY <1>1, Transcripts
  <2> QED
    BY <1>2, <2>2, <2>3 DEF Terminals!Latest, S
<1>3. CASE S = {}
  BY <1>3 DEF Terminals!Latest
<1> QED
  BY <1>2, <1>3

LEMMA DiscoveredIsThere ==
    ASSUME files \in Seq(Launcher), NEW r, NEW native
    PROVE  Terminals!Discovered(r, native) \in Launcher \union {Terminals!None}
BY LatestIsThere, Transcripts DEF Terminals!Discovered

LEMMA WithoutIsOne ==
    ASSUME files \in Seq(Launcher), NEW n
    PROVE  Terminals!Without(n) \in Seq(Launcher)
<1>1. CASE n \in Terminals!Range(files)
  <2>1. PICK i \in 1..Len(files) : i = Terminals!At(n)
    <3>1. DOMAIN files = 1..Len(files)
      OBVIOUS
    <3>2. \E i \in DOMAIN files : files[i] = n
      BY <1>1 DEF Terminals!Range
    <3> QED
      BY <3>1, <3>2 DEF Terminals!At
  <2>2. SubSeq(files, 1, i - 1) \in Seq(Launcher) /\ SubSeq(files, i + 1, Len(files)) \in Seq(Launcher)
    OBVIOUS
  <2> QED
    BY <1>1, <2>1, <2>2 DEF Terminals!Without, Terminals!RemoveAt
<1>2. CASE n \notin Terminals!Range(files)
  BY <1>2 DEF Terminals!Without
<1> QED
  BY <1>1, <1>2

\* A launcher resumes a row that has been inserted, and that no launcher works on unless it
\* is asked for.
LEMMA ResumesStep ==
    ASSUME TermInv, NEW l \in Launcher, NEW s \in SeenType, Terminals!Resumes(l, s),
           run[l].phase \in {"select", "pick"}, UNCHANGED <<row, alive, files, since>>,
           Inserted(s.id), asked \subseteq asked', Working(s.id) => s.id \in asked'
    PROVE  TermInv'
<1>1. PICK r \in Launcher : r = s.id
  BY DEF SeenType
<1>4. PICK new : new = [phase |-> "plan", seen |-> {}, row |-> s.id, native |-> s.native, file |-> s.file]
  OBVIOUS
<1>5. new \in LaunchType /\ new.phase = "plan" /\ new.row = r /\ new.seen = {}
  BY <1>1, <1>4 DEF LaunchType, LaunchPhase, SeenType
<1>6. /\ run' \in [Launcher -> LaunchType] /\ run'[l] = new
      /\ \A m \in Launcher \ {l} : run'[m] = run[m]
  BY <1>4, <1>5 DEF Terminals!Resumes, Terminals!Goes, TermInv, TermTypeOK
<1>7. ~Inserted(l) /\ Inserted(r)
  BY <1>1 DEF TermInv, RowsNamed
<1>8. r # l
  BY <1>7
<1>9. TermTypeOK'
  BY <1>1, <1>6 DEF TermInv, TermTypeOK
<1>10. \A m \in Launcher : (run'[m].row = m) <=> Inserted(m)
  BY <1>5, <1>6, <1>7, <1>8 DEF Inserted
<1>11. \A m \in Launcher : Inserted(m) => m # l /\ run'[m] = run[m]
  BY <1>6, <1>7
<1>12. RowsNamed'
  <2>1. \A m \in Launcher : run'[m].row = m => run'[m].phase \in {"spawn", "register", "running", "finish", "done", "dead"}
    BY <1>10, <1>11 DEF TermInv, RowsNamed
  <2>2. \A m \in Launcher : run'[m].phase \in {"plan", "takeover", "spawn", "register", "running", "finish"}
                               => run'[m].row \in Launcher
    BY <1>5, <1>6 DEF TermInv, RowsNamed
  <2>3. \A m \in Launcher : row'[m] # Terminals!NoRow => run'[m].row = m
    BY <1>1, <1>10 DEF TermInv, RowsNamed
  <2>4. \A m \in Launcher, k \in Launcher : run'[m].row = k => run'[k].row = k
    BY <1>5, <1>6, <1>7, <1>10 DEF TermInv, RowsNamed
  <2>5. \A m \in Launcher : \A x \in run'[m].seen : x \in run[m].seen /\ x.id \in Launcher
    BY <1>5, <1>6 DEF TermInv, TermTypeOK, LaunchType, SeenType
  <2>6. \A m \in Launcher : \A x \in run'[m].seen : run'[x.id].row = x.id
    BY <1>10, <2>5 DEF TermInv, RowsNamed
  <2> QED
    BY <2>1, <2>2, <2>3, <2>4, <2>6 DEF RowsNamed, Inserted
<1>14. \A m \in Launcher : Working(m)' => Working(m) /\ run'[m] = run[m]
  BY <1>10, <1>11 DEF Working, Inserted
<1>16. RowKept'
  <2> SUFFICES ASSUME NEW m \in Launcher, Working(m)', m \notin asked'
               PROVE  /\ row'[m].status = "active" /\ ~row'[m].file
                      /\ IF run'[m].phase = "running" THEN row'[m].pid = m
                         ELSE row'[m].pid = Terminals!None /\ row'[m].fresh
                      /\ run'[m].phase # "spawn" => m \in alive'
                      /\ \A k \in Launcher \ {m} : run'[k].row # m
    BY DEF RowKept
  <2>1. Working(m) /\ m \notin asked /\ run'[m] = run[m] /\ m # r
    BY <1>1, <1>14
  <2>2. \A k \in Launcher \ {m} : run'[k].row # m
    BY <1>5, <1>6, <2>1 DEF TermInv, RowKept
  <2> QED
    BY <2>1, <2>2 DEF TermInv, RowKept
<1>17. SeenAlive'
  <2> SUFFICES ASSUME NEW m \in Launcher, NEW x \in run'[m].seen, Working(x.id)', x.id \notin asked'
               PROVE  (x.pid = Terminals!None /\ x.fresh) \/ (x.pid = x.id /\ run'[x.id].phase = "running")
    BY DEF SeenAlive
  <2>1. x \in run[m].seen /\ x.id \in Launcher
    BY <1>5, <1>6 DEF TermInv, TermTypeOK, LaunchType, SeenType
  <2>2. Working(x.id) /\ x.id \notin asked /\ run'[x.id] = run[x.id]
    BY <1>14, <2>1
  <2> QED
    BY <2>1, <2>2 DEF TermInv, SeenAlive
<1>18. ListedIdle'
  <2> SUFFICES ASSUME NEW m \in Launcher, run'[m].phase = "pick", NEW x \in run'[m].seen,
                      Working(x.id)', x.id \notin asked'
               PROVE  FALSE
    BY DEF ListedIdle
  <2>1. m # l /\ run'[m] = run[m]
    BY <1>5, <1>6
  <2>2. x.id \in Launcher
    BY <2>1 DEF TermInv, TermTypeOK, LaunchType, SeenType
  <2>3. Working(x.id) /\ x.id \notin asked
    BY <1>14, <2>2
  <2> QED
    BY <2>1, <2>3 DEF TermInv, ListedIdle
<1> QED
  BY <1>9, <1>12, <1>16, <1>17, <1>18 DEF TermInv

LEMMA ResolveStep ==
    ASSUME TermInv, NEW l \in Launcher, Terminals!Resolve(l)
    PROVE  TermInv'
<1>1. run[l].phase = "select" /\ UNCHANGED <<row, alive, files, since>>
  BY DEF Terminals!Resolve
<1>2. PICK r \in Terminals!Rows : Terminals!Resumes(l, Terminals!Seen(r)) /\ asked' = asked \union {r}
  BY DEF Terminals!Resolve
<1>3. PICK s \in SeenType : s = Terminals!Seen(r) /\ s.id = r /\ Inserted(r)
  BY SeesRow
<1>4. Terminals!Resumes(l, s) /\ asked \subseteq asked' /\ s.id \in asked'
  BY <1>2, <1>3
<1> HIDE DEF TermInv
<1> QED
  BY <1>1, <1>3, <1>4, ResumesStep

LEMMA ListStep ==
    ASSUME TermInv, NEW l \in Launcher, Terminals!List(l)
    PROVE  TermInv'
<1>1. PICK left, new : /\ left = {Terminals!Seen(r) : r \in Terminals!Resumable}
                       /\ new = [run[l] EXCEPT !.phase = "pick", !.seen = left]
  OBVIOUS
<1>2. \A s \in left : s \in SeenType /\ SeenWell(s)
  BY <1>1, SeesRow DEF Terminals!Resumable
<1>3. ASSUME NEW s \in left, Working(s.id)
      PROVE  s.id \in asked
  <2>1. PICK r \in Terminals!Resumable : s = Terminals!Seen(r)
    BY <1>1
  <2>2. s.id = r /\ r \in Launcher /\ row[r].status # "active"
    BY <2>1 DEF Terminals!Seen, Terminals!Resumable, Terminals!Rows
  <2> QED
    BY <1>3, <2>2 DEF TermInv, RowKept
<1>4. /\ run[l].phase = "select" /\ UNCHANGED <<row, alive, files, since, asked>>
      /\ Terminals!Goes(l, new)
  BY <1>1 DEF Terminals!List
<1>5. ~Inserted(l) /\ left \in SUBSET SeenType
  BY <1>2, <1>4 DEF TermInv, RowsNamed
<1> HIDE DEF TermInv
<1> QED
  BY <1>1, <1>2, <1>3, <1>4, <1>5, ListMoves

LEMMA PickStep ==
    ASSUME TermInv, NEW l \in Launcher, Terminals!Pick(l)
    PROVE  TermInv'
<1>1. run[l].phase = "pick" /\ UNCHANGED <<row, alive, files, since, asked>>
  BY DEF Terminals!Pick
<1>2. PICK s \in run[l].seen : Terminals!Resumes(l, s)
  BY DEF Terminals!Pick
<1>3. s \in SeenType /\ Inserted(s.id) /\ (Working(s.id) => s.id \in asked)
  BY <1>1 DEF TermInv, TermTypeOK, LaunchType, RowsNamed, ListedIdle
<1> HIDE DEF TermInv
<1> QED
  BY <1>1, <1>2, <1>3, ResumesStep

LEMMA StartAfreshStep ==
    ASSUME TermInv, NEW l \in Launcher, Terminals!StartAfresh(l)
    PROVE  TermInv'
<1>1. PICK new : new = [run[l] EXCEPT !.phase = "insert", !.seen = {}]
  OBVIOUS
<1>2. /\ run[l].phase \in {"choose", "pick", "select"} /\ UNCHANGED <<row, alive, files, since, asked>>
      /\ Terminals!Goes(l, new)
  <2>1. run[l].phase \in {"choose", "pick", "select"}
    BY ZenonT(30) DEF Terminals!StartAfresh
  <2>2. Terminals!Goes(l, new) /\ UNCHANGED <<row, alive, files, since, asked>>
    BY <1>1, ZenonT(30) DEF Terminals!StartAfresh
  <2> QED
    BY <2>1, <2>2
<1>3. ~Inserted(l)
  BY <1>2 DEF TermInv, RowsNamed
<1>4. {} \in SUBSET SeenType
  OBVIOUS
<1> HIDE DEF TermInv
<1> QED
  BY <1>1, <1>2, <1>3, <1>4, ListMoves

LEMMA InsertStep ==
    ASSUME TermInv, NEW l \in Launcher, Terminals!Insert(l)
    PROVE  TermInv'
<1>1. PICK new, newRow :
         /\ new = [run[l] EXCEPT !.phase = "spawn", !.row = l]
         /\ newRow = [Terminals!NoRow EXCEPT !.status = "active", !.fresh = TRUE]
  OBVIOUS
<1>2. /\ run[l].phase = "insert" /\ UNCHANGED <<alive, files, since, asked>>
      /\ run' = [run EXCEPT ![l] = new] /\ row' = [row EXCEPT ![l] = newRow]
  BY <1>1 DEF Terminals!Insert, Terminals!Goes
<1>3. run[l] \in LaunchType /\ Terminals!NoRow \in RowType
  BY DEF TermInv, TermTypeOK, RowType, Terminals!NoRow
<1>4. new \in LaunchType /\ new.phase = "spawn" /\ new.row = l /\ new.seen = run[l].seen
  BY <1>1, <1>3 DEF LaunchType, LaunchPhase
<1>5. /\ newRow \in RowType /\ newRow.status = "active" /\ newRow.fresh /\ ~newRow.file
      /\ newRow.pid = Terminals!None
  BY <1>1 DEF RowType, Terminals!NoRow
<1>6. /\ run' \in [Launcher -> LaunchType] /\ run'[l] = new
      /\ \A m \in Launcher \ {l} : run'[m] = run[m]
  BY <1>2, <1>4 DEF TermInv, TermTypeOK
<1>7. /\ row' \in [Launcher -> RowType] /\ row'[l] = newRow
      /\ \A m \in Launcher \ {l} : row'[m] = row[m]
  BY <1>2, <1>5 DEF TermInv, TermTypeOK
<1>8. ~Inserted(l)
  BY <1>2 DEF TermInv, RowsNamed
<1>9. \A m \in Launcher : run[m].row # l /\ \A s \in run[m].seen : s.id # l /\ s.id \in Launcher
  BY <1>8 DEF TermInv, TermTypeOK, LaunchType, SeenType, RowsNamed
<1>10. TermTypeOK'
  BY <1>2, <1>6, <1>7 DEF TermInv, TermTypeOK
<1>11. \A m \in Launcher : \A s \in run'[m].seen : s \in run[m].seen
  BY <1>4, <1>6
<1>12. RowsNamed'
  <2>1. \A m \in Launcher : run'[m].row = m => run'[m].phase \in {"spawn", "register", "running", "finish", "done", "dead"}
    BY <1>4, <1>6 DEF TermInv, RowsNamed, Inserted
  <2>2. \A m \in Launcher : run'[m].phase \in {"plan", "takeover", "spawn", "register", "running", "finish"}
                               => run'[m].row \in Launcher
    BY <1>4, <1>6 DEF TermInv, RowsNamed
  <2>3. \A m \in Launcher : row'[m] # Terminals!NoRow => run'[m].row = m
    BY <1>4, <1>6, <1>7 DEF TermInv, RowsNamed, Inserted
  <2>4. \A m \in Launcher, k \in Launcher : run'[m].row = k => run'[k].row = k
    BY <1>4, <1>6, <1>9 DEF TermInv, RowsNamed, Inserted
  <2>5. \A m \in Launcher : \A s \in run'[m].seen : run'[s.id].row = s.id
    BY <1>6, <1>9, <1>11 DEF TermInv, RowsNamed, Inserted
  <2> QED
    BY <2>1, <2>2, <2>3, <2>4, <2>5 DEF RowsNamed, Inserted
<1>13. \A m \in Launcher \ {l} : Working(m)' <=> Working(m)
  BY <1>6 DEF Working, Inserted
<1>14. RowKept'
  <2> SUFFICES ASSUME NEW m \in Launcher, Working(m)', m \notin asked
               PROVE  /\ row'[m].status = "active" /\ ~row'[m].file
                      /\ IF run'[m].phase = "running" THEN row'[m].pid = m
                         ELSE row'[m].pid = Terminals!None /\ row'[m].fresh
                      /\ run'[m].phase # "spawn" => m \in alive'
                      /\ \A k \in Launcher \ {m} : run'[k].row # m
    BY <1>2 DEF RowKept
  <2>1. CASE m = l
    BY <1>4, <1>5, <1>6, <1>7, <1>9, <2>1
  <2>2. CASE m # l
    <3>1. Working(m) /\ run'[m] = run[m] /\ row'[m] = row[m]
      BY <1>6, <1>7, <1>13, <2>2
    <3>2. \A k \in Launcher \ {m} : run'[k].row # m
      BY <1>4, <1>6, <2>2, <3>1 DEF TermInv, RowKept
    <3> QED
      BY <1>2, <3>1, <3>2 DEF TermInv, RowKept
  <2> QED
    BY <2>1, <2>2
<1>15. SeenAlive'
  <2> SUFFICES ASSUME NEW m \in Launcher, NEW s \in run'[m].seen, Working(s.id)', s.id \notin asked
               PROVE  (s.pid = Terminals!None /\ s.fresh) \/ (s.pid = s.id /\ run'[s.id].phase = "running")
    BY <1>2 DEF SeenAlive
  <2>1. s \in run[m].seen /\ s.id \in Launcher \ {l}
    BY <1>9, <1>11
  <2>2. Working(s.id) /\ run'[s.id] = run[s.id]
    BY <1>6, <1>13, <2>1
  <2> QED
    BY <2>1, <2>2 DEF TermInv, SeenAlive
<1>16. ListedIdle'
  <2> SUFFICES ASSUME NEW m \in Launcher, run'[m].phase = "pick", NEW s \in run'[m].seen, Working(s.id)'
               PROVE  s.id \in asked
    BY <1>2 DEF ListedIdle
  <2>1. s \in run[m].seen /\ s.id \in Launcher \ {l} /\ run[m].phase = "pick"
    BY <1>4, <1>6, <1>9, <1>11
  <2>2. Working(s.id)
    BY <1>13, <2>1
  <2> QED
    BY <2>1, <2>2 DEF TermInv, ListedIdle
<1> QED
  BY <1>10, <1>12, <1>14, <1>15, <1>16 DEF TermInv

\* A launcher gets further with the row it names, its own or one that nobody works on.
LEMMA NamedRowMoves ==
    ASSUME TermInv, NEW l \in Launcher, NEW new \in LaunchType, NEW newRow \in RowType,
           run[l].phase \in {"plan", "takeover", "register", "running", "finish"},
           new.row = run[l].row, new.seen = run[l].seen,
           new.phase \in {"takeover", "insert", "spawn", "running", "done"},
           new.phase \in {"insert", "takeover", "spawn"} => run[l].phase \in {"plan", "takeover"},
           new.phase = "running" /\ run[l].row = l => /\ Working(l) /\ newRow.status = "active"
                                                      /\ newRow.pid = l /\ newRow.file = row[l].file,
           run' = [run EXCEPT ![l] = new], row' = [row EXCEPT ![run[l].row] = newRow],
           UNCHANGED <<alive, files, since, asked>>
    PROVE  TermInv'
<1>1. PICK r \in Launcher : r = run[l].row
  BY DEF TermInv, RowsNamed
<1>2. Inserted(r) /\ row[r] \in RowType
  BY <1>1 DEF TermInv, TermTypeOK, RowsNamed
<1>3. r # l => ~(Working(r) /\ r \notin asked)
  BY <1>1 DEF TermInv, RowKept
<1>4. run[l].phase \in {"plan", "takeover"} => ~Inserted(l)
  BY DEF TermInv, RowsNamed
<1>5. row'[r] = newRow
  BY <1>1 DEF TermInv, TermTypeOK
<1>6. Inserted(l) /\ new.phase \in {"spawn", "register", "running"} /\ l \notin asked =>
         /\ Working(l) /\ new.phase = "running"
         /\ row'[l].status = "active" /\ ~row'[l].file
         /\ row'[l].pid = l /\ l \in alive'
  <2> SUFFICES ASSUME Inserted(l), new.phase \in {"spawn", "register", "running"}, l \notin asked
               PROVE  /\ Working(l) /\ new.phase = "running"
                      /\ row'[l].status = "active" /\ ~row'[l].file
                      /\ row'[l].pid = l /\ l \in alive'
    OBVIOUS
  <2>1. new.phase = "running" /\ r = l
    BY <1>1, <1>4 DEF Inserted
  <2>2. Working(l) /\ row'[l] = newRow /\ newRow.status = "active" /\ newRow.pid = l /\ newRow.file = row[l].file
    BY <1>1, <1>5, <2>1
  <2>3. ~row[l].file /\ l \in alive'
    BY <2>2 DEF TermInv, RowKept, Working
  <2> QED
    BY <2>1, <2>2, <2>3
<1>7. /\ files' \in Seq(Launcher) /\ since' \in [Launcher -> SUBSET Launcher] /\ alive' \subseteq Launcher
      /\ \A m \in Launcher \ {l} : m \in alive => m \in alive'
  BY DEF TermInv, TermTypeOK
<1>8. \A s \in new.seen : SeenWell(s)
  BY DEF TermInv, RowsNamed, SeenAlive, SeenWell
<1>9. Inserted(l) => new.phase \in {"spawn", "register", "running", "finish", "done", "dead"}
  BY <1>4
<1>10. row' = [row EXCEPT ![r] = newRow] /\ asked' = asked /\ new.row \in Launcher
  BY <1>1
<1>11. /\ new.phase \in {"plan", "takeover", "spawn", "register", "running", "finish"} => new.row \in Launcher
       /\ Inserted(r) \/ newRow = row[r]
       /\ Working(r) /\ r \notin asked /\ r # l => newRow = row[r]
  BY <1>2, <1>3, <1>10
<1>12. Inserted(l) /\ new.phase \in {"spawn", "register", "running"} /\ l \notin asked
       => /\ Working(l) /\ (run[l].phase = "running" => new.phase = "running")
          /\ row'[l].status = "active" /\ ~row'[l].file
          /\ IF new.phase = "running" THEN row'[l].pid = l ELSE row'[l].pid = Terminals!None /\ row'[l].fresh
          /\ new.phase # "spawn" => l \in alive'
  BY <1>6
<1>13. new.phase # "pick"
  OBVIOUS
<1> HIDE DEF TermInv
<1> QED
  BY <1>7, <1>8, <1>9, <1>10, <1>11, <1>12, <1>13, TermMoves

LEMMA PlanStep ==
    ASSUME TermInv, NEW l \in Launcher, Terminals!Plan(l)
    PROVE  TermInv'
<1>1. run[l].phase = "plan" /\ UNCHANGED <<alive, files, since, asked>>
  BY DEF Terminals!Plan
<1>2. PICK r \in Launcher : r = run[l].row
  BY <1>1 DEF TermInv, RowsNamed
<1>3. row[r] \in RowType /\ run[l] \in LaunchType
  BY DEF TermInv, TermTypeOK
<1>4. PICK found \in Launcher \union {Terminals!None} :
         found = IF run[l].native = Terminals!None THEN Terminals!None
                 ELSE Terminals!Discovered(r, run[l].native)
  BY DiscoveredIsThere DEF TermInv, TermTypeOK
<1>5. IF found # Terminals!None
      THEN /\ row' = IF run[l].file /\ found = run[l].native THEN row
                     ELSE [row EXCEPT ![r].native = found, ![r].file = TRUE]
           /\ Terminals!Goes(l, [run[l] EXCEPT !.phase = "takeover", !.native = found])
      ELSE /\ row' = [row EXCEPT ![r].status = "missing_transcript"]
           /\ Terminals!Goes(l, [run[l] EXCEPT !.phase = "insert", !.native = Terminals!None])
  BY <1>2, <1>4 DEF Terminals!Plan
<1>6. CASE found # Terminals!None
  <2>1. PICK new, newRow : /\ new = [run[l] EXCEPT !.phase = "takeover", !.native = found]
                           /\ newRow = IF run[l].file /\ found = run[l].native THEN row[r]
                                       ELSE [row[r] EXCEPT !.native = found, !.file = TRUE]
    OBVIOUS
  <2>2. new \in LaunchType /\ new.phase = "takeover" /\ new.row = run[l].row /\ new.seen = run[l].seen
    BY <1>3, <1>4, <2>1 DEF LaunchType, LaunchPhase
  <2>3. newRow \in RowType
    BY <1>3, <1>4, <2>1 DEF RowType
  <2>4. row' = [row EXCEPT ![run[l].row] = newRow] /\ run' = [run EXCEPT ![l] = new]
    <3>1. CASE run[l].file /\ found = run[l].native
      BY <1>2, <1>5, <1>6, <2>1, <3>1 DEF Terminals!Goes, TermInv, TermTypeOK
    <3>2. CASE ~(run[l].file /\ found = run[l].native)
      BY <1>2, <1>3, <1>5, <1>6, <2>1, <3>2 DEF Terminals!Goes, TermInv, TermTypeOK
    <3> QED
      BY <3>1, <3>2
  <2> QED
    BY <1>1, <2>2, <2>3, <2>4, NamedRowMoves
<1>7. CASE found = Terminals!None
  <2>1. PICK new, newRow : /\ new = [run[l] EXCEPT !.phase = "insert", !.native = Terminals!None]
                           /\ newRow = [row[r] EXCEPT !.status = "missing_transcript"]
    OBVIOUS
  <2>2. new \in LaunchType /\ new.phase = "insert" /\ new.row = run[l].row /\ new.seen = run[l].seen
    BY <1>3, <1>4, <2>1 DEF LaunchType, LaunchPhase
  <2>3. newRow \in RowType
    BY <1>3, <1>4, <2>1 DEF RowType
  <2>4. row' = [row EXCEPT ![run[l].row] = newRow] /\ run' = [run EXCEPT ![l] = new]
    BY <1>2, <1>3, <1>5, <1>7, <2>1 DEF Terminals!Goes, TermInv, TermTypeOK
  <2> QED
    BY <1>1, <2>2, <2>3, <2>4, NamedRowMoves
<1> QED
  BY <1>6, <1>7

LEMMA TakeOverStep ==
    ASSUME TermInv, NEW l \in Launcher, Terminals!TakeOver(l)
    PROVE  TermInv'
<1>1. PICK r \in Launcher : r = run[l].row
  BY DEF Terminals!TakeOver, TermInv, RowsNamed
<1>2. row[r] \in RowType /\ run[l] \in LaunchType
  BY DEF TermInv, TermTypeOK
<1>3. PICK new, newRow : /\ new = [run[l] EXCEPT !.phase = "spawn"]
                         /\ newRow = [row[r] EXCEPT !.status = "active"]
  OBVIOUS
<1>4. new \in LaunchType /\ new.phase = "spawn" /\ new.row = run[l].row /\ new.seen = run[l].seen
  BY <1>2, <1>3 DEF LaunchType, LaunchPhase
<1>5. newRow \in RowType
  BY <1>2, <1>3 DEF RowType
<1>6. run[l].phase = "takeover" /\ UNCHANGED <<alive, files, since, asked>>
  BY DEF Terminals!TakeOver
<1>7. row' = [row EXCEPT ![run[l].row] = newRow] /\ run' = [run EXCEPT ![l] = new]
  BY <1>1, <1>2, <1>3 DEF Terminals!TakeOver, Terminals!Goes, TermInv, TermTypeOK
<1> QED
  BY <1>4, <1>5, <1>6, <1>7, NamedRowMoves

LEMMA RegisterStep ==
    ASSUME TermInv, NEW l \in Launcher, Terminals!Register(l)
    PROVE  TermInv'
<1>1. PICK r \in Launcher : r = run[l].row
  BY DEF Terminals!Register, TermInv, RowsNamed
<1>2. row[r] \in RowType /\ run[l] \in LaunchType
  BY DEF TermInv, TermTypeOK
<1>3. PICK new, newRow : /\ new = [run[l] EXCEPT !.phase = "running"]
                         /\ newRow = [row[r] EXCEPT !.status = "active", !.pid = l, !.fresh = TRUE]
  OBVIOUS
<1>4. new \in LaunchType /\ new.phase = "running" /\ new.row = run[l].row /\ new.seen = run[l].seen
  BY <1>2, <1>3 DEF LaunchType, LaunchPhase
<1>5. newRow \in RowType /\ newRow.status = "active" /\ newRow.pid = l /\ newRow.file = row[r].file
  BY <1>2, <1>3 DEF RowType
<1>6. run[l].phase = "register" /\ UNCHANGED <<alive, files, since, asked>>
  BY DEF Terminals!Register
<1>7. row' = [row EXCEPT ![run[l].row] = newRow] /\ run' = [run EXCEPT ![l] = new]
  BY <1>1, <1>2, <1>3 DEF Terminals!Register, Terminals!Goes, TermInv, TermTypeOK
<1>8. run[l].row = l => Working(l)
  BY <1>6 DEF Working, Inserted
<1> QED
  BY <1>1, <1>4, <1>5, <1>6, <1>7, <1>8, NamedRowMoves

LEMMA HeartbeatStep ==
    ASSUME TermInv, NEW l \in Launcher, Terminals!Heartbeat(l)
    PROVE  TermInv'
<1>1. PICK r \in Launcher : r = run[l].row
  BY DEF Terminals!Heartbeat, TermInv, RowsNamed
<1>2. row[r] \in RowType /\ Inserted(r)
  BY <1>1 DEF TermInv, TermTypeOK, RowsNamed
<1>3. PICK newRow : newRow = [row[r] EXCEPT !.fresh = TRUE]
  OBVIOUS
<1>4. /\ newRow \in RowType /\ newRow.status = row[r].status /\ newRow.pid = row[r].pid
      /\ newRow.file = row[r].file
  BY <1>2, <1>3 DEF RowType
<1>5. run[l].phase = "running" /\ UNCHANGED <<alive, files, since, run, asked>>
  BY DEF Terminals!Heartbeat
<1>6. row' = [row EXCEPT ![r] = newRow]
  BY <1>1, <1>2, <1>3 DEF Terminals!Heartbeat, TermInv, TermTypeOK
<1>7. Working(r) /\ r \notin asked => row[r].status = "active" /\ ~row[r].file /\ run[r].phase = "running"
  BY <1>1, <1>5 DEF TermInv, RowKept
<1> HIDE DEF TermInv
<1> QED
  BY <1>2, <1>4, <1>5, <1>6, <1>7, RowMoves

LEMMA FinishStep ==
    ASSUME TermInv, NEW l \in Launcher, Terminals!Finish(l)
    PROVE  TermInv' /\ Terminals!FinishesWithItsOwn
<1>1. PICK r \in Launcher : r = run[l].row
  BY DEF Terminals!Finish, TermInv, RowsNamed
<1>2. row[r] \in RowType /\ run[l] \in LaunchType /\ files \in Seq(Launcher)
  BY DEF TermInv, TermTypeOK
<1>3. PICK found \in Launcher \union {Terminals!None} : found = Terminals!Discovered(r, run[l].native)
  BY <1>2, DiscoveredIsThere
<1>4. PICK status \in {"resumable", "failed"} :
         row' = [row EXCEPT ![r] = Terminals!Closed(row[r], found, status)]
  BY <1>1, <1>3 DEF Terminals!Finish
<1>5. PICK new : new = [run[l] EXCEPT !.phase = "done"]
  OBVIOUS
<1>6. new \in LaunchType /\ new.phase = "done" /\ new.row = run[l].row /\ new.seen = run[l].seen
  BY <1>2, <1>5 DEF LaunchType, LaunchPhase
<1>7. PICK newRow : newRow = Terminals!Closed(row[r], found, status)
  OBVIOUS
<1>8. newRow \in RowType /\ (found # Terminals!None => newRow.native = found)
  BY <1>2, <1>3, <1>7 DEF RowType, Terminals!Closed
<1>9. run[l].phase = "finish" /\ UNCHANGED <<alive, files, since, asked>>
  BY DEF Terminals!Finish
<1>10. row' = [row EXCEPT ![run[l].row] = newRow] /\ run' = [run EXCEPT ![l] = new]
  BY <1>1, <1>4, <1>5, <1>7 DEF Terminals!Finish, Terminals!Goes
<1>11. TermInv'
  BY <1>6, <1>8, <1>9, <1>10, NamedRowMoves
<1>12. row'[r] = newRow /\ \A m \in Launcher \ {l} : run'[m] = run[m]
  BY <1>1, <1>10 DEF TermInv, TermTypeOK
<1>13. run[l].native \in Terminals!Range(files) => newRow.native = run[l].native
  BY <1>2, <1>3, <1>8, Transcripts, TerminalAssumption DEF Terminals!Discovered
<1>14. ASSUME run[l].native = Terminals!None, since[r] = {l}, l \in Terminals!Range(files)
       PROVE  newRow.native = l
  <2>1. PICK i \in DOMAIN files : files[i] = l
    BY <1>14 DEF Terminals!Range
  <2>2. Terminals!OfDirectory(r) # {}
    BY <1>14, <2>1 DEF Terminals!OfDirectory
  <2>3. Terminals!OfDirectory(r) \subseteq Nat
    BY <1>2, Transcripts DEF Terminals!OfDirectory
  <2>4. Terminals!Min(Terminals!OfDirectory(r)) \in Terminals!OfDirectory(r)
    BY <2>2, <2>3, FirstPosition
  <2>5. Terminals!Latest(r) = l
    BY <1>14, <2>2, <2>4 DEF Terminals!Latest, Terminals!OfDirectory
  <2>6. found = l
    BY <1>2, <1>3, <1>14, <2>5, Transcripts, TerminalAssumption DEF Terminals!Discovered
  <2> QED
    BY <1>8, <2>6, TerminalAssumption
<1>15. Terminals!FinishesWithItsOwn
  <2> SUFFICES ASSUME NEW m \in Launcher, run[m].phase = "finish", run'[m].phase = "done"
               PROVE  /\ run[m].native \in Terminals!Range(files) => row'[run[m].row].native = run[m].native
                      /\ run[m].native = Terminals!None /\ since[run[m].row] = {m} /\ m \in Terminals!Range(files)
                            => row'[run[m].row].native = m
    BY DEF Terminals!FinishesWithItsOwn
  <2>1. m = l
    BY <1>12
  <2> QED
    BY <1>1, <1>12, <1>13, <1>14, <2>1
<1> QED
  BY <1>11, <1>15

\* No other step ends a session.
LEMMA NoFinish ==
    ASSUME TermInv, NEW l \in Launcher, NEW new, Terminals!Goes(l, new), run[l].phase # "finish"
    PROVE  Terminals!FinishesWithItsOwn
<1>1. \A m \in Launcher \ {l} : run'[m] = run[m]
  BY DEF Terminals!Goes, TermInv, TermTypeOK
<1> QED
  BY <1>1 DEF Terminals!FinishesWithItsOwn

LEMMA NoneFinishes ==
    ASSUME UNCHANGED run
    PROVE  Terminals!FinishesWithItsOwn
BY DEF Terminals!FinishesWithItsOwn

LEMMA TerminalsStep ==
    ASSUME TermInv, Terminals!TermNext
    PROVE  TermInv' /\ Terminals!FinishesWithItsOwn
<1>1. ASSUME NEW l \in Launcher, Terminals!HealBegins(l)
      PROVE  TermInv' /\ Terminals!FinishesWithItsOwn
  BY <1>1, HealBeginsStep, NoFinish DEF Terminals!HealBegins, Terminals!AfterHeal
<1>2. ASSUME NEW l \in Launcher, Terminals!HealOne(l)
      PROVE  TermInv' /\ Terminals!FinishesWithItsOwn
  BY <1>2, HealOneStep, NoFinish DEF Terminals!HealOne, Terminals!AfterHeal
<1>3. ASSUME NEW l \in Launcher, Terminals!StartAfresh(l)
      PROVE  TermInv' /\ Terminals!FinishesWithItsOwn
  <2>1. run[l].phase # "finish"
    BY <1>3, ZenonT(30) DEF Terminals!StartAfresh
  <2>2. \E new : Terminals!Goes(l, new)
    BY <1>3, ZenonT(30) DEF Terminals!StartAfresh
  <2> QED
    BY <1>3, <2>1, <2>2, StartAfreshStep, NoFinish
<1>4. ASSUME NEW l \in Launcher, Terminals!Resolve(l) \/ Terminals!List(l) \/ Terminals!Pick(l)
      PROVE  TermInv' /\ Terminals!FinishesWithItsOwn
  <2>1. run[l].phase # "finish" /\ \E new : Terminals!Goes(l, new)
    BY <1>4 DEF Terminals!Resolve, Terminals!List, Terminals!Pick, Terminals!Resumes
  <2> QED
    BY <1>4, <2>1, ResolveStep, ListStep, PickStep, NoFinish
<1>5. ASSUME NEW l \in Launcher, Terminals!Plan(l)
      PROVE  TermInv' /\ Terminals!FinishesWithItsOwn
  <2>1. run[l].phase = "plan" /\ \E new : Terminals!Goes(l, new)
    BY <1>5 DEF Terminals!Plan
  <2> QED
    BY <1>5, <2>1, PlanStep, NoFinish
<1>6. ASSUME NEW l \in Launcher, Terminals!TakeOver(l)
      PROVE  TermInv' /\ Terminals!FinishesWithItsOwn
  BY <1>6, TakeOverStep, NoFinish DEF Terminals!TakeOver
<1>7. ASSUME NEW l \in Launcher, Terminals!Insert(l)
      PROVE  TermInv' /\ Terminals!FinishesWithItsOwn
  BY <1>7, InsertStep, NoFinish DEF Terminals!Insert
<1>8. ASSUME NEW l \in Launcher, Terminals!Spawn(l)
      PROVE  TermInv' /\ Terminals!FinishesWithItsOwn
  <2>1. run[l].phase = "spawn" /\ UNCHANGED <<row, files, since, asked>>
    BY <1>8 DEF Terminals!Spawn
  <2>2. run[l].row \in Launcher /\ alive \subseteq Launcher
    BY <2>1 DEF TermInv, TermTypeOK, RowsNamed
  <2>3. CASE alive' = alive \union {l} /\ Terminals!Goes(l, [run[l] EXCEPT !.phase = "register"])
    BY <2>1, <2>2, <2>3, PhaseMoves, NoFinish
  <2>4. CASE UNCHANGED alive /\ Terminals!Goes(l, [run[l] EXCEPT !.phase = "finish"])
    BY <2>1, <2>2, <2>4, PhaseMoves, NoFinish
  <2> QED
    BY <1>8, <2>3, <2>4 DEF Terminals!Spawn
<1>9. ASSUME NEW l \in Launcher, Terminals!Register(l)
      PROVE  TermInv' /\ Terminals!FinishesWithItsOwn
  BY <1>9, RegisterStep, NoFinish DEF Terminals!Register
<1>10. ASSUME NEW l \in Launcher, Terminals!Heartbeat(l)
       PROVE  TermInv' /\ Terminals!FinishesWithItsOwn
  BY <1>10, HeartbeatStep, NoneFinishes DEF Terminals!Heartbeat
<1>11. ASSUME NEW l \in Launcher, Terminals!Exit(l)
       PROVE  TermInv' /\ Terminals!FinishesWithItsOwn
  <2>1. /\ run[l].phase = "running" /\ UNCHANGED <<row, files, since, asked>>
        /\ alive' = alive \ {l} /\ Terminals!Goes(l, [run[l] EXCEPT !.phase = "finish"])
    BY <1>11 DEF Terminals!Exit
  <2>2. run[l].row \in Launcher /\ alive \subseteq Launcher
    BY <2>1 DEF TermInv, TermTypeOK, RowsNamed
  <2> QED
    BY <2>1, <2>2, PhaseMoves, NoFinish
<1>12. ASSUME NEW l \in Launcher, Terminals!Finish(l)
       PROVE  TermInv' /\ Terminals!FinishesWithItsOwn
  BY <1>12, FinishStep
<1>13. ASSUME NEW l \in Launcher, Terminals!Killed(l)
       PROVE  TermInv' /\ Terminals!FinishesWithItsOwn
  <2>1. /\ alive' \in {alive, alive \ {l}} /\ UNCHANGED <<row, files, since, asked>>
        /\ Terminals!Goes(l, [run[l] EXCEPT !.phase = "dead"])
    BY <1>13 DEF Terminals!Killed
  <2>2. alive \subseteq Launcher
    BY DEF TermInv, TermTypeOK
  <2>3. TermInv'
    BY <2>1, <2>2, PhaseMoves
  <2>4. run'[l].phase = "dead" /\ \A m \in Launcher \ {l} : run'[m] = run[m]
    BY <2>1 DEF Terminals!Goes, TermInv, TermTypeOK, LaunchType
  <2>5. Terminals!FinishesWithItsOwn
    BY <2>4 DEF Terminals!FinishesWithItsOwn
  <2> QED
    BY <2>3, <2>5
<1>14. ASSUME NEW l \in Launcher, Terminals!OrphanEnds(l)
       PROVE  TermInv' /\ Terminals!FinishesWithItsOwn
  <2>1. /\ run[l].phase = "dead" /\ alive' = alive \ {l}
        /\ UNCHANGED <<row, files, since, run, asked>>
    BY <1>14 DEF Terminals!OrphanEnds
  <2>2. \A m \in Launcher : Working(m) => m # l
    BY <2>1 DEF Working
  <2>3. files' \in Seq(Launcher) /\ since' \in [Launcher -> SUBSET Launcher] /\ alive' \subseteq Launcher
    BY <2>1 DEF TermInv, TermTypeOK
  <2> QED
    BY <2>1, <2>2, <2>3, FilesMove, NoneFinishes
<1>15. ASSUME NEW l \in Launcher, Terminals!Writes(l)
       PROVE  TermInv' /\ Terminals!FinishesWithItsOwn
  <2>1. PICK n \in Launcher : n = Terminals!Own(l)
    BY DEF Terminals!Own, TermInv, TermTypeOK, LaunchType
  <2>2. /\ files' = <<n>> \o Terminals!Without(n)
        /\ since' = [r \in Launcher |-> IF r \in Terminals!Rows THEN since[r] \union {n} ELSE {}]
        /\ UNCHANGED <<row, alive, run, asked>>
    BY <1>15, <2>1 DEF Terminals!Writes
  <2>3. files' \in Seq(Launcher)
    <3>1. Terminals!Without(n) \in Seq(Launcher)
      BY WithoutIsOne DEF TermInv, TermTypeOK
    <3> QED
      BY <2>2, <3>1
  <2>4. since' \in [Launcher -> SUBSET Launcher] /\ alive' \subseteq Launcher
    BY <2>2 DEF TermInv, TermTypeOK
  <2> QED
    BY <2>2, <2>3, <2>4, FilesMove, NoneFinishes
<1>16. ASSUME NEW n \in Launcher, Terminals!Delete(n)
       PROVE  TermInv' /\ Terminals!FinishesWithItsOwn
  <2>1. files' = Terminals!Without(n) /\ UNCHANGED <<row, alive, since, run, asked>>
    BY <1>16 DEF Terminals!Delete
  <2>2. files' \in Seq(Launcher) /\ since' \in [Launcher -> SUBSET Launcher] /\ alive' \subseteq Launcher
    BY <2>1, WithoutIsOne DEF TermInv, TermTypeOK
  <2> QED
    BY <2>1, <2>2, FilesMove, NoneFinishes
<1>17. ASSUME NEW r \in Launcher, Terminals!DoctorMarks(r)
       PROVE  TermInv' /\ Terminals!FinishesWithItsOwn
  <2>1. PICK newRow : newRow = [row[r] EXCEPT !.status = "missing_transcript"]
    OBVIOUS
  <2>2. row[r] \in RowType
    BY DEF TermInv, TermTypeOK
  <2>3. newRow \in RowType
    BY <2>1, <2>2 DEF RowType
  <2>4. /\ row[r].file /\ row[r] # Terminals!NoRow /\ row' = [row EXCEPT ![r] = newRow]
        /\ UNCHANGED <<alive, files, since, run, asked>>
    BY <1>17, <2>1, <2>2 DEF Terminals!DoctorMarks, Terminals!Rows, TermInv, TermTypeOK
  <2>5. Inserted(r) /\ ~(Working(r) /\ r \notin asked)
    BY <2>4 DEF TermInv, RowsNamed, RowKept
  <2> QED
    BY <2>3, <2>4, <2>5, RowMoves, NoneFinishes
<1>18. ASSUME NEW r \in Launcher, Terminals!Ages(r)
       PROVE  TermInv' /\ Terminals!FinishesWithItsOwn
  <2>1. PICK newRow : newRow = [row[r] EXCEPT !.fresh = FALSE]
    OBVIOUS
  <2>2. row[r] \in RowType
    BY DEF TermInv, TermTypeOK
  <2>3. /\ newRow \in RowType /\ newRow.status = row[r].status /\ newRow.file = row[r].file
        /\ newRow.pid = row[r].pid
    BY <2>1, <2>2 DEF RowType
  <2>4. /\ run[r].phase \notin {"spawn", "register"} /\ row[r] # Terminals!NoRow
        /\ row' = [row EXCEPT ![r] = newRow]
        /\ UNCHANGED <<alive, files, since, run, asked>>
    BY <1>18, <2>1, <2>2 DEF Terminals!Ages, Terminals!Rows, TermInv, TermTypeOK
  <2>5. Inserted(r)
    BY <2>4 DEF TermInv, RowsNamed
  <2>6. Working(r) /\ r \notin asked => row[r].status = "active" /\ ~row[r].file /\ run[r].phase = "running"
    BY <2>4 DEF TermInv, RowKept, Working
  <2> QED
    BY <2>3, <2>4, <2>5, <2>6, RowMoves, NoneFinishes
<1> QED
  BY <1>1, <1>2, <1>3, <1>4, <1>5, <1>6, <1>7, <1>8, <1>9, <1>10, <1>11, <1>12, <1>13, <1>14, <1>15,
     <1>16, <1>17, <1>18 DEF Terminals!TermNext

LEMMA TerminalsStutter ==
    ASSUME TermInv, UNCHANGED <<row, alive, files, since, run, asked, mishaps>>
    PROVE  TermInv' /\ Terminals!FinishesWithItsOwn
<1>1. files' \in Seq(Launcher) /\ since' \in [Launcher -> SUBSET Launcher] /\ alive' \subseteq Launcher
  BY DEF TermInv, TermTypeOK
<1> QED
  BY <1>1, FilesMove, NoneFinishes

-----------------------------------------------------------------------------
(***************************************************************************)
(* Loads of the code graph.  A load that nothing ran into is the only one  *)
(* at work, and the store is as far as it is; loads of one file that all   *)
(* go well leave its graph, or nothing while one has yet to fill it.       *)
(***************************************************************************)
StoreRecord(s) ==
    /\ s = [nodes |-> s.nodes, edges |-> s.edges, degree |-> s.degree, stamp |-> s.stamp]
    /\ s.stamp = [k \in 1..Len(Load!Stamps) |-> s.stamp[k]]
LoadRecord(r) == r = [step |-> r.step, graph |-> r.graph, rows |-> r.rows, seen |-> r.seen,
                      time |-> r.time, stamps |-> r.stamps]
StampsLeft(r) ==
    /\ r.stamps \in Nat /\ (r.step # "done" => r.stamps < Len(Load!Stamps))
    /\ r.step \in {"new", "clear", "nodes", "edges", "readback", "write", "stat"} => r.stamps = 0
Begun == {l \in Load!Loaders : load[l].step # "new"}

LoadTypeOK ==
    /\ json \in 0..Len(Graphs) /\ StoreRecord(store)
    /\ load = [l \in Load!Loaders |-> load[l]]
    /\ \A l \in Load!Loaders :
          /\ LoadRecord(load[l]) /\ StampsLeft(load[l]) /\ load[l].graph \in 0..json
          /\ load[l].step \in {"new", "clear", "nodes", "edges", "readback", "write", "stat", "stamp", "done", "failed"}
          /\ Load!AtWork(l) => load[l].graph > 0

HoldsGraph(g) == store.nodes = Graphs[g].nodes /\ store.edges = Graphs[g].edges
NothingStored == store.nodes = {} /\ store.edges = {}

\* While the loads of one file all go well, the store has its graph, or nothing as long as
\* one of them has yet to fill it.
Agreed ==
    (\A l \in Begun : load[l].graph = json /\ load[l].step # "failed")
       /\ (\E l \in Begun : load[l].step # "clear")
    => \/ HoldsGraph(json)
       \/ NothingStored /\ \E l \in Begun : load[l].step \in {"nodes", "edges"}

\* How far a load has got that nothing ran into.
Progress(l) ==
    LET g == Graphs[load[l].graph] IN
    CASE load[l].step \in {"nodes", "edges"} -> NothingStored /\ store.degree = {}
      [] load[l].step = "readback" -> HoldsGraph(load[l].graph) /\ store.degree = {<<n, 0>> : n \in g.nodes}
      [] load[l].step = "write" -> /\ HoldsGraph(load[l].graph) /\ store.degree = {<<n, 0>> : n \in g.nodes}
                                   /\ load[l].seen = g.edges
      [] load[l].step \in {"stat", "stamp"} ->
            /\ HoldsGraph(load[l].graph)
            /\ store.degree = {<<n, Load!InDegree(n, g.edges)>> : n \in g.nodes}
            /\ load[l].step = "stamp" =>
                  /\ load[l].time = load[l].graph
                  /\ \A k \in 1..load[l].stamps : store.stamp[k] = load[l].graph
      [] OTHER -> TRUE

Alone ==
    \A l \in Load!Loaders : Load!AtWork(l) /\ l \notin met =>
       /\ load[l].graph = json /\ Progress(l)
       /\ \A m \in Load!Loaders \ {l} : ~Load!AtWork(m)

LoadInv == LoadTypeOK /\ Load!ReadersSeeWholeGraphs /\ Agreed /\ Alone

LEMMA LoadsSafe ==
    ASSUME LoadInv
    PROVE  Load!GraphLoadSound
<1> SUFFICES ASSUME \A l \in Load!Loaders : ~Load!AtWork(l),
                    \A l \in Load!Loaders : Load!Steps(l) # "new" => Load!Steps(l) = "done" /\ load[l].graph = json,
                    \E l \in Load!Loaders : Load!Steps(l) = "done"
             PROVE  store.nodes = Graphs[json].nodes /\ store.edges = Graphs[json].edges
  BY DEF Load!GraphLoadSound, Load!OverlapKeepsContent, LoadInv
<1>1. \A l \in Begun : load[l].step = "done" /\ load[l].graph = json
  BY DEF Begun, Load!Steps
<1>2. \E l \in Begun : load[l].step = "done"
  BY DEF Begun, Load!Steps
<1>3. HoldsGraph(json)
  BY <1>1, <1>2 DEF LoadInv, Agreed
<1> QED
  BY <1>3 DEF HoldsGraph

LEMMA SixStamps == Len(Load!Stamps) = 6
BY DEF Load!Stamps

LEMMA LoadsStart ==
    ASSUME Load!GraphInit
    PROVE  LoadInv
<1>1. /\ json = 0 /\ load = [l \in Load!Loaders |-> Load!Fresh]
      /\ store = [nodes |-> {}, edges |-> {}, degree |-> {}, stamp |-> [k \in 1..Len(Load!Stamps) |-> 0]]
  BY DEF Load!GraphInit
<1>2. \A l \in Load!Loaders : /\ load[l] = Load!Fresh /\ load[l].step = "new" /\ load[l].graph = 0
                              /\ LoadRecord(load[l]) /\ StampsLeft(load[l])
  BY <1>1, SixStamps DEF Load!Fresh, LoadRecord, StampsLeft
<1>3. StoreRecord(store) /\ store.nodes = {} /\ store.edges = {}
  BY <1>1 DEF StoreRecord
<1>4. LoadTypeOK
  BY <1>1, <1>2, <1>3, GraphsAssumption DEF LoadTypeOK, Load!AtWork, Load!Steps
<1>5. Load!ReadersSeeWholeGraphs
  <2>1. {} \in SUBSET Load!Good /\ UNION {Graphs[i].nodes : i \in {}} = {} /\ UNION {Graphs[i].edges : i \in {}} = {}
    OBVIOUS
  <2> QED
    BY <1>3, <2>1 DEF Load!ReadersSeeWholeGraphs
<1>6. Begun = {}
  BY <1>2 DEF Begun
<1>7. Agreed
  BY <1>6 DEF Agreed
<1>8. Alone
  BY <1>2 DEF Alone, Load!AtWork, Load!Steps
<1> QED
  BY <1>4, <1>5, <1>7, <1>8 DEF LoadInv

LEMMA LoadGoes ==
    ASSUME LoadTypeOK, NEW l \in Load!Loaders, NEW new, Load!Moved(l, new)
    PROVE  /\ load' = [m \in Load!Loaders |-> load'[m]] /\ load'[l] = new
           /\ \A m \in Load!Loaders \ {l} : load'[m] = load[m]
<1>1. load' = [load EXCEPT ![l] = new]
  BY DEF Load!Moved
<1>2. load = [m \in Load!Loaders |-> load[m]]
  BY DEF LoadTypeOK
<1>3. load' = [m \in Load!Loaders |-> IF m = l THEN new ELSE load[m]]
  BY <1>1, <1>2
<1> QED
  BY <1>3

\* A load at work gets further, in step with the store.
LEMMA LoadMoves ==
    ASSUME LoadInv, NEW l \in Load!Loaders, NEW new, LoadRecord(new), Load!Moved(l, new),
           Load!AtWork(l), new.graph = load[l].graph,
           new.step \in {"nodes", "edges", "readback", "write", "stat", "stamp", "done", "failed"},
           \/ new.stamps = load[l].stamps /\ (load[l].step = "stamp" => new.step = "failed")
           \/ StampsLeft(new),
           UNCHANGED <<json, met>>, StoreRecord(store'), Load!ReadersSeeWholeGraphs',
           new.step # "failed" => Agreed',
           new.step \notin {"done", "failed"} /\ l \notin met => Progress(l)'
    PROVE  LoadInv'
<1>1. /\ load' = [m \in Load!Loaders |-> load'[m]] /\ load'[l] = new
      /\ \A m \in Load!Loaders \ {l} : load'[m] = load[m]
  BY LoadGoes DEF LoadInv
<1>2. LoadTypeOK'
  <2>1. StampsLeft(load'[l])
    BY <1>1 DEF LoadInv, LoadTypeOK, StampsLeft, Load!AtWork, Load!Steps
  <2> QED
    BY <1>1, <2>1 DEF LoadInv, LoadTypeOK, Load!AtWork, Load!Steps
<1>3. Agreed'
  <2>1. CASE new.step = "failed"
    <3>1. l \in Begun' /\ load'[l].step = "failed"
      BY <1>1, <2>1 DEF Begun
    <3> QED
      BY <3>1 DEF Agreed
  <2> QED
    BY <2>1
<1>4. Alone'
  <2>1. \A m \in Load!Loaders : Load!AtWork(m)' => Load!AtWork(m)
    BY <1>1 DEF Load!AtWork, Load!Steps
  <2> SUFFICES ASSUME NEW k \in Load!Loaders, Load!AtWork(k)', k \notin met
               PROVE  /\ load'[k].graph = json /\ Progress(k)'
                      /\ \A m \in Load!Loaders \ {k} : ~Load!AtWork(m)'
    BY DEF Alone
  <2>2. Load!AtWork(k) /\ load[k].graph = json /\ \A m \in Load!Loaders \ {k} : ~Load!AtWork(m)
    BY <2>1 DEF LoadInv, Alone
  <2>3. k = l
    BY <2>2
  <2>4. new.step \notin {"done", "failed"}
    BY <1>1, <2>3 DEF Load!AtWork, Load!Steps
  <2> QED
    BY <1>1, <2>1, <2>2, <2>3, <2>4
<1> QED
  BY <1>2, <1>3, <1>4 DEF LoadInv

\* As long as the store keeps its graph, the readers see what they saw.
LEMMA StoreKept ==
    ASSUME Load!ReadersSeeWholeGraphs, store'.nodes = store.nodes, store'.edges = store.edges
    PROVE  Load!ReadersSeeWholeGraphs'
BY DEF Load!ReadersSeeWholeGraphs

LEMMA LoadFails ==
    ASSUME LoadInv, NEW l \in Load!Loaders, Load!AtWork(l),
           Load!Moved(l, [load[l] EXCEPT !.step = "failed"]), UNCHANGED <<json, met, store>>
    PROVE  LoadInv' /\ Load!LoneLoadIsRight
<1>1. PICK new : new = [load[l] EXCEPT !.step = "failed"]
  OBVIOUS
<1>2. LoadRecord(new) /\ new.step = "failed" /\ new.graph = load[l].graph /\ new.stamps = load[l].stamps
  <2>1. LoadRecord(load[l])
    BY DEF LoadInv, LoadTypeOK
  <2> QED
    BY <1>1, <2>1 DEF LoadRecord
<1>3. LoadInv'
  <2>1. StoreRecord(store') /\ Load!ReadersSeeWholeGraphs'
    BY StoreKept DEF LoadInv, LoadTypeOK, StoreRecord
  <2> QED
    BY <1>1, <1>2, <2>1, LoadMoves
<1>4. Load!LoneLoadIsRight
  <2>1. load'[l] = new /\ \A m \in Load!Loaders \ {l} : load'[m] = load[m]
    BY <1>1, LoadGoes DEF LoadInv
  <2> QED
    BY <1>2, <2>1 DEF Load!LoneLoadIsRight, Load!Steps
<1> QED
  BY <1>3, <1>4

\* Steps before the stamp finish no load.
LEMMA NotStamped ==
    ASSUME LoadInv, NEW l \in Load!Loaders, NEW new, Load!Moved(l, new), new.step # "done"
    PROVE  Load!LoneLoadIsRight
<1>1. load'[l] = new /\ \A m \in Load!Loaders \ {l} : load'[m] = load[m]
  BY LoadGoes DEF LoadInv
<1> QED
  BY <1>1 DEF Load!LoneLoadIsRight, Load!Steps

\* The steps of a load that leave the entities and relations agree with the others' still.
LEMMA AgreedKept ==
    ASSUME LoadInv, NEW l \in Load!Loaders, NEW new, Load!Moved(l, new),
           new.graph = load[l].graph, UNCHANGED json,
           store'.nodes = store.nodes, store'.edges = store.edges,
           \/ load[l].step = "nodes" /\ new.step \in {"nodes", "edges"}
           \/ /\ load[l].step \in {"readback", "write", "stat", "stamp"}
              /\ new.step \in {"write", "stat", "stamp", "done"}
    PROVE  Agreed'
<1>1. load'[l] = new /\ \A m \in Load!Loaders \ {l} : load'[m] = load[m]
  BY LoadGoes DEF LoadInv
<1>2. Begun' = Begun /\ l \in Begun
  BY <1>1 DEF Begun
<1> SUFFICES ASSUME \A m \in Begun : load'[m].graph = json /\ load'[m].step # "failed"
             PROVE  HoldsGraph(json)' \/ (NothingStored' /\ \E m \in Begun : load'[m].step \in {"nodes", "edges"})
  BY <1>2 DEF Agreed
<1>3. \A m \in Begun : load[m].graph = json /\ load[m].step # "failed"
  BY <1>1, <1>2 DEF Begun
<1>4. load[l].step # "clear"
  OBVIOUS
<1>5. HoldsGraph(json) \/ (NothingStored /\ \E m \in Begun : load[m].step \in {"nodes", "edges"})
  BY <1>2, <1>3, <1>4 DEF LoadInv, Agreed
<1>6. \A m \in Begun : load[m].step \in {"nodes", "edges"} => load'[m].step \in {"nodes", "edges"}
  BY <1>1 DEF Begun
<1> QED
  BY <1>5, <1>6 DEF HoldsGraph, NothingStored

LEMMA RebuildStep ==
    ASSUME LoadInv, Load!Rebuild
    PROVE  LoadInv' /\ Load!LoneLoadIsRight
<1>1. /\ json < Len(Graphs) /\ json' = json + 1 /\ UNCHANGED <<store, load>>
      /\ met' = met \union {l \in Load!Loaders : Load!AtWork(l)}
  BY DEF Load!Rebuild
<1>2. json \in Nat /\ json' \in 0..Len(Graphs) /\ json <= json'
  BY <1>1, GraphsAssumption DEF LoadInv, LoadTypeOK
<1>3. \A l \in Load!Loaders : load'[l] = load[l] /\ load[l].graph \in 0..json' /\ load[l].graph # json'
  BY <1>1, <1>2 DEF LoadInv, LoadTypeOK
<1>4. LoadTypeOK'
  BY <1>1, <1>2, <1>3 DEF LoadInv, LoadTypeOK, StoreRecord, LoadRecord, StampsLeft, Load!AtWork, Load!Steps
<1>5. Load!ReadersSeeWholeGraphs'
  BY <1>1, StoreKept DEF LoadInv
<1>6. Agreed'
  <2>1. \A l \in Begun' : l \in Load!Loaders
    BY DEF Begun
  <2> QED
    BY <1>3, <2>1 DEF Agreed
<1>7. Alone'
  <2>1. \A l \in Load!Loaders : Load!AtWork(l)' => l \in met'
    BY <1>1 DEF Load!AtWork, Load!Steps
  <2> QED
    BY <2>1 DEF Alone
<1>8. Load!LoneLoadIsRight
  BY <1>1 DEF Load!LoneLoadIsRight, Load!Steps
<1> QED
  BY <1>4, <1>5, <1>6, <1>7, <1>8 DEF LoadInv

LEMMA LoadsUnchanged ==
    ASSUME LoadInv, UNCHANGED <<json, store, load, met>>
    PROVE  LoadInv' /\ Load!LoneLoadIsRight
<1>1. LoadTypeOK'
  BY DEF LoadInv, LoadTypeOK, StoreRecord, LoadRecord, StampsLeft, Load!AtWork, Load!Steps
<1>2. Load!ReadersSeeWholeGraphs'
  BY StoreKept DEF LoadInv
<1>3. Begun' = Begun
  BY DEF Begun
<1>4. Agreed'
  BY <1>3 DEF LoadInv, Agreed, HoldsGraph, NothingStored
<1>5. Alone'
  BY DEF LoadInv, Alone, Progress, HoldsGraph, NothingStored, Load!AtWork, Load!Steps
<1>6. Load!LoneLoadIsRight
  BY DEF Load!LoneLoadIsRight, Load!Steps
<1> QED
  BY <1>1, <1>2, <1>4, <1>5, <1>6 DEF LoadInv

LEMMA ReadStep ==
    ASSUME LoadInv, NEW l \in Load!Loaders, Load!Read(l)
    PROVE  LoadInv' /\ Load!LoneLoadIsRight
<1>1. PICK new : /\ new = [load[l] EXCEPT !.step = "clear", !.graph = json]
                    \/ new = [load[l] EXCEPT !.step = "failed"]
                 /\ Load!Moved(l, new)
  BY DEF Load!Read
<1>2. /\ load[l].step = "new" /\ json > 0 /\ UNCHANGED <<json, store>>
      /\ met' = IF \E m \in Load!Loaders : Load!AtWork(m)
                THEN met \union {l} \union {m \in Load!Loaders : Load!AtWork(m)} ELSE met
  BY DEF Load!Read, Load!Steps
<1>3. LoadRecord(load[l]) /\ load[l].graph \in 0..json /\ json \in Nat
  BY DEF LoadInv, LoadTypeOK
<1>4. /\ LoadRecord(new) /\ new.stamps = load[l].stamps
      /\ \/ new.step = "clear" /\ new.graph = json
         \/ new.step = "failed" /\ new.graph = load[l].graph
  BY <1>1, <1>3 DEF LoadRecord
<1>5. /\ load' = [m \in Load!Loaders |-> load'[m]] /\ load'[l] = new
      /\ \A m \in Load!Loaders \ {l} : load'[m] = load[m]
  BY <1>1, LoadGoes DEF LoadInv
<1>6. LoadTypeOK'
  <2>1. new.graph \in 0..json /\ (new.step = "clear" => new.graph > 0)
    BY <1>2, <1>3, <1>4
  <2>3. StampsLeft(new)
    BY <1>2, <1>4 DEF LoadInv, LoadTypeOK, StampsLeft
  <2>2. \A m \in Load!Loaders :
          /\ LoadRecord(load'[m]) /\ StampsLeft(load'[m]) /\ load'[m].graph \in 0..json
          /\ load'[m].step \in {"new", "clear", "nodes", "edges", "readback", "write", "stat", "stamp", "done", "failed"}
          /\ load'[m].step \notin {"new", "done", "failed"} => load'[m].graph > 0
    <3> SUFFICES ASSUME NEW m \in Load!Loaders
                 PROVE  /\ LoadRecord(load'[m]) /\ StampsLeft(load'[m]) /\ load'[m].graph \in 0..json
                        /\ load'[m].step \in {"new", "clear", "nodes", "edges", "readback", "write", "stat", "stamp", "done", "failed"}
                        /\ load'[m].step \notin {"new", "done", "failed"} => load'[m].graph > 0
      OBVIOUS
    <3>1. CASE m = l
      BY <1>4, <1>5, <2>1, <2>3, <3>1
    <3>2. CASE m # l
      BY <1>5, <3>2 DEF LoadInv, LoadTypeOK, Load!AtWork, Load!Steps
    <3> QED
      BY <3>1, <3>2
  <2> QED
    BY <1>2, <1>5, <2>2 DEF LoadInv, LoadTypeOK, StoreRecord, LoadRecord, Load!AtWork, Load!Steps
<1>7. Load!ReadersSeeWholeGraphs'
  BY <1>2, StoreKept DEF LoadInv
<1>8. Agreed'
  <2> SUFFICES ASSUME \A m \in Begun' : load'[m].graph = json /\ load'[m].step # "failed",
                      NEW k \in Begun', load'[k].step # "clear"
               PROVE  HoldsGraph(json) \/ (NothingStored /\ \E m \in Begun' : load'[m].step \in {"nodes", "edges"})
    BY <1>2 DEF Agreed, HoldsGraph, NothingStored
  <2>1. new.step = "clear" /\ k # l
    BY <1>4, <1>5 DEF Begun
  <2>2. Begun \subseteq Begun' /\ l \notin Begun /\ k \in Begun /\ \A m \in Begun : load'[m] = load[m]
    BY <1>2, <1>5, <2>1 DEF Begun
  <2> QED
    BY <2>1, <2>2 DEF LoadInv, Agreed
<1>9. Alone'
  <2> SUFFICES ASSUME NEW k \in Load!Loaders, Load!AtWork(k)', k \notin met'
               PROVE  /\ load'[k].graph = json /\ Progress(k)'
                      /\ \A m \in Load!Loaders \ {k} : ~Load!AtWork(m)'
    BY <1>2 DEF Alone
  <2>1. \A m \in Load!Loaders \ {l} : Load!AtWork(m)' = Load!AtWork(m)
    BY <1>5 DEF Load!AtWork, Load!Steps
  <2>2. k = l
    BY <1>2, <2>1
  <2>3. \A m \in Load!Loaders : ~Load!AtWork(m)
    BY <1>2, <2>2
  <2>4. new.step = "clear" /\ new.graph = json
    BY <1>4, <1>5, <2>2 DEF Load!AtWork, Load!Steps
  <2>5. Progress(l)'
    BY <1>5, <2>4 DEF Progress
  <2> QED
    BY <1>5, <2>1, <2>2, <2>3, <2>4, <2>5
<1>10. Load!LoneLoadIsRight
  <2>1. new.step # "done"
    BY <1>4
  <2> QED
    BY <1>1, <2>1, NotStamped
<1> QED
  BY <1>6, <1>7, <1>8, <1>9, <1>10 DEF LoadInv

LEMMA ClearStep ==
    ASSUME LoadInv, NEW l \in Load!Loaders, Load!Clear(l)
    PROVE  LoadInv' /\ Load!LoneLoadIsRight
<1>1. PICK new : new = [load[l] EXCEPT !.step = "nodes"]
  OBVIOUS
<1>2. /\ load[l].step = "clear" /\ Load!Moved(l, new) /\ UNCHANGED <<json, met>>
      /\ store' = [store EXCEPT !.nodes = {}, !.edges = {}, !.degree = {}]
  BY <1>1 DEF Load!Clear, Load!Steps
<1>3. LoadRecord(new) /\ new.step = "nodes" /\ new.graph = load[l].graph /\ new.stamps = load[l].stamps
  <2>1. LoadRecord(load[l])
    BY DEF LoadInv, LoadTypeOK
  <2> QED
    BY <1>1, <2>1 DEF LoadRecord
<1>4. StoreRecord(store') /\ store'.nodes = {} /\ store'.edges = {} /\ store'.degree = {}
  BY <1>2 DEF LoadInv, LoadTypeOK, StoreRecord
<1>5. load'[l] = new /\ Load!AtWork(l)
  BY <1>2, LoadGoes DEF LoadInv, Load!AtWork, Load!Steps
<1>6. Load!ReadersSeeWholeGraphs'
  <2>1. {} \in SUBSET Load!Good /\ UNION {Graphs[i].nodes : i \in {}} = {} /\ UNION {Graphs[i].edges : i \in {}} = {}
    OBVIOUS
  <2> QED
    BY <1>4, <2>1 DEF Load!ReadersSeeWholeGraphs
<1>7. Agreed'
  <2>1. l \in Begun' /\ load'[l].step \in {"nodes", "edges"}
    BY <1>3, <1>5 DEF Begun
  <2> QED
    BY <1>4, <2>1 DEF Agreed, NothingStored
<1>8. Progress(l)'
  BY <1>3, <1>4, <1>5 DEF Progress, NothingStored
<1>9. LoadInv'
  BY <1>2, <1>3, <1>4, <1>5, <1>6, <1>7, <1>8, LoadMoves
<1> QED
  BY <1>2, <1>3, <1>9, NotStamped

LEMMA InsertNodeStep ==
    ASSUME LoadInv, NEW l \in Load!Loaders, Load!InsertNode(l)
    PROVE  LoadInv' /\ Load!LoneLoadIsRight
<1>1. load[l].step = "nodes" /\ UNCHANGED <<json, store, met>>
  BY DEF Load!InsertNode, Load!Steps
<1>2. PICK rows, s : /\ s \in {"nodes", "edges"}
                     /\ Load!Moved(l, [load[l] EXCEPT !.rows = rows, !.step = s])
  <2>1. PICK n : Load!Moved(l, [load[l] EXCEPT
                    !.rows = [load[l].rows EXCEPT !.nodes = @ \union {n}],
                    !.step = IF [load[l].rows EXCEPT !.nodes = @ \union {n}].nodes = Load!Graph(l).nodes
                             THEN "edges" ELSE "nodes"])
    BY DEF Load!InsertNode
  <2>2. PICK rows : rows = [load[l].rows EXCEPT !.nodes = @ \union {n}]
    OBVIOUS
  <2>3. PICK s \in {"nodes", "edges"} : s = IF rows.nodes = Load!Graph(l).nodes THEN "edges" ELSE "nodes"
    OBVIOUS
  <2>4. Load!Moved(l, [load[l] EXCEPT !.rows = rows, !.step = s])
    BY <2>1, <2>2, <2>3
  <2> QED
    BY <2>4
<1>3. PICK new : new = [load[l] EXCEPT !.rows = rows, !.step = s]
  OBVIOUS
<1>4. LoadRecord(load[l])
  BY DEF LoadInv, LoadTypeOK
<1>5. LoadRecord(new) /\ new.step = s /\ new.graph = load[l].graph /\ new.stamps = load[l].stamps
  BY <1>3, <1>4 DEF LoadRecord
<1>6. load'[l] = new /\ Load!AtWork(l) /\ Load!Moved(l, new)
  BY <1>1, <1>2, <1>3, LoadGoes DEF LoadInv, Load!AtWork, Load!Steps
<1>7. StoreRecord(store') /\ Load!ReadersSeeWholeGraphs'
  BY <1>1, StoreKept DEF LoadInv, LoadTypeOK, StoreRecord
<1>8. Agreed'
  BY <1>1, <1>2, <1>5, <1>6, AgreedKept
<1>9. l \notin met => Progress(l)'
  <2>1. l \notin met => NothingStored /\ store.degree = {}
    BY <1>1, <1>6 DEF LoadInv, Alone, Progress
  <2> QED
    BY <1>1, <1>2, <1>5, <1>6, <2>1 DEF Progress, NothingStored
<1>10. LoadInv'
  BY <1>1, <1>2, <1>5, <1>6, <1>7, <1>8, <1>9, LoadMoves
<1> QED
  BY <1>2, <1>5, <1>6, <1>10, NotStamped

LEMMA InsertEdgesStep ==
    ASSUME LoadInv, NEW l \in Load!Loaders, Load!InsertEdgesAndCommit(l)
    PROVE  LoadInv' /\ Load!LoneLoadIsRight
<1>1. PICK new, g : new = [load[l] EXCEPT !.step = "readback"] /\ g = Graphs[load[l].graph]
  OBVIOUS
<1>2. /\ load[l].step = "edges" /\ ~g.bad /\ Load!Moved(l, new) /\ UNCHANGED <<json, met>>
      /\ store' = [store EXCEPT !.nodes = store.nodes \union g.nodes, !.edges = store.edges \union g.edges,
                      !.degree = {d \in store.degree : d[1] \notin g.nodes} \union {<<n, 0>> : n \in g.nodes}]
  BY <1>1 DEF Load!InsertEdgesAndCommit, Load!Steps, Load!Graph
<1>3. LoadRecord(new) /\ new.step = "readback" /\ new.graph = load[l].graph /\ new.stamps = load[l].stamps
  <2>1. LoadRecord(load[l])
    BY DEF LoadInv, LoadTypeOK
  <2> QED
    BY <1>1, <2>1 DEF LoadRecord
<1>4. /\ StoreRecord(store')
      /\ store'.nodes = store.nodes \union g.nodes /\ store'.edges = store.edges \union g.edges
      /\ store'.degree = {d \in store.degree : d[1] \notin g.nodes} \union {<<n, 0>> : n \in g.nodes}
  BY <1>2 DEF LoadInv, LoadTypeOK, StoreRecord
<1>5. /\ load'[l] = new /\ Load!AtWork(l)
      /\ \A m \in Load!Loaders \ {l} : load'[m] = load[m]
  BY <1>2, LoadGoes DEF LoadInv, Load!AtWork, Load!Steps
<1>6. load[l].graph \in Load!Good
  <2>1. load[l].graph \in 0..json /\ load[l].graph > 0 /\ json \in 0..Len(Graphs)
    BY <1>5 DEF LoadInv, LoadTypeOK
  <2>2. load[l].graph \in 1..Len(Graphs)
    BY <2>1, GraphsAssumption
  <2> QED
    BY <1>1, <1>2, <2>2 DEF Load!Good
<1>7. Load!ReadersSeeWholeGraphs'
  <2>1. PICK loaded \in SUBSET Load!Good :
           /\ store.nodes = UNION {Graphs[i].nodes : i \in loaded}
           /\ store.edges = UNION {Graphs[i].edges : i \in loaded}
    BY DEF LoadInv, Load!ReadersSeeWholeGraphs
  <2> DEFINE more == loaded \union {load[l].graph}
  <2>2. more \in SUBSET Load!Good
    BY <1>6
  <2>3. store'.nodes = UNION {Graphs[i].nodes : i \in more}
    BY <1>1, <1>4, <2>1
  <2>4. store'.edges = UNION {Graphs[i].edges : i \in more}
    BY <1>1, <1>4, <2>1
  <2> HIDE DEF more
  <2> QED
    BY <2>2, <2>3, <2>4 DEF Load!ReadersSeeWholeGraphs
<1>8. Agreed'
  <2> SUFFICES ASSUME \A m \in Begun' : load'[m].graph = json /\ load'[m].step # "failed"
               PROVE  HoldsGraph(json)'
    BY <1>2 DEF Agreed, HoldsGraph
  <2>1. Begun' = Begun /\ l \in Begun
    BY <1>2, <1>3, <1>5 DEF Begun
  <2>2. \A m \in Begun : load[m].graph = json /\ load[m].step # "failed"
    BY <1>2, <1>3, <1>5, <2>1 DEF Begun
  <2>3. HoldsGraph(json) \/ NothingStored
    BY <1>2, <2>1, <2>2 DEF LoadInv, Agreed
  <2>4. g = Graphs[json]
    BY <1>1, <2>1, <2>2
  <2>5. store'.nodes = Graphs[json].nodes /\ store'.edges = Graphs[json].edges
    BY <1>4, <2>3, <2>4 DEF HoldsGraph, NothingStored
  <2> QED
    BY <1>2, <2>5 DEF HoldsGraph
<1>9. l \notin met => Progress(l)'
  <2> SUFFICES ASSUME l \notin met
               PROVE  HoldsGraph(load[l].graph)' /\ store'.degree = {<<n, 0>> : n \in g.nodes}
    BY <1>1, <1>3, <1>5 DEF Progress, HoldsGraph
  <2>1. NothingStored /\ store.degree = {}
    BY <1>2, <1>5 DEF LoadInv, Alone, Progress
  <2>2. store'.nodes = g.nodes /\ store'.edges = g.edges /\ store'.degree = {<<n, 0>> : n \in g.nodes}
    BY <1>4, <2>1 DEF NothingStored
  <2> QED
    BY <1>1, <1>3, <1>5, <2>2 DEF HoldsGraph
<1>10. LoadInv'
  BY <1>2, <1>3, <1>4, <1>5, <1>7, <1>8, <1>9, LoadMoves
<1> QED
  BY <1>2, <1>3, <1>10, NotStamped

LEMMA ReadBackStep ==
    ASSUME LoadInv, NEW l \in Load!Loaders, Load!ReadBack(l)
    PROVE  LoadInv' /\ Load!LoneLoadIsRight
<1>1. PICK new : new = [load[l] EXCEPT !.step = "write", !.seen = store.edges]
  OBVIOUS
<1>2. load[l].step = "readback" /\ Load!Moved(l, new) /\ UNCHANGED <<json, store, met>>
  BY <1>1 DEF Load!ReadBack, Load!Steps
<1>3. LoadRecord(load[l])
  BY DEF LoadInv, LoadTypeOK
<1>4. /\ LoadRecord(new) /\ new.step = "write" /\ new.graph = load[l].graph /\ new.seen = store.edges
      /\ new.stamps = load[l].stamps
  BY <1>1, <1>3 DEF LoadRecord
<1>5. load'[l] = new /\ Load!AtWork(l)
  BY <1>2, LoadGoes DEF LoadInv, Load!AtWork, Load!Steps
<1>6. StoreRecord(store') /\ Load!ReadersSeeWholeGraphs'
  BY <1>2, StoreKept DEF LoadInv, LoadTypeOK, StoreRecord
<1>7. Agreed'
  BY <1>2, <1>4, AgreedKept
<1>8. l \notin met => Progress(l)'
  <2> SUFFICES ASSUME l \notin met
               PROVE  Progress(l)'
    OBVIOUS
  <2>1. /\ HoldsGraph(load[l].graph)
        /\ store.degree = {<<n, 0>> : n \in Graphs[load[l].graph].nodes}
    BY <1>2, <1>5 DEF LoadInv, Alone, Progress
  <2>2. HoldsGraph(load[l].graph)' /\ load'[l].seen = Graphs[load'[l].graph].edges
    BY <1>2, <1>4, <1>5, <2>1 DEF HoldsGraph
  <2> QED
    BY <1>2, <1>4, <1>5, <2>1, <2>2 DEF Progress
<1>9. LoadInv'
  BY <1>2, <1>4, <1>5, <1>6, <1>7, <1>8, LoadMoves
<1> QED
  BY <1>2, <1>4, <1>9, NotStamped

LEMMA WriteDegreesStep ==
    ASSUME LoadInv, NEW l \in Load!Loaders, Load!WriteDegrees(l)
    PROVE  LoadInv' /\ Load!LoneLoadIsRight
<1>1. PICK new, g, counted :
         /\ new = [load[l] EXCEPT !.step = "stat"] /\ g = Graphs[load[l].graph]
         /\ counted = g.nodes \union {e[1] : e \in load[l].seen} \union {e[2] : e \in load[l].seen}
  OBVIOUS
<1>2. /\ load[l].step = "write" /\ Load!Moved(l, new) /\ UNCHANGED <<json, met>>
      /\ store' = [store EXCEPT !.degree =
                      {IF d[1] \in counted THEN <<d[1], Load!InDegree(d[1], load[l].seen)>> ELSE d : d \in store.degree}]
  BY <1>1 DEF Load!WriteDegrees, Load!Steps, Load!Graph
<1>3. LoadRecord(new) /\ new.step = "stat" /\ new.graph = load[l].graph /\ new.stamps = load[l].stamps
  <2>1. LoadRecord(load[l])
    BY DEF LoadInv, LoadTypeOK
  <2> QED
    BY <1>1, <2>1 DEF LoadRecord
<1>4. /\ StoreRecord(store') /\ store'.nodes = store.nodes /\ store'.edges = store.edges
      /\ store'.degree = {IF d[1] \in counted THEN <<d[1], Load!InDegree(d[1], load[l].seen)>> ELSE d :
                             d \in store.degree}
  BY <1>2 DEF LoadInv, LoadTypeOK, StoreRecord
<1>5. load'[l] = new /\ Load!AtWork(l)
  BY <1>2, LoadGoes DEF LoadInv, Load!AtWork, Load!Steps
<1>6. Load!ReadersSeeWholeGraphs'
  BY <1>4, StoreKept DEF LoadInv
<1>7. Agreed'
  BY <1>2, <1>3, <1>4, AgreedKept
<1>8. l \notin met => Progress(l)'
  <2> SUFFICES ASSUME l \notin met
               PROVE  Progress(l)'
    OBVIOUS
  <2>1. /\ HoldsGraph(load[l].graph) /\ store.degree = {<<n, 0>> : n \in g.nodes}
        /\ load[l].seen = g.edges
    BY <1>1, <1>2, <1>5 DEF LoadInv, Alone, Progress
  <2>2. store'.degree = {<<n, Load!InDegree(n, g.edges)>> : n \in g.nodes}
    <3>1. \A n \in g.nodes : n \in counted
      BY <1>1
    <3> DEFINE F(d) == IF d[1] \in counted THEN <<d[1], Load!InDegree(d[1], g.edges)>> ELSE d
    <3>2. store'.degree = {F(d) : d \in {<<n, 0>> : n \in g.nodes}}
      BY <1>4, <2>1
    <3>3. \A n \in g.nodes : F(<<n, 0>>) = <<n, Load!InDegree(n, g.edges)>>
      BY <3>1
    <3> HIDE DEF F
    <3> QED
      BY <3>2, <3>3
  <2>3. HoldsGraph(load[l].graph)'
    BY <1>3, <1>4, <1>5, <2>1 DEF HoldsGraph
  <2>4. load'[l].step = "stat" /\ Graphs[load'[l].graph] = g
    BY <1>1, <1>3, <1>5
  <2> QED
    BY <2>2, <2>3, <2>4 DEF Progress
<1>9. LoadInv'
  BY <1>2, <1>3, <1>4, <1>5, <1>6, <1>7, <1>8, LoadMoves
<1> QED
  BY <1>2, <1>3, <1>9, NotStamped

LEMMA StatStep ==
    ASSUME LoadInv, NEW l \in Load!Loaders, Load!Stat(l)
    PROVE  LoadInv' /\ Load!LoneLoadIsRight
<1>1. PICK new : new = [load[l] EXCEPT !.step = "stamp", !.time = json]
  OBVIOUS
<1>2. load[l].step = "stat" /\ Load!Moved(l, new) /\ UNCHANGED <<json, store, met>>
  BY <1>1 DEF Load!Stat, Load!Steps
<1>3. /\ LoadRecord(new) /\ new.step = "stamp" /\ new.graph = load[l].graph /\ new.time = json
      /\ new.stamps = load[l].stamps
  <2>1. LoadRecord(load[l])
    BY DEF LoadInv, LoadTypeOK
  <2> QED
    BY <1>1, <2>1 DEF LoadRecord
<1>4. load'[l] = new /\ Load!AtWork(l)
  BY <1>2, LoadGoes DEF LoadInv, Load!AtWork, Load!Steps
<1>5. StoreRecord(store') /\ Load!ReadersSeeWholeGraphs'
  BY <1>2, StoreKept DEF LoadInv, LoadTypeOK, StoreRecord
<1>6. Agreed'
  BY <1>2, <1>3, AgreedKept
<1>7. l \notin met => Progress(l)'
  <2> SUFFICES ASSUME l \notin met
               PROVE  Progress(l)'
    OBVIOUS
  <2>1. /\ HoldsGraph(load[l].graph) /\ load[l].graph = json /\ load[l].stamps = 0
        /\ store.degree = {<<n, Load!InDegree(n, Graphs[load[l].graph].edges)>> : n \in Graphs[load[l].graph].nodes}
    <3>1. load[l].stamps = 0
      BY <1>2 DEF LoadInv, LoadTypeOK, StampsLeft
    <3> QED
      BY <1>2, <1>4, <3>1 DEF LoadInv, Alone, Progress
  <2>2. HoldsGraph(load[l].graph)'
    BY <1>2, <1>3, <1>4, <2>1 DEF HoldsGraph
  <2> QED
    BY <1>2, <1>3, <1>4, <2>1, <2>2 DEF Progress
<1>8. LoadInv'
  BY <1>2, <1>3, <1>4, <1>5, <1>6, <1>7, LoadMoves
<1> QED
  BY <1>2, <1>3, <1>8, NotStamped

LEMMA StampStep ==
    ASSUME LoadInv, NEW l \in Load!Loaders, Load!Stamp(l)
    PROVE  LoadInv' /\ Load!LoneLoadIsRight
<1>1. PICK k, v, s, new :
         /\ k = load[l].stamps + 1 /\ v = (IF k = 1 THEN load[l].time ELSE load[l].graph)
         /\ s = (IF k = Len(Load!Stamps) THEN "done" ELSE "stamp")
         /\ new = [load[l] EXCEPT !.stamps = k, !.step = s]
  OBVIOUS
<1>2. /\ load[l].step = "stamp" /\ Load!Moved(l, new) /\ UNCHANGED <<json, met>>
      /\ store' = [store EXCEPT !.stamp = [store.stamp EXCEPT ![k] = v]]
  BY <1>1 DEF Load!Stamp, Load!Steps
<1>3. LoadRecord(load[l]) /\ load[l].stamps \in Nat /\ load[l].stamps < Len(Load!Stamps)
  BY <1>2 DEF LoadInv, LoadTypeOK, StampsLeft
<1>4. k \in 1..Len(Load!Stamps) /\ k - 1 = load[l].stamps
  BY <1>1, <1>3, SixStamps
<1>5. LoadRecord(new) /\ new.step = s /\ new.graph = load[l].graph /\ new.stamps = k /\ new.time = load[l].time
  BY <1>1, <1>3 DEF LoadRecord
<1>6. StampsLeft(new) /\ s \in {"stamp", "done"} /\ (s = "done" => k = Len(Load!Stamps))
  BY <1>1, <1>4, <1>5, SixStamps DEF StampsLeft
<1>7. /\ StoreRecord(store') /\ store'.nodes = store.nodes /\ store'.edges = store.edges
      /\ store'.degree = store.degree /\ store'.stamp[k] = v
      /\ \A i \in 1..Len(Load!Stamps) : i # k => store'.stamp[i] = store.stamp[i]
  <2>1. StoreRecord(store)
    BY DEF LoadInv, LoadTypeOK
  <2>2. PICK stamp : stamp = [store.stamp EXCEPT ![k] = v]
    OBVIOUS
  <2>3. /\ stamp = [i \in 1..Len(Load!Stamps) |-> stamp[i]] /\ stamp[k] = v
        /\ \A i \in 1..Len(Load!Stamps) : i # k => stamp[i] = store.stamp[i]
    BY <1>4, <2>1, <2>2 DEF StoreRecord
  <2>4. store' = [nodes |-> store.nodes, edges |-> store.edges, degree |-> store.degree, stamp |-> stamp]
    BY <1>2, <2>1, <2>2 DEF StoreRecord
  <2>5. StoreRecord(store')
    BY <2>3, <2>4 DEF StoreRecord
  <2> QED
    BY <2>3, <2>4, <2>5
<1>8. load'[l] = new /\ Load!AtWork(l) /\ \A m \in Load!Loaders \ {l} : load'[m] = load[m]
  BY <1>2, LoadGoes DEF LoadInv, Load!AtWork, Load!Steps
<1>9. Load!ReadersSeeWholeGraphs'
  BY <1>7, StoreKept DEF LoadInv
<1>10. Agreed'
  BY <1>2, <1>5, <1>6, <1>7, AgreedKept
<1>11. l \notin met =>
          /\ HoldsGraph(load[l].graph)
          /\ store.degree = {<<n, Load!InDegree(n, Load!Graph(l).edges)>> : n \in Load!Graph(l).nodes}
          /\ \A i \in 1..k : store'.stamp[i] = load[l].graph
  <2> SUFFICES ASSUME l \notin met
               PROVE  /\ HoldsGraph(load[l].graph)
                      /\ store.degree = {<<n, Load!InDegree(n, Load!Graph(l).edges)>> : n \in Load!Graph(l).nodes}
                      /\ \A i \in 1..k : store'.stamp[i] = load[l].graph
    OBVIOUS
  <2>1. /\ HoldsGraph(load[l].graph)
        /\ store.degree = {<<n, Load!InDegree(n, Load!Graph(l).edges)>> : n \in Load!Graph(l).nodes}
        /\ load[l].time = load[l].graph
        /\ \A i \in 1..load[l].stamps : store.stamp[i] = load[l].graph
    BY <1>2, <1>8 DEF LoadInv, Alone, Progress, Load!Graph
  <2>2. v = load[l].graph
    BY <1>1, <2>1
  <2>3. \A i \in 1..k : i = k \/ (i \in 1..load[l].stamps /\ i \in 1..Len(Load!Stamps))
    BY <1>3, <1>4, SixStamps
  <2> QED
    BY <1>7, <2>1, <2>2, <2>3
<1>12. new.step # "done" /\ l \notin met => Progress(l)'
  <2> SUFFICES ASSUME new.step = "stamp", l \notin met
               PROVE  Progress(l)'
    BY <1>5, <1>6
  <2>1. HoldsGraph(load[l].graph)'
    BY <1>5, <1>7, <1>8, <1>11 DEF HoldsGraph
  <2>2. store'.degree = {<<n, Load!InDegree(n, Graphs[load[l].graph].edges)>> : n \in Graphs[load[l].graph].nodes}
    BY <1>7, <1>11 DEF Load!Graph
  <2>3. new.time = load[l].graph
    BY <1>2, <1>5, <1>8 DEF LoadInv, Alone, Progress
  <2> QED
    BY <1>5, <1>8, <1>11, <2>1, <2>2, <2>3 DEF Progress, HoldsGraph
<1>13. LoadInv'
  BY <1>2, <1>5, <1>6, <1>7, <1>8, <1>9, <1>10, <1>12, LoadMoves
<1>14. Load!LoneLoadIsRight
  <2> SUFFICES ASSUME NEW m \in Load!Loaders, Load!Steps(m) = "stamp", load'[m].step = "done", m \notin met
               PROVE  /\ store'.nodes = Load!Graph(m).nodes /\ store'.edges = Load!Graph(m).edges
                      /\ store'.degree = {<<n, Load!InDegree(n, Load!Graph(m).edges)>> : n \in Load!Graph(m).nodes}
                      /\ \A i \in 1..Len(Load!Stamps) : store'.stamp[i] = load[m].graph
    BY DEF Load!LoneLoadIsRight
  <2>1. m = l
    BY <1>8 DEF Load!Steps
  <2>2. k = Len(Load!Stamps)
    BY <1>5, <1>6, <1>8, <2>1
  <2> QED
    BY <1>7, <1>11, <2>1, <2>2 DEF HoldsGraph, Load!Graph
<1> QED
  BY <1>13, <1>14

LEMMA LoadsStep ==
    ASSUME LoadInv, Load!GraphNext
    PROVE  LoadInv' /\ Load!LoneLoadIsRight
<1>1. CASE Load!ServerAsked \/ Load!ServerCaches
  BY <1>1, LoadsUnchanged DEF Load!ServerAsked, Load!ServerCaches
<1>2. ASSUME NEW l \in Load!Loaders, Load!Locked(l) \/ Load!Malformed(l) \/ Load!Dies(l)
      PROVE  LoadInv' /\ Load!LoneLoadIsRight
  <2>1. /\ Load!AtWork(l) /\ Load!Moved(l, [load[l] EXCEPT !.step = "failed"])
        /\ UNCHANGED <<json, met, store>>
    BY <1>2 DEF Load!Locked, Load!Malformed, Load!Dies, Load!AtWork, Load!Steps
  <2> QED
    BY <2>1, LoadFails
<1> QED
  BY <1>1, <1>2, RebuildStep, ReadStep, ClearStep, InsertNodeStep, InsertEdgesStep, ReadBackStep,
     WriteDegreesStep, StatStep, StampStep DEF Load!GraphNext
------------------------------------------------------------------------------
(* Bootstrap.                                                              *)

Group == {"fcc", "old", "custom", "rival", "mixed"}
HookMap == [HookEvent \union Foreign -> Seq(Group)]
JsonFiles == {".claude/settings.json", ".mcp.json"}

BootTypeOK ==
    /\ file \in [Boot!Path -> {"absent", "empty", "user", "template"}]
    /\ settings \in [hooks : HookMap, env : {"no file", "no JSON", "absent", "user", "template"},
                     status : {"absent", "old", "fcc", "user"}]
    /\ home \in HookMap
    /\ mcp \in [Boot!Server -> {"absent", "user", "template"}]
    /\ boot \in [step : {"idle", "copy", "settings", "mcp", "scripts", "local", "install", "large",
                         "done", "failed"},
                 force : BOOLEAN, large : BOOLEAN,
                 todo : SUBSET (Protected \union Plain \union Script \union JsonFiles)]
    /\ boot.step = "scripts" => boot.todo \subseteq Script
    /\ boot.step = "copy" => boot.todo \subseteq Protected \union Plain \union JsonFiles
    /\ edits \in Nat

\* Nobody else has the events that a run is to hook, and none is left unhooked.
Clear(hooks, e) == ~Boot!HasRival(hooks[e]) /\ ~Boot!HasUnowned(hooks[e])
HooksInPlace ==
    boot.step \notin {"idle", "failed"} =>
       \A e \in HookEvent :
          /\ Clear(home, e) /\ Clear(settings.hooks, e)
          /\ boot.step \notin {"copy", "settings"} => settings.hooks[e] = <<"fcc">>

\* The files that the steps so far have written are there, and so is the server.
FilesInPlace ==
    /\ boot.step = "copy" => \A p \in (Protected \union Plain) \ boot.todo : file[p] # "absent"
    /\ boot.step \notin {"idle", "failed", "copy"} => \A p \in Protected \union Plain : file[p] # "absent"
    /\ boot.step = "scripts" => \A p \in Script \ boot.todo : file[p] # "absent"
    /\ boot.step \in {"local", "install", "large", "done"} => \A p \in Script : file[p] # "absent"

ServerInPlace ==
    boot.step \in {"scripts", "local", "install", "large", "done"} => mcp["token-savior"] = "template"

BootInv == BootTypeOK /\ HooksInPlace /\ FilesInPlace /\ ServerInPlace

\* What a run needs is in place when it is done.
LEMMA BootSafe ==
    ASSUME BootInv
    PROVE  Boot!CompleteWhenDone
BY DEF BootInv, HooksInPlace, FilesInPlace, ServerInPlace, Clear, Boot!CompleteWhenDone, Boot!AtStep

\* Of an event that only FCC has the merge leaves one group, and none is a user's.
LEMMA OnlyFcc ==
    ASSUME NEW q \in Seq(Group), ~Boot!HasRival(q), ~Boot!HasUnowned(q)
    PROVE  Boot!Merged(q) = <<"fcc">> /\ Boot!Kept(q, {"fcc", "old"}) = {}
<1>1. \A k \in DOMAIN q : q[k] \in {"fcc", "old"}
  BY DEF Group, Boot!HasRival, Boot!HasUnowned, Boot!Range
<1>2. CASE Boot!HasFcc(q)
  BY <1>1, <1>2 DEF Boot!Merged, Boot!Kept
<1>3. CASE ~Boot!HasFcc(q)
  <2>1. DOMAIN q = {}
    BY <1>1, <1>3 DEF Boot!HasFcc, Boot!IsFcc, Boot!Range
  <2>2. q = <<>>
    BY <2>1
  <2> QED
    BY <1>3, <2>2 DEF Boot!Merged, Boot!Kept
<1> QED
  BY <1>2, <1>3

LEMMA NoUserGroups ==
    ASSUME NEW q, Boot!Kept(q, {"fcc", "old"}) = {}
    PROVE  Boot!Without(q, {"fcc", "old"}) = {<<>>}
<1>1. Boot!Cardinality({}) = 0
  BY FS_EmptySet DEF Boot!Cardinality, Cardinality
<1>2. \E f : f \in Boot!Increasing({})
  <2>1. 1..Boot!Cardinality({}) = {}
    BY <1>1
  <2>2. PICK f : f = [i \in {} |-> i]
    OBVIOUS
  <2>3. f \in [{} -> {}]
    BY <2>2
  <2> QED
    BY <2>1, <2>3 DEF Boot!Increasing
<1>3. Boot!Without(q, {"fcc", "old"}) = {[i \in 1..0 |-> q[f[i]]] : f \in Boot!Increasing({})}
  BY <1>1 DEF Boot!Without
<1>4. \A f : [i \in 1..0 |-> q[f[i]]] = <<>>
  OBVIOUS
<1> QED
  BY <1>2, <1>3, <1>4

\* The groups of the template.
LEMMA TemplateIsFcc ==
    ASSUME NEW g \in {<<>>, <<"fcc">>, <<"old">>}
    PROVE  /\ g \in Seq(Group) /\ ~Boot!HasRival(g) /\ ~Boot!HasUnowned(g)
           /\ Boot!Kept(g, {"fcc", "old"}) = {}
<1>1. g \in Seq(Group) /\ \A k \in DOMAIN g : g[k] \in {"fcc", "old"}
  <2>1. CASE g = <<>>
    BY <2>1
  <2>2. CASE g = <<"fcc">>
    BY <2>2 DEF Group
  <2>3. CASE g = <<"old">>
    BY <2>3 DEF Group
  <2> QED
    BY <2>1, <2>2, <2>3
<1> QED
  BY <1>1 DEF Boot!HasRival, Boot!HasUnowned, Boot!Range, Boot!Kept

LEMMA NoHooksTyped == Boot!NoHooks \in HookMap
BY DEF Boot!NoHooks, HookMap

LEMMA FilesCopied ==
    ASSUME NEW was \in {"absent", "empty", "user", "template"}, NEW protected \in BOOLEAN
    PROVE  /\ Boot!Copied(was, protected) \in {"empty", "user", "template"}
           /\ was = "user" /\ (protected \/ ~boot.force) => Boot!Copied(was, protected) = "user"
BY DEF Boot!Copied

LEMMA BootStart ==
    ASSUME Boot!BootInit
    PROVE  BootInv
BY NoHooksTyped DEF Boot!BootInit, Boot!Absent, Boot!Bare, Boot!Idle, Boot!NoServers, BootInv, BootTypeOK,
   HooksInPlace, FilesInPlace, ServerInPlace, Boot!Path, HookMap, Group

LEMMA StartStep ==
    ASSUME BootInv, Boot!Start
    PROVE  BootInv' /\ Boot!UserContentKept
<1>1. UNCHANGED <<file, settings, home, mcp, edits>>
  BY DEF Boot!Start
<1>2. CASE boot' = [Boot!Idle EXCEPT !.step = "failed"]
  BY <1>1, <1>2 DEF Boot!Idle, BootInv, BootTypeOK, HooksInPlace, FilesInPlace, ServerInPlace,
     Boot!UserContentKept, Boot!UserGroups
<1>3. ASSUME NEW force \in BOOLEAN, NEW large \in BOOLEAN, ~Boot!Refused,
             boot' = [step |-> "copy", force |-> force, large |-> large,
                      todo |-> Protected \union Plain \union {".claude/settings.json", ".mcp.json"}]
      PROVE  BootInv' /\ Boot!UserContentKept
  <2>1. \A e \in HookEvent : Clear(home, e) /\ Clear(settings.hooks, e)
    BY <1>3 DEF Boot!Refused, Boot!Clash, Clear
  <2>2. BootTypeOK'
    BY <1>1, <1>3 DEF BootInv, BootTypeOK, JsonFiles
  <2>3. HooksInPlace'
    BY <1>1, <1>3, <2>1 DEF HooksInPlace, Clear, Boot!HasRival, Boot!HasUnowned
  <2>4. FilesInPlace' /\ ServerInPlace'
    BY <1>1, <1>3 DEF FilesInPlace, ServerInPlace
  <2> QED
    BY <1>1, <2>2, <2>3, <2>4 DEF BootInv, BootTypeOK, Boot!UserContentKept, Boot!UserGroups
<1> QED
  BY <1>2, <1>3 DEF Boot!Start

LEMMA CopyTemplateStep ==
    ASSUME BootInv, Boot!CopyTemplate
    PROVE  BootInv' /\ Boot!UserContentKept
<1>1. PICK p \in boot.todo :
         /\ file' = IF p \in Boot!Path THEN [file EXCEPT ![p] = Boot!Copied(file[p], p \in Protected)] ELSE file
         /\ settings' = IF p = ".claude/settings.json" /\ settings = Boot!Absent THEN Boot!TemplateSettings
                        ELSE settings
         /\ mcp' = IF p = ".mcp.json" /\ mcp = Boot!NoServers
                   THEN [mcp EXCEPT !["token-savior"] = "template"] ELSE mcp
         /\ boot' = [boot EXCEPT !.todo = boot.todo \ {p},
                                 !.step = IF boot.todo = {p} THEN "settings" ELSE boot.step]
  BY DEF Boot!CopyTemplate, Boot!AfterCopy
<1>2. boot.step = "copy" /\ UNCHANGED <<home, edits>>
  BY DEF Boot!CopyTemplate, Boot!AtStep
<1>3. /\ file' \in [Boot!Path -> {"absent", "empty", "user", "template"}]
      /\ \A q \in Boot!Path : file[q] # "absent" => file'[q] # "absent"
      /\ p \in Boot!Path => file'[p] # "absent"
      /\ \A q \in Boot!Path : file[q] = "user" /\ (~boot.force \/ q \in Protected \union {"local"})
            => file'[q] = "user"
  <2>1. CASE p \in Boot!Path
    <3>1. /\ Boot!Copied(file[p], p \in Protected) \in {"empty", "user", "template"}
          /\ file[p] = "user" /\ (p \in Protected \/ ~boot.force) => Boot!Copied(file[p], p \in Protected) = "user"
      <4>1. file[p] \in {"absent", "empty", "user", "template"}
        BY <2>1 DEF BootInv, BootTypeOK
      <4> QED
        BY <4>1 DEF Boot!Copied
    <3>2. p = "local" => p \in Protected
      BY <1>2, BootAssumption DEF BootInv, BootTypeOK, JsonFiles
    <3> QED
      BY <1>1, <2>1, <3>1, <3>2 DEF BootInv, BootTypeOK
  <2>2. CASE p \notin Boot!Path
    BY <1>1, <2>2 DEF BootInv, BootTypeOK
  <2> QED
    BY <2>1, <2>2
<1>4. /\ \A e \in HookEvent \union Foreign :
             settings' = settings \/ /\ Boot!Kept(settings.hooks[e], {"fcc", "old"}) = {}
                                     /\ settings'.hooks[e] \in {<<>>, <<"old">>}
      /\ settings' = settings \/ settings.env # "user"
  BY <1>1, TemplateIsFcc DEF Boot!TemplateSettings, Boot!Absent, Boot!Bare, Boot!NoHooks
<1>5. settings' \in [hooks : HookMap, env : {"no file", "no JSON", "absent", "user", "template"},
                     status : {"absent", "old", "fcc", "user"}]
  <2>1. Boot!TemplateSettings \in [hooks : HookMap,
                                   env : {"no file", "no JSON", "absent", "user", "template"},
                                   status : {"absent", "old", "fcc", "user"}]
    BY TemplateIsFcc DEF Boot!TemplateSettings, HookMap
  <2> QED
    BY <1>1, <2>1 DEF BootInv, BootTypeOK
<1>6. /\ mcp' \in [Boot!Server -> {"absent", "user", "template"}]
      /\ \A s \in Boot!Server : mcp[s] = "user" => mcp'[s] = "user"
  BY <1>1 DEF BootInv, BootTypeOK, Boot!NoServers, Boot!Server
<1>7. BootTypeOK'
  BY <1>1, <1>2, <1>3, <1>5, <1>6 DEF BootInv, BootTypeOK
<1>8. HooksInPlace'
  <2> SUFFICES ASSUME NEW e \in HookEvent
               PROVE  Clear(home', e) /\ Clear(settings'.hooks, e)
    BY <1>1, <1>2 DEF HooksInPlace, BootInv, BootTypeOK, Clear, Boot!HasRival, Boot!HasUnowned
  <2>1. Clear(home, e) /\ Clear(settings.hooks, e)
    BY <1>2 DEF BootInv, HooksInPlace
  <2> QED
    BY <1>2, <1>4, <2>1, TemplateIsFcc DEF Clear
<1>9. FilesInPlace' /\ ServerInPlace'
  BY <1>1, <1>2, <1>3, ZenonT(60) DEF FilesInPlace, ServerInPlace, BootInv, BootTypeOK, Boot!Path
<1>10. \A e \in HookEvent \union Foreign : Boot!UserGroups(settings.hooks, e) = Boot!UserGroups(settings'.hooks, e)
  BY <1>4, TemplateIsFcc, NoUserGroups DEF Boot!UserGroups
<1> QED
  BY <1>3, <1>4, <1>6, <1>7, <1>8, <1>9, <1>10 DEF BootInv, Boot!UserContentKept

LEMMA MergeSettingsStep ==
    ASSUME BootInv, Boot!MergeSettings
    PROVE  BootInv' /\ Boot!UserContentKept
<1>1. /\ boot.step = "settings" /\ boot' = [boot EXCEPT !.step = "mcp"] /\ UNCHANGED <<file, home, mcp, edits>>
      /\ settings' = [hooks |-> [e \in HookEvent \union Foreign |->
                                    IF e \in HookEvent THEN Boot!Merged(settings.hooks[e])
                                    ELSE settings.hooks[e]],
                      env |-> Boot!EnvAfter(settings.env), status |-> Boot!StatusAfter(settings.status)]
  BY DEF Boot!MergeSettings, Boot!AtStep, Boot!Goto
<1>2. \A e \in HookEvent : /\ Clear(home, e)
                           /\ settings.hooks[e] \in Seq(Group)
                           /\ settings'.hooks[e] = <<"fcc">>
                           /\ Boot!Kept(settings.hooks[e], {"fcc", "old"}) = {}
  <2> TAKE e \in HookEvent
  <2>1. Clear(home, e) /\ Clear(settings.hooks, e) /\ settings.hooks[e] \in Seq(Group)
    BY <1>1 DEF BootInv, BootTypeOK, HooksInPlace, HookMap
  <2>2. Boot!Merged(settings.hooks[e]) = <<"fcc">> /\ Boot!Kept(settings.hooks[e], {"fcc", "old"}) = {}
    BY <2>1, OnlyFcc DEF Clear
  <2> QED
    BY <1>1, <2>1, <2>2
<1>3. \A e \in Foreign \ HookEvent : settings'.hooks[e] = settings.hooks[e]
  BY <1>1
<1>4. settings'.hooks \in HookMap
  BY <1>1, <1>2, <1>3, TemplateIsFcc DEF BootInv, BootTypeOK, HookMap
<1>5. /\ settings'.env \in {"no file", "no JSON", "absent", "user", "template"}
      /\ settings'.status \in {"absent", "old", "fcc", "user"}
      /\ settings.env = "user" /\ ~boot.force => settings'.env = "user"
  BY <1>1 DEF BootInv, BootTypeOK, Boot!EnvAfter, Boot!StatusAfter
<1>6. BootTypeOK'
  BY <1>1, <1>4, <1>5 DEF BootInv, BootTypeOK
<1>7. HooksInPlace'
  BY <1>1, <1>2, TemplateIsFcc DEF HooksInPlace, Clear, Boot!HasRival, Boot!HasUnowned
<1>8. FilesInPlace' /\ ServerInPlace'
  BY <1>1 DEF BootInv, BootTypeOK, FilesInPlace, ServerInPlace
<1>9. \A e \in HookEvent \union Foreign : Boot!UserGroups(settings.hooks, e) = Boot!UserGroups(settings'.hooks, e)
  BY <1>2, <1>3, TemplateIsFcc, NoUserGroups DEF Boot!UserGroups
<1> QED
  BY <1>1, <1>5, <1>6, <1>7, <1>8, <1>9 DEF BootInv, BootTypeOK, Boot!UserContentKept

\* A run goes on, or ends, with files and hooks as they are.
LEMMA RunGoesOn ==
    ASSUME BootInv, UNCHANGED <<file, settings, home, edits>>,
           mcp' \in [Boot!Server -> {"absent", "user", "template"}],
           \A s \in Boot!Server : mcp[s] = "user" /\ ~boot.force => mcp'[s] = "user",
           NEW s, \/ boot' = [boot EXCEPT !.step = s]
                  \/ s = "scripts" /\ boot' = [boot EXCEPT !.step = s, !.todo = Script],
           \/ s = "failed"
           \/ boot.step = "mcp" /\ s = "scripts" /\ boot'.todo = Script /\ mcp'["token-savior"] = "template"
           \/ /\ boot.step \in {"local", "install", "large"} /\ s \in {"install", "large", "done"}
              /\ mcp'["token-savior"] = "template"
    PROVE  BootInv' /\ Boot!UserContentKept
<1>1. boot'.step = s
  BY DEF BootInv, BootTypeOK
<1>2. BootTypeOK'
  BY <1>1 DEF BootInv, BootTypeOK
<1>3. HooksInPlace'
  BY <1>1 DEF BootInv, BootTypeOK, HooksInPlace, Clear, Boot!HasRival, Boot!HasUnowned
<1>4. FilesInPlace' /\ ServerInPlace'
  BY <1>1 DEF BootInv, BootTypeOK, FilesInPlace, ServerInPlace
<1> QED
  BY <1>2, <1>3, <1>4 DEF BootInv, BootTypeOK, Boot!UserContentKept, Boot!UserGroups

LEMMA MergeMcpStep ==
    ASSUME BootInv,
           \/ Boot!MergeMcp("token-savior", "mcp", Boot!ToScripts)
           \/ Boot!MergeMcp("claude-context", "large", Boot!Goto("done"))
    PROVE  BootInv' /\ Boot!UserContentKept
<1>1. CASE Boot!MergeMcp("token-savior", "mcp", Boot!ToScripts)
  <2>1. /\ boot.step = "mcp" /\ UNCHANGED <<file, settings, home, edits>>
        /\ \/ UNCHANGED mcp /\ boot' = [boot EXCEPT !.step = "failed"]
           \/ /\ ~(mcp["token-savior"] = "user" /\ ~boot.force)
              /\ mcp' = [mcp EXCEPT !["token-savior"] = "template"]
              /\ boot' = [boot EXCEPT !.step = "scripts", !.todo = Script]
    BY <1>1 DEF Boot!MergeMcp, Boot!ToScripts, Boot!Goto, Boot!AtStep
  <2>2. CASE boot' = [boot EXCEPT !.step = "failed"] /\ UNCHANGED mcp
    BY <2>1, <2>2, RunGoesOn DEF BootInv, BootTypeOK
  <2>3. CASE /\ ~(mcp["token-savior"] = "user" /\ ~boot.force)
             /\ mcp' = [mcp EXCEPT !["token-savior"] = "template"]
             /\ boot' = [boot EXCEPT !.step = "scripts", !.todo = Script]
    <3>1. /\ mcp' \in [Boot!Server -> {"absent", "user", "template"}]
          /\ \A s \in Boot!Server : mcp[s] = "user" /\ ~boot.force => mcp'[s] = "user"
          /\ mcp'["token-savior"] = "template" /\ boot'.todo = Script
      BY <2>3 DEF BootInv, BootTypeOK, Boot!Server
    <3> QED
      BY <2>1, <2>3, <3>1, RunGoesOn
  <2> QED
    BY <2>1, <2>2, <2>3
<1>2. CASE Boot!MergeMcp("claude-context", "large", Boot!Goto("done"))
  <2>1. /\ boot.step = "large" /\ UNCHANGED <<file, settings, home, edits>>
        /\ \/ UNCHANGED mcp /\ boot' = [boot EXCEPT !.step = "failed"]
           \/ /\ ~(mcp["claude-context"] = "user" /\ ~boot.force)
              /\ mcp' = [mcp EXCEPT !["claude-context"] = "template"]
              /\ boot' = [boot EXCEPT !.step = "done"]
    BY <1>2 DEF Boot!MergeMcp, Boot!Goto, Boot!AtStep
  <2>2. CASE boot' = [boot EXCEPT !.step = "failed"] /\ UNCHANGED mcp
    BY <2>1, <2>2, RunGoesOn DEF BootInv, BootTypeOK
  <2>3. CASE /\ ~(mcp["claude-context"] = "user" /\ ~boot.force)
             /\ mcp' = [mcp EXCEPT !["claude-context"] = "template"]
             /\ boot' = [boot EXCEPT !.step = "done"]
    <3>1. /\ mcp' \in [Boot!Server -> {"absent", "user", "template"}]
          /\ \A s \in Boot!Server : mcp[s] = "user" /\ ~boot.force => mcp'[s] = "user"
          /\ mcp'["token-savior"] = "template"
      BY <2>1, <2>3 DEF BootInv, BootTypeOK, ServerInPlace, Boot!Server
    <3> QED
      BY <2>1, <2>3, <3>1, RunGoesOn
  <2> QED
    BY <2>1, <2>2, <2>3
<1> QED
  BY <1>1, <1>2

LEMMA CopyScriptsStep ==
    ASSUME BootInv, Boot!CopyScripts
    PROVE  BootInv' /\ Boot!UserContentKept
<1>1. PICK p \in boot.todo :
         /\ file' = [file EXCEPT ![p] = Boot!Copied(file[p], FALSE)]
         /\ boot' = [boot EXCEPT !.todo = boot.todo \ {p},
                                 !.step = IF boot.todo = {p} THEN "local" ELSE boot.step]
  BY DEF Boot!CopyScripts, Boot!AfterCopy
<1>2. boot.step = "scripts" /\ UNCHANGED <<settings, home, mcp, edits>> /\ boot.todo \subseteq Script
  BY DEF Boot!CopyScripts, Boot!AtStep, BootInv, BootTypeOK
<1>3. p \in Boot!Path /\ p \notin Protected \union {"local"}
  BY <1>2, BootAssumption DEF Boot!Path
<1>4. /\ Boot!Copied(file[p], FALSE) \in {"empty", "user", "template"}
      /\ file[p] = "user" /\ ~boot.force => Boot!Copied(file[p], FALSE) = "user"
  BY <1>3, FilesCopied DEF BootInv, BootTypeOK
<1>5. /\ file' \in [Boot!Path -> {"absent", "empty", "user", "template"}]
      /\ \A q \in Boot!Path : file[q] # "absent" => file'[q] # "absent"
      /\ file'[p] # "absent"
      /\ \A q \in Boot!Path : file[q] = "user" /\ (~boot.force \/ q \in Protected \union {"local"})
            => file'[q] = "user"
  BY <1>1, <1>3, <1>4 DEF BootInv, BootTypeOK
<1>6. BootTypeOK'
  BY <1>1, <1>2, <1>5 DEF BootInv, BootTypeOK
<1>7. HooksInPlace'
  BY <1>1, <1>2 DEF BootInv, BootTypeOK, HooksInPlace, Clear, Boot!HasRival, Boot!HasUnowned
<1>8. /\ boot'.step \in {"scripts", "local"} /\ boot'.todo = boot.todo \ {p}
      /\ boot'.step = "local" => boot.todo = {p}
  BY <1>1, <1>2 DEF BootInv, BootTypeOK
<1>9. /\ \A q \in Protected \union Plain : file[q] # "absent"
      /\ \A q \in Script \ boot.todo : file[q] # "absent"
      /\ mcp["token-savior"] = "template"
  BY <1>2 DEF BootInv, FilesInPlace, ServerInPlace
<1>10. /\ \A q \in Protected \union Plain : file'[q] # "absent"
       /\ \A q \in Script \ boot'.todo : file'[q] # "absent"
  BY <1>5, <1>8, <1>9 DEF Boot!Path
<1>11. FilesInPlace'
  <2>1. boot'.step = "local" => \A q \in Script : file'[q] # "absent"
    BY <1>8, <1>10
  <2> QED
    BY <1>8, <1>10, <2>1 DEF FilesInPlace
<1>12. ServerInPlace'
  BY <1>2, <1>9 DEF ServerInPlace
<1> QED
  BY <1>2, <1>5, <1>6, <1>7, <1>11, <1>12 DEF BootInv, Boot!UserContentKept, Boot!UserGroups

LEMMA LocalClaudeStep ==
    ASSUME BootInv, Boot!LocalClaude
    PROVE  BootInv' /\ Boot!UserContentKept
<1>1. /\ boot.step = "local" /\ boot' = [boot EXCEPT !.step = "install"] /\ UNCHANGED <<settings, home, mcp, edits>>
      /\ file' = [file EXCEPT !["local"] = IF file["local"] = "absent" THEN "template" ELSE file["local"]]
  BY DEF Boot!LocalClaude, Boot!AtStep, Boot!Goto
<1>2. /\ file' \in [Boot!Path -> {"absent", "empty", "user", "template"}]
      /\ \A q \in Boot!Path : file[q] # "absent" => file'[q] = file[q]
  BY <1>1 DEF BootInv, BootTypeOK, Boot!Path
<1>3. BootTypeOK'
  BY <1>1, <1>2 DEF BootInv, BootTypeOK
<1>4. HooksInPlace'
  BY <1>1 DEF BootInv, BootTypeOK, HooksInPlace, Clear, Boot!HasRival, Boot!HasUnowned
<1>5. FilesInPlace' /\ ServerInPlace'
  BY <1>1, <1>2 DEF BootInv, BootTypeOK, FilesInPlace, ServerInPlace, Boot!Path
<1> QED
  BY <1>1, <1>2, <1>3, <1>4, <1>5 DEF BootInv, Boot!UserContentKept, Boot!UserGroups

LEMMA InstallStep ==
    ASSUME BootInv, Boot!Install
    PROVE  BootInv' /\ Boot!UserContentKept
<1>1. /\ boot.step = "install" /\ UNCHANGED <<file, settings, home, mcp, edits>>
      /\ \E s \in {"large", "done", "failed"} : boot' = [boot EXCEPT !.step = s]
  BY DEF Boot!Install, Boot!AtStep, Boot!Goto
<1>2. mcp["token-savior"] = "template"
  BY <1>1 DEF BootInv, ServerInPlace
<1> QED
  BY <1>1, <1>2, RunGoesOn DEF BootInv, BootTypeOK

LEMMA KilledStep ==
    ASSUME BootInv, Boot!Killed
    PROVE  BootInv' /\ Boot!UserContentKept
<1>1. /\ boot' = [boot EXCEPT !.step = "failed"] /\ UNCHANGED <<file, home, mcp>>
      /\ settings' = settings \/ settings' = Boot!Broken
  BY DEF Boot!Killed, Boot!Goto
<1>2. edits' = edits
  BY DEF Boot!Killed
<1>3. BootTypeOK'
  BY <1>1, <1>2, NoHooksTyped DEF BootInv, BootTypeOK, Boot!Broken, Boot!Bare
<1>4. HooksInPlace' /\ FilesInPlace' /\ ServerInPlace'
  BY <1>1 DEF BootInv, BootTypeOK, HooksInPlace, FilesInPlace, ServerInPlace
<1> QED
  BY <1>1, <1>3, <1>4 DEF BootInv, Boot!UserContentKept, Boot!UserGroups

LEMMA DoctorStep ==
    ASSUME BootInv, Boot!Doctor
    PROVE  BootInv' /\ Boot!UserContentKept
<1>1. /\ boot.step \in {"idle", "done", "failed"} /\ UNCHANGED <<settings, home, mcp, boot, edits>>
      /\ file' = [p \in Boot!Path |-> IF file[p] = "absent" /\ p # "local" THEN "template" ELSE file[p]]
  BY DEF Boot!Doctor, Boot!Quiet
<1>2. /\ file' \in [Boot!Path -> {"absent", "empty", "user", "template"}]
      /\ \A p \in Boot!Path : file[p] # "absent" => file'[p] = file[p]
  BY <1>1 DEF BootInv, BootTypeOK
<1>3. BootTypeOK'
  BY <1>1, <1>2 DEF BootInv, BootTypeOK
<1>4. HooksInPlace'
  BY <1>1 DEF BootInv, HooksInPlace, Clear, Boot!HasRival, Boot!HasUnowned
<1>5. FilesInPlace' /\ ServerInPlace'
  BY <1>1, <1>2 DEF BootInv, FilesInPlace, ServerInPlace, Boot!Path
<1> QED
  BY <1>1, <1>2, <1>3, <1>4, <1>5 DEF BootInv, Boot!UserContentKept, Boot!UserGroups

LEMMA EditsStep ==
    ASSUME BootInv, Boot!EditFile \/ Boot!EditSettings \/ Boot!EditHome \/ Boot!EditMcp
    PROVE  BootInv' /\ Boot!UserContentKept
<1>1. boot' = Boot!Idle /\ edits' = edits + 1 /\ edits \in Nat
  BY DEF Boot!EditFile, Boot!EditSettings, Boot!EditHome, Boot!EditMcp, Boot!Edited, BootInv, BootTypeOK
<1>2. Boot!UserContentKept
  BY <1>1 DEF Boot!UserContentKept
<1>3. file' \in [Boot!Path -> {"absent", "empty", "user", "template"}]
  BY DEF Boot!EditFile, Boot!EditSettings, Boot!EditHome, Boot!EditMcp, BootInv, BootTypeOK
<1>4. settings' \in [hooks : HookMap, env : {"no file", "no JSON", "absent", "user", "template"},
                     status : {"absent", "old", "fcc", "user"}]
  <2>1. CASE UNCHANGED settings
    BY <2>1 DEF BootInv, BootTypeOK
  <2>2. CASE Boot!EditSettings
    <3>1. Boot!Old \in [hooks : HookMap, env : {"no file", "no JSON", "absent", "user", "template"},
                        status : {"absent", "old", "fcc", "user"}]
      BY NoHooksTyped DEF Boot!Old, Boot!Bare, BootInv, BootTypeOK
    <3>2. PICK old1 : old1 = Boot!Old
      OBVIOUS
    <3>3. /\ old1 = [hooks |-> old1.hooks, env |-> old1.env, status |-> old1.status]
          /\ old1.hooks \in HookMap /\ old1.env \in {"no file", "no JSON", "absent", "user", "template"}
          /\ old1.status \in {"absent", "old", "fcc", "user"}
      BY <3>1, <3>2
    <3>4. ASSUME NEW e \in HookEvent \union Foreign, NEW groups \in Seq(Group),
                 settings' = [old1 EXCEPT !.hooks[e] = groups]
          PROVE  settings' \in [hooks : HookMap, env : {"no file", "no JSON", "absent", "user", "template"},
                                status : {"absent", "old", "fcc", "user"}]
      <4>1. PICK hooks : hooks = [old1.hooks EXCEPT ![e] = groups]
        OBVIOUS
      <4>2. hooks \in HookMap
        BY <3>3, <3>4, <4>1 DEF HookMap
      <4>3. settings' = [old1 EXCEPT !.hooks = hooks]
        BY <3>4, <4>1
      <4>4. settings' = [hooks |-> hooks, env |-> old1.env, status |-> old1.status]
        BY <3>3, <4>3
      <4> QED
        BY <3>3, <4>2, <4>4
    <3>5. \A e \in HookEvent \union Foreign : \A g \in Group : Append(old1.hooks[e], g) \in Seq(Group)
      <4> SUFFICES ASSUME NEW e \in HookEvent \union Foreign, NEW g \in Group
                   PROVE  Append(old1.hooks[e], g) \in Seq(Group)
        OBVIOUS
      <4>1. old1.hooks[e] \in Seq(Group)
        BY <3>3 DEF HookMap
      <4> QED
        BY <4>1
    <3>6. <<>> \in Seq(Group)
      OBVIOUS
    <3>7. \/ \E e \in HookEvent \union Foreign, g \in Group :
                settings' = [old1 EXCEPT !.hooks[e] = Append(old1.hooks[e], g)]
          \/ \E e \in HookEvent : settings' = [old1 EXCEPT !.hooks[e] = <<>>]
          \/ settings' = [old1 EXCEPT !.env = "user", !.status = "user"]
      BY <2>2, <3>2 DEF Boot!EditSettings, Group
    <3>8. CASE settings' = [old1 EXCEPT !.env = "user", !.status = "user"]
      <4>1. settings' = [hooks |-> old1.hooks, env |-> "user", status |-> "user"]
        BY <3>3, <3>8
      <4> QED
        BY <3>3, <4>1
    <3> QED
      BY <3>4, <3>5, <3>6, <3>7, <3>8
  <2> QED
    BY <2>1, <2>2 DEF Boot!EditFile, Boot!EditHome, Boot!EditMcp
<1>5. home' \in HookMap
  <2>1. \A g \in Group : <<g>> \in Seq(Group)
    OBVIOUS
  <2>2. \A e \in HookEvent, g \in Group : [home EXCEPT ![e] = <<g>>] \in HookMap
    BY <2>1 DEF BootInv, BootTypeOK, HookMap
  <2>3. CASE Boot!EditHome
    BY <2>2, <2>3 DEF Boot!EditHome, Group
  <2> QED
    BY <2>3 DEF Boot!EditFile, Boot!EditSettings, Boot!EditMcp, BootInv, BootTypeOK
<1>6. mcp' \in [Boot!Server -> {"absent", "user", "template"}]
  BY DEF Boot!EditFile, Boot!EditSettings, Boot!EditHome, Boot!EditMcp, BootInv, BootTypeOK
<1>7. BootTypeOK'
  <2>1. boot' = [step |-> "idle", force |-> FALSE, large |-> FALSE, todo |-> {}]
    BY <1>1 DEF Boot!Idle
  <2>2. /\ boot' \in [step : {"idle", "copy", "settings", "mcp", "scripts", "local", "install", "large",
                             "done", "failed"},
                     force : BOOLEAN, large : BOOLEAN,
                     todo : SUBSET (Protected \union Plain \union Script \union JsonFiles)]
        /\ boot'.step = "scripts" => boot'.todo \subseteq Script
        /\ boot'.step = "copy" => boot'.todo \subseteq Protected \union Plain \union JsonFiles
    BY <2>1
  <2>3. edits' \in Nat
    BY <1>1
  <2> QED
    BY <1>3, <1>4, <1>5, <1>6, <2>2, <2>3, Zenon DEF BootTypeOK
<1> QED
  BY <1>1, <1>2, <1>7 DEF BootInv, HooksInPlace, FilesInPlace, ServerInPlace, Boot!Idle

LEMMA BootStep ==
    ASSUME BootInv, Boot!BootNext
    PROVE  BootInv' /\ Boot!UserContentKept
BY StartStep, CopyTemplateStep, MergeSettingsStep, MergeMcpStep, CopyScriptsStep, LocalClaudeStep,
   InstallStep, KilledStep, DoctorStep, EditsStep DEF Boot!BootNext

LEMMA BootStutter ==
    ASSUME BootInv, UNCHANGED bootstrap
    PROVE  BootInv' /\ Boot!UserContentKept
<1>1. UNCHANGED <<file, settings, home, mcp, boot, edits>>
  BY DEF bootstrap
<1> QED
  BY <1>1, ZenonT(60) DEF BootInv, BootTypeOK, HooksInPlace, FilesInPlace, ServerInPlace, Clear, Boot!HasRival,
     Boot!HasUnowned, Boot!UserContentKept, Boot!UserGroups
------------------------------------------------------------------------------
(* The handoff and its writers.                                            *)

Line == Fact \union {Memory!Todo}

MemTypeOK ==
    /\ facts \in Seq(Fact)
    /\ must \in [Inode -> Seq(Line)]
    /\ names \in [handoff : Inode, tmp : Inode \union {0}]
    /\ decided \in Seq(Decision)
    /\ writer \in [Writer -> [phase : {"idle", "open", "write", "replace", "recall", "append"},
                              fd : Inode \union {0}, new : Seq(Line), found : SUBSET Decision,
                              seen : SUBSET Decision, fresh : BOOLEAN, runs : Nat]]

\* No section is longer than a handoff may make it.
Short ==
    /\ \A i \in Inode : Len(must[i]) <= MaxLines
    /\ \A w \in Writer : Len(writer[w].new) <= MaxLines

\* The temporary file is not the handoff, and who writes has opened a file.
OwnInodes ==
    /\ names.tmp # names.handoff
    /\ \A w \in Writer : writer[w].phase \in {"write", "replace"} => writer[w].fd # 0

\* A writer that has the files to itself: nothing has changed since it read them, and the
\* temporary file is the one that it writes.
HasFiles(w) ==
    writer[w].fresh /\ writer[w].phase # "idle" =>
       /\ \A v \in Writer \ {w} : writer[v].phase = "idle"
       /\ writer[w].phase \in {"open", "write", "replace"} =>
             writer[w].new = Memory!MustLines(Memory!Section, facts)
       /\ writer[w].phase \in {"write", "replace"} => writer[w].fd = names.tmp
       /\ writer[w].phase = "replace" => must[writer[w].fd] = writer[w].new

MemInv == MemTypeOK /\ Short /\ OwnInodes /\ \A w \in Writer : HasFiles(w)

\* An enumeration of a finite set is a sequence of its members.
LEMMA SetEnumerated ==
    ASSUME NEW S, Memory!IsFiniteSet(S)
    PROVE  Memory!SetToSeq(S) \in Seq(S)
<1>1. IsFiniteSet(S)
  BY DEF Memory!IsFiniteSet, IsFiniteSet
<1>2. Cardinality(S) \in Nat /\ ExistsBijection(1..Cardinality(S), S)
  BY <1>1, FS_CardinalityType
<1>3. \E f \in [1..Cardinality(S) -> S] : Memory!IsInjective(f)
  BY <1>2 DEF ExistsBijection, Bijection, Injection, IsInjective, Memory!IsInjective
<1>4. Memory!SetToSeq(S) = CHOOSE f \in [1..Cardinality(S) -> S] : Memory!IsInjective(f)
  BY DEF Memory!SetToSeq, Memory!Cardinality, Cardinality
<1>5. Memory!SetToSeq(S) \in [1..Cardinality(S) -> S]
  BY <1>3, <1>4
<1> QED
  BY <1>2, <1>5

\* A section is cut at its end, and only if it is longer than it may be.
LEMMA CutLines ==
    ASSUME NEW s \in Seq(Line), NEW t \in Seq(Line), Len(s) <= MaxLines
    PROVE  /\ Memory!MustLines(s, t) \in Seq(Line) /\ Len(Memory!MustLines(s, t)) <= MaxLines
           /\ Memory!IsPrefix(s, Memory!MustLines(s, t))
<1> DEFINE both == s \o t
           n == IF Len(both) < MaxLines THEN Len(both) ELSE MaxLines
           lines == SubSeq(both, 1, n)
<1>1. /\ both \in Seq(Line) /\ Len(both) = Len(s) + Len(t)
      /\ \A i \in 1..Len(s) : both[i] = s[i]
  OBVIOUS
<1>2. n \in Nat /\ n <= Len(both) /\ n <= MaxLines /\ Len(s) <= n
  BY <1>1, HandoffAssumption
<1>3. /\ lines \in Seq(Line) /\ Len(lines) = n
      /\ \A i \in 1..n : lines[i] = both[i]
  BY <1>1, <1>2
<1>4. Memory!MustLines(s, t) = IF lines = <<>> THEN <<Memory!Todo>> ELSE lines
  BY DEF Memory!MustLines, Memory!Cut
<1> HIDE DEF both, n, lines
<1>5. CASE lines # <<>>
  <2>1. Memory!MustLines(s, t) = lines
    BY <1>4, <1>5
  <2>2. SubSeq(s, 1, Len(s)) = SubSeq(lines, 1, Len(s))
    BY <1>1, <1>2, <1>3
  <2> QED
    BY <1>2, <1>3, <2>1, <2>2 DEF Memory!IsPrefix
<1>6. CASE lines = <<>>
  <2>1. s = <<>> /\ Memory!MustLines(s, t) = <<Memory!Todo>>
    BY <1>2, <1>3, <1>4, <1>6
  <2>2. <<Memory!Todo>> \in Seq(Line) /\ Len(<<Memory!Todo>>) = 1
    BY DEF Line
  <2>3. SubSeq(s, 1, Len(s)) = SubSeq(<<Memory!Todo>>, 1, Len(s))
    BY <2>1
  <2>4. Len(s) = 0 /\ 1 <= MaxLines /\ 0 <= 1
    BY <2>1, HandoffAssumption
  <2>5. Memory!IsPrefix(s, <<Memory!Todo>>)
    BY <2>2, <2>3, <2>4 DEF Memory!IsPrefix
  <2> QED
    BY <2>1, <2>2, <2>4, <2>5
<1> QED
  BY <1>5, <1>6

LEMMA PrefixOfItself ==
    ASSUME NEW s \in Seq(Line)
    PROVE  Memory!IsPrefix(s, s)
BY DEF Memory!IsPrefix

LEMMA SectionLines ==
    ASSUME MemInv
    PROVE  /\ Memory!Section = must[names.handoff] /\ Memory!Section \in Seq(Line)
           /\ Len(Memory!Section) <= MaxLines /\ facts \in Seq(Line)
BY HandoffAssumption DEF MemInv, MemTypeOK, Short, Memory!Section, Line

LEMMA MemStart ==
    ASSUME Memory!HandoffInit
    PROVE  MemInv
<1>1. (CHOOSE f \in Fact : TRUE) \in Fact
  BY HandoffAssumption
<1>2. PICK f \in Fact : must = [i \in Inode |-> IF i = 1 THEN <<f>> ELSE <<>>]
  BY <1>1 DEF Memory!HandoffInit
<1>3. /\ facts \in Seq(Fact) /\ names = [handoff |-> 1, tmp |-> 0] /\ decided = <<>>
      /\ writer = [w \in Writer |-> [phase |-> "idle", fd |-> 0, new |-> <<>>, found |-> {}, seen |-> {},
                                     fresh |-> FALSE, runs |-> 0]]
  <2>1. \A g \in Fact : <<g>> \in Seq(Fact)
    OBVIOUS
  <2>2. facts \in Seq(Fact)
    <3>1. facts = <<>> \/ \E g \in Fact : facts = <<g>>
      BY DEF Memory!HandoffInit
    <3>2. <<>> \in Seq(Fact)
      OBVIOUS
    <3> QED
      BY <2>1, <3>1, <3>2, Zenon
  <2> QED
    BY <2>2 DEF Memory!HandoffInit, Memory!Resting
<1>4. must \in [Inode -> Seq(Line)] /\ \A i \in Inode : Len(must[i]) <= MaxLines
  <2>1. <<f>> \in Seq(Line) /\ Len(<<f>>) <= MaxLines
    BY HandoffAssumption DEF Line
  <2>2. <<>> \in Seq(Line) /\ Len(<<>>) <= MaxLines
    BY HandoffAssumption
  <2> QED
    BY <1>2, <2>1, <2>2
<1>5. writer \in [Writer -> [phase : {"idle", "open", "write", "replace", "recall", "append"},
                             fd : Inode \union {0}, new : Seq(Line), found : SUBSET Decision,
                             seen : SUBSET Decision, fresh : BOOLEAN, runs : Nat]]
  BY <1>3
<1>6. MemTypeOK
  BY <1>3, <1>4, <1>5, HandoffAssumption DEF MemTypeOK
<1>7. Short
  BY <1>3, <1>4, HandoffAssumption DEF Short
<1> QED
  BY <1>3, <1>6, <1>7, HandoffAssumption DEF MemInv, OwnInodes, HasFiles

\* A step that renames nothing and appends nothing keeps the handoff.
LEMMA SameNamesKeep ==
    ASSUME UNCHANGED <<names, decided>>
    PROVE  Memory!HandoffKept
BY DEF Memory!HandoffKept, Memory!Recorded

LEMMA ReadInputsStep ==
    ASSUME MemInv, NEW w \in Writer, Memory!ReadInputs(w)
    PROVE  MemInv' /\ Memory!HandoffKept
<1>1. PICK found \in SUBSET Decision :
         writer' = [v \in Writer |->
              IF v # w THEN [writer[v] EXCEPT !.fresh = FALSE]
              ELSE [Memory!Resting EXCEPT !.phase = "open",
                                   !.new = Memory!MustLines(Memory!Section, facts),
                                   !.found = found, !.runs = writer[w].runs + 1,
                                   !.fresh = \A u \in Writer \ {w} : writer[u].phase = "idle"]]
  BY DEF Memory!ReadInputs
<1>2. UNCHANGED <<facts, must, names, decided>>
  BY DEF Memory!ReadInputs
<1>3. PICK new : new = Memory!MustLines(Memory!Section, facts)
  OBVIOUS
<1>4. new \in Seq(Line) /\ Len(new) <= MaxLines
  BY <1>3, SectionLines, CutLines
<1>5. /\ writer'[w] = [phase |-> "open", fd |-> 0, new |-> new, found |-> found, seen |-> {},
                       fresh |-> \A u \in Writer \ {w} : writer[u].phase = "idle",
                       runs |-> writer[w].runs + 1]
      /\ \A v \in Writer \ {w} : writer'[v] = [writer[v] EXCEPT !.fresh = FALSE]
      /\ writer' = [v \in Writer |-> writer'[v]]
  BY <1>1, <1>3 DEF Memory!Resting
<1>6. MemTypeOK'
  <2>1. writer'[w] \in [phase : {"idle", "open", "write", "replace", "recall", "append"},
                        fd : Inode \union {0}, new : Seq(Line), found : SUBSET Decision,
                        seen : SUBSET Decision, fresh : BOOLEAN, runs : Nat]
    BY <1>4, <1>5 DEF MemInv, MemTypeOK
  <2>2. \A v \in Writer \ {w} :
           writer'[v] \in [phase : {"idle", "open", "write", "replace", "recall", "append"},
                           fd : Inode \union {0}, new : Seq(Line), found : SUBSET Decision,
                           seen : SUBSET Decision, fresh : BOOLEAN, runs : Nat]
    <3> SUFFICES ASSUME NEW v \in Writer \ {w}
                 PROVE  writer'[v] \in [phase : {"idle", "open", "write", "replace", "recall", "append"},
                                        fd : Inode \union {0}, new : Seq(Line), found : SUBSET Decision,
                                        seen : SUBSET Decision, fresh : BOOLEAN, runs : Nat]
      OBVIOUS
    <3>1. PICK old1 : old1 = writer[v]
      OBVIOUS
    <3>2. old1 \in [phase : {"idle", "open", "write", "replace", "recall", "append"},
                    fd : Inode \union {0}, new : Seq(Line), found : SUBSET Decision,
                    seen : SUBSET Decision, fresh : BOOLEAN, runs : Nat]
      BY <3>1 DEF MemInv, MemTypeOK
    <3>3. writer'[v] = [old1 EXCEPT !.fresh = FALSE]
      BY <1>5, <3>1
    <3> QED
      BY <3>2, <3>3
  <2>3. writer' \in [Writer -> [phase : {"idle", "open", "write", "replace", "recall", "append"},
                                fd : Inode \union {0}, new : Seq(Line), found : SUBSET Decision,
                                seen : SUBSET Decision, fresh : BOOLEAN, runs : Nat]]
    BY <1>5, <2>1, <2>2
  <2> QED
    BY <1>2, <2>3 DEF MemInv, MemTypeOK
<1>7. Short' /\ OwnInodes'
  <2>1. writer'[w].new = new /\ writer'[w].phase = "open"
    BY <1>5
  <2>2. \A v \in Writer \ {w} : /\ writer'[v].new = writer[v].new /\ writer'[v].phase = writer[v].phase
                                /\ writer'[v].fd = writer[v].fd
    BY <1>5 DEF MemInv, MemTypeOK
  <2> QED
    BY <1>2, <1>4, <2>1, <2>2 DEF MemInv, Short, OwnInodes
<1>8. ASSUME NEW v \in Writer
      PROVE  HasFiles(v)'
  <2>1. CASE v = w
    <3>1. writer'[w].fresh => \A u \in Writer \ {w} : writer[u].phase = "idle"
      BY <1>5
    <3>2. \A u \in Writer \ {w} : writer'[u].phase = writer[u].phase
      BY <1>5 DEF MemInv, MemTypeOK
    <3>3. writer'[w].phase = "open" /\ writer'[w].new = Memory!MustLines(Memory!Section, facts)'
      BY <1>2, <1>3, <1>5 DEF Memory!MustLines, Memory!Cut, Memory!Section
    <3> QED
      BY <2>1, <3>1, <3>2, <3>3 DEF HasFiles
  <2>2. CASE v # w
    BY <1>5, <2>2 DEF HasFiles, MemInv, MemTypeOK
  <2> QED
    BY <2>1, <2>2
<1> QED
  BY <1>2, <1>6, <1>7, <1>8, SameNamesKeep DEF MemInv

\* A writer goes on by itself.
LEMMA WriterGoes ==
    ASSUME MemInv, NEW w \in Writer,
           NEW new \in [phase : {"idle", "open", "write", "replace", "recall", "append"},
                        fd : Inode \union {0}, new : {writer[w].new}, found : {writer[w].found},
                        seen : SUBSET Decision, fresh : {writer[w].fresh}, runs : {writer[w].runs}],
           writer' = [writer EXCEPT ![w] = new],
           UNCHANGED facts, decided' \in Seq(Decision),
           names' \in [handoff : Inode, tmp : Inode \union {0}], names'.tmp # names'.handoff,
           must' \in [Inode -> Seq(Line)], \A i \in Inode : Len(must'[i]) <= MaxLines,
           new.phase \in {"write", "replace"} => new.fd # 0,
           writer[w].phase # "idle",
           new.fresh /\ new.phase \in {"open", "write", "replace"} =>
              /\ writer[w].phase \in {"open", "write", "replace"}
              /\ Memory!Section' = Memory!Section
              /\ new.phase \in {"write", "replace"} => new.fd = names'.tmp
              /\ new.phase = "replace" => must'[new.fd] = new.new
    PROVE  MemInv'
<1>1. /\ writer'[w] = new /\ \A v \in Writer \ {w} : writer'[v] = writer[v]
      /\ writer' \in [Writer -> [phase : {"idle", "open", "write", "replace", "recall", "append"},
                              fd : Inode \union {0}, new : Seq(Line), found : SUBSET Decision,
                              seen : SUBSET Decision, fresh : BOOLEAN, runs : Nat]]
  BY DEF MemInv, MemTypeOK
<1>2. MemTypeOK' /\ Short' /\ OwnInodes'
  BY <1>1 DEF MemInv, MemTypeOK, Short, OwnInodes
<1>3. ASSUME NEW v \in Writer
      PROVE  HasFiles(v)'
  <2>1. CASE v # w
    BY <1>1, <2>1 DEF MemInv, HasFiles
  <2>2. CASE v = w
    <3> SUFFICES ASSUME new.fresh, new.phase # "idle"
                 PROVE  HasFiles(w)'
      BY <1>1, <2>2 DEF HasFiles
    <3>1. writer[w].fresh /\ HasFiles(w) /\ new.new = writer[w].new
      BY DEF MemInv
    <3>2. \A u \in Writer \ {w} : writer'[u].phase = "idle"
      BY <1>1, <3>1 DEF HasFiles
    <3>3. new.phase \in {"open", "write", "replace"} =>
             new.new = Memory!MustLines(Memory!Section', facts')
      BY <3>1 DEF HasFiles
    <3>4. Memory!MustLines(Memory!Section, facts)' = Memory!MustLines(Memory!Section', facts')
      BY DEF Memory!MustLines, Memory!Cut
    <3> QED
      BY <1>1, <3>2, <3>3, <3>4 DEF HasFiles
  <2> QED
    BY <2>1, <2>2
<1> QED
  BY <1>2, <1>3 DEF MemInv

LEMMA OpenTmpStep ==
    ASSUME MemInv, NEW w \in Writer, Memory!OpenTmp(w)
    PROVE  MemInv' /\ Memory!HandoffKept
<1>1. PICK i \in Inode :
         /\ IF names.tmp # 0 THEN i = names.tmp
            ELSE i \notin {names.handoff} \union {writer[v].fd : v \in Writer}
         /\ names' = [names EXCEPT !.tmp = i]
         /\ must' = [must EXCEPT ![i] = <<>>]
         /\ writer' = [writer EXCEPT ![w].phase = "write", ![w].fd = i]
  BY DEF Memory!OpenTmp
<1>2. writer[w].phase = "open" /\ UNCHANGED <<facts, decided>>
  BY DEF Memory!OpenTmp
<1>3. PICK new : new = [writer[w] EXCEPT !.phase = "write", !.fd = i]
  OBVIOUS
<1>4. /\ new \in [phase : {"idle", "open", "write", "replace", "recall", "append"},
                  fd : Inode \union {0}, new : {writer[w].new}, found : {writer[w].found},
                  seen : SUBSET Decision, fresh : {writer[w].fresh}, runs : {writer[w].runs}]
      /\ new.phase = "write" /\ new.fd = i
  BY <1>3 DEF MemInv, MemTypeOK
<1>5. writer' = [writer EXCEPT ![w] = new]
  BY <1>1, <1>3 DEF MemInv, MemTypeOK
<1>6. i # names.handoff /\ names'.handoff = names.handoff /\ names'.tmp = i
  BY <1>1 DEF MemInv, MemTypeOK, OwnInodes
<1>7. /\ must' \in [Inode -> Seq(Line)] /\ \A j \in Inode : Len(must'[j]) <= MaxLines
      /\ must'[names.handoff] = must[names.handoff]
  BY <1>1, <1>6, HandoffAssumption DEF MemInv, MemTypeOK, Short
<1>8. Memory!Section' = Memory!Section
  BY <1>6, <1>7 DEF Memory!Section
<1>9. names' \in [handoff : Inode, tmp : Inode \union {0}] /\ decided' \in Seq(Decision) /\ i # 0
  BY <1>1, <1>2, HandoffAssumption DEF MemInv, MemTypeOK
<1>10. MemInv'
  BY <1>2, <1>4, <1>5, <1>6, <1>7, <1>8, <1>9, WriterGoes
<1>11. Memory!HandoffKept
  BY <1>2, <1>8, SectionLines, PrefixOfItself DEF Memory!HandoffKept, Memory!Recorded
<1> QED
  BY <1>10, <1>11

LEMMA WriteTmpStep ==
    ASSUME MemInv, NEW w \in Writer, Memory!WriteTmp(w)
    PROVE  MemInv' /\ Memory!HandoffKept
<1>1. /\ writer[w].phase = "write" /\ UNCHANGED <<facts, names, decided>>
      /\ must' = [must EXCEPT ![writer[w].fd] = writer[w].new]
      /\ writer' = [writer EXCEPT ![w].phase = "replace"]
  BY DEF Memory!WriteTmp, Memory!Goto
<1>2. PICK new : new = [writer[w] EXCEPT !.phase = "replace"]
  OBVIOUS
<1>3. /\ new \in [phase : {"idle", "open", "write", "replace", "recall", "append"},
                  fd : Inode \union {0}, new : {writer[w].new}, found : {writer[w].found},
                  seen : SUBSET Decision, fresh : {writer[w].fresh}, runs : {writer[w].runs}]
      /\ new.phase = "replace" /\ new.fd = writer[w].fd /\ new.new = writer[w].new
      /\ new.fresh = writer[w].fresh
  BY <1>2 DEF MemInv, MemTypeOK
<1>4. writer' = [writer EXCEPT ![w] = new]
  BY <1>1, <1>2 DEF MemInv, MemTypeOK
<1>5. writer[w].fd \in Inode
  BY <1>1, HandoffAssumption DEF MemInv, MemTypeOK, OwnInodes
<1>6. /\ must' \in [Inode -> Seq(Line)] /\ \A j \in Inode : Len(must'[j]) <= MaxLines
      /\ must'[new.fd] = new.new
      /\ \A j \in Inode : j # new.fd => must'[j] = must[j]
  BY <1>1, <1>3, <1>5 DEF MemInv, MemTypeOK, Short
<1>7. new.fresh => new.fd = names.tmp
  BY <1>1, <1>3 DEF MemInv, HasFiles
<1>8. names.handoff \in Inode /\ names.tmp # names.handoff
  BY DEF MemInv, MemTypeOK, OwnInodes
<1>9. new.fresh => Memory!Section' = Memory!Section
  BY <1>1, <1>6, <1>7, <1>8 DEF Memory!Section
<1>10. names' \in [handoff : Inode, tmp : Inode \union {0}] /\ decided' \in Seq(Decision) /\ new.fd # 0
  BY <1>1, <1>3, <1>5, HandoffAssumption DEF MemInv, MemTypeOK
<1>11. names'.tmp # names'.handoff /\ names'.tmp = names.tmp /\ UNCHANGED facts
  BY <1>1, <1>8
<1>12. MemInv'
  <2> HIDE DEF MemInv
  <2> QED
    BY <1>1, <1>3, <1>4, <1>6, <1>7, <1>9, <1>10, <1>11, WriterGoes, ZenonT(60)
<1> QED
  BY <1>1, <1>12, SameNamesKeep

LEMMA ReplaceStep ==
    ASSUME MemInv, NEW w \in Writer, Memory!Replace(w)
    PROVE  MemInv' /\ Memory!HandoffKept
<1>1. writer[w].phase = "replace" /\ UNCHANGED <<facts, must, decided>>
  BY DEF Memory!Replace
<1>2. PICK phase \in {"idle", "recall"} :
         /\ writer' = [writer EXCEPT ![w].phase = phase, ![w].fd = 0]
         /\ \/ names' = names
            \/ names.tmp # 0 /\ names' = [handoff |-> names.tmp, tmp |-> 0]
  BY DEF Memory!Replace
<1>3. PICK new : new = [writer[w] EXCEPT !.phase = phase, !.fd = 0]
  OBVIOUS
<1>4. /\ new \in [phase : {"idle", "open", "write", "replace", "recall", "append"},
                  fd : Inode \union {0}, new : {writer[w].new}, found : {writer[w].found},
                  seen : SUBSET Decision, fresh : {writer[w].fresh}, runs : {writer[w].runs}]
      /\ new.phase \notin {"open", "write", "replace"}
  BY <1>3 DEF MemInv, MemTypeOK
<1>5. writer' = [writer EXCEPT ![w] = new]
  BY <1>2, <1>3 DEF MemInv, MemTypeOK
<1>6. names' \in [handoff : Inode, tmp : Inode \union {0}] /\ names'.tmp # names'.handoff
  BY <1>2 DEF MemInv, MemTypeOK, OwnInodes
<1>7. decided' \in Seq(Decision) /\ must' \in [Inode -> Seq(Line)] /\ \A i \in Inode : Len(must'[i]) <= MaxLines
  BY <1>1 DEF MemInv, MemTypeOK, Short
<1>8. MemInv'
  BY <1>1, <1>4, <1>5, <1>6, <1>7, WriterGoes
<1>9. ASSUME NEW v \in Writer, writer[v].phase = "replace", writer[v].fresh, names'.tmp # names.tmp
      PROVE  Memory!IsPrefix(Memory!Section, Memory!Section')
  <2>1. names'.handoff = names.tmp /\ names.tmp # 0
    BY <1>2, <1>9
  <2>2. must[names.tmp] = Memory!MustLines(Memory!Section, facts)
    BY <1>9 DEF MemInv, HasFiles
  <2>3. Memory!Section' = Memory!MustLines(Memory!Section, facts)
    BY <1>1, <2>1, <2>2 DEF Memory!Section
  <2> QED
    BY <2>3, SectionLines, CutLines
<1> QED
  BY <1>1, <1>8, <1>9 DEF Memory!HandoffKept, Memory!Recorded

LEMMA DecisionsStep ==
    ASSUME MemInv, NEW w \in Writer, Memory!RecallDecisions(w) \/ Memory!AppendDecisions(w)
    PROVE  MemInv' /\ Memory!HandoffKept
<1>1. /\ writer[w].phase \in {"recall", "append"} /\ UNCHANGED <<facts, must, names>>
      /\ \/ writer' = [writer EXCEPT ![w].phase = "append", ![w].seen = Memory!ToSet(decided)] /\ UNCHANGED decided
         \/ /\ writer' = [writer EXCEPT ![w].phase = "idle"]
            /\ decided' = decided \o Memory!SetToSeq(writer[w].found \ writer[w].seen)
  BY DEF Memory!RecallDecisions, Memory!AppendDecisions, Memory!Appended, Memory!Goto
<1>2. Memory!SetToSeq(writer[w].found \ writer[w].seen) \in Seq(Decision)
  <2> PICK S \in SUBSET Decision : S = writer[w].found \ writer[w].seen
    BY DEF MemInv, MemTypeOK
  <2>1. IsFiniteSet(S)
    BY HandoffAssumption, FS_Subset
  <2>2. Memory!IsFiniteSet(S)
    BY <2>1 DEF Memory!IsFiniteSet, IsFiniteSet
  <2>3. Memory!SetToSeq(S) \in Seq(S)
    BY <2>2, SetEnumerated
  <2> QED
    BY <2>3
<1>3. decided \in Seq(Decision) /\ Memory!ToSet(decided) \in SUBSET Decision
  BY DEF MemInv, MemTypeOK, Memory!ToSet
<1>4. decided' \in Seq(Decision) /\ Memory!ToSet(decided) \subseteq Memory!ToSet(decided')
  <2>1. CASE UNCHANGED decided
    BY <1>3, <2>1
  <2>2. ASSUME NEW more \in Seq(Decision), decided' = decided \o more
        PROVE  decided' \in Seq(Decision) /\ Memory!ToSet(decided) \subseteq Memory!ToSet(decided')
    <3>1. /\ decided' \in Seq(Decision) /\ DOMAIN decided \subseteq DOMAIN decided'
          /\ \A i \in DOMAIN decided : decided'[i] = decided[i]
      BY <1>3, <2>2
    <3> QED
      BY <3>1 DEF Memory!ToSet
  <2> QED
    BY <1>1, <1>2, <2>1, <2>2
<1>5. PICK phase \in {"idle", "append"}, seen \in SUBSET Decision :
         writer' = [writer EXCEPT ![w].phase = phase, ![w].seen = seen]
  <2>1. CASE writer' = [writer EXCEPT ![w].phase = "idle"]
    <3>1. writer' = [writer EXCEPT ![w].phase = "idle", ![w].seen = writer[w].seen]
      BY <2>1 DEF MemInv, MemTypeOK
    <3> QED
      BY <3>1 DEF MemInv, MemTypeOK
  <2> QED
    BY <1>1, <1>3, <2>1
<1>6. PICK new : new = [writer[w] EXCEPT !.phase = phase, !.seen = seen]
  OBVIOUS
<1>7. /\ new \in [phase : {"idle", "open", "write", "replace", "recall", "append"},
                  fd : Inode \union {0}, new : {writer[w].new}, found : {writer[w].found},
                  seen : SUBSET Decision, fresh : {writer[w].fresh}, runs : {writer[w].runs}]
      /\ new.phase \notin {"open", "write", "replace"}
  BY <1>6 DEF MemInv, MemTypeOK
<1>8. writer' = [writer EXCEPT ![w] = new]
  BY <1>5, <1>6 DEF MemInv, MemTypeOK
<1>9. /\ names' \in [handoff : Inode, tmp : Inode \union {0}] /\ names'.tmp # names'.handoff
      /\ must' \in [Inode -> Seq(Line)] /\ \A i \in Inode : Len(must'[i]) <= MaxLines
  BY <1>1 DEF MemInv, MemTypeOK, Short, OwnInodes
<1>10. MemInv'
  BY <1>1, <1>4, <1>7, <1>8, <1>9, WriterGoes
<1> QED
  BY <1>1, <1>4, <1>10 DEF Memory!HandoffKept, Memory!Recorded

LEMMA LearnFactStep ==
    ASSUME MemInv, NEW f \in Fact, Memory!LearnFact(f)
    PROVE  MemInv' /\ Memory!HandoffKept
<1>1. /\ facts' = Append(facts, f) /\ UNCHANGED <<must, names, decided>>
      /\ writer' = [v \in Writer |-> [writer[v] EXCEPT !.fresh = FALSE]]
  BY DEF Memory!LearnFact
<1>2. \A v \in Writer : /\ writer'[v].phase = writer[v].phase /\ writer'[v].fd = writer[v].fd
                        /\ writer'[v].new = writer[v].new /\ writer'[v].fresh = FALSE
  BY <1>1 DEF MemInv, MemTypeOK
<1>3. MemTypeOK'
  <2>1. facts' \in Seq(Fact)
    BY <1>1 DEF MemInv, MemTypeOK
  <2>2. writer' \in [Writer -> [phase : {"idle", "open", "write", "replace", "recall", "append"},
                                fd : Inode \union {0}, new : Seq(Line), found : SUBSET Decision,
                                seen : SUBSET Decision, fresh : BOOLEAN, runs : Nat]]
    BY <1>1, ZenonT(60) DEF MemInv, MemTypeOK
  <2> QED
    BY <1>1, <2>1, <2>2 DEF MemInv, MemTypeOK
<1> QED
  BY <1>1, <1>2, <1>3, SameNamesKeep DEF MemInv, Short, OwnInodes, HasFiles

LEMMA MemStep ==
    ASSUME MemInv, Memory!HandoffNext
    PROVE  MemInv' /\ Memory!HandoffKept
BY ReadInputsStep, OpenTmpStep, WriteTmpStep, ReplaceStep, DecisionsStep, LearnFactStep
   DEF Memory!HandoffNext

LEMMA MemStutter ==
    ASSUME MemInv, UNCHANGED memory
    PROVE  MemInv' /\ Memory!HandoffKept
<1>1. UNCHANGED <<facts, must, names, decided, writer>>
  BY DEF memory
<1> QED
  BY <1>1, SameNamesKeep DEF MemInv, MemTypeOK, Short, OwnInodes, HasFiles, Memory!MustLines, Memory!Cut,
     Memory!Section
------------------------------------------------------------------------------
(* The walks of the code graph.  Induction over the length of a way is     *)
(* induction over a set of numbers.                                        *)

LEMMA SetInduction ==
    ASSUME NEW S, 0 \in S, \A n \in Nat : n \in S => n + 1 \in S
    PROVE  Nat \subseteq S
<1> SUFFICES ASSUME NEW m \in Nat, m \notin S
             PROVE  FALSE
  OBVIOUS
<1> DEFINE T == {n \in Nat : n \notin S}
<1>1. T \subseteq Nat /\ m \in T
  OBVIOUS
<1>2. PICK n \in T : \A k \in T : n <= k
  <2> HIDE DEF T
  <2> QED
    BY <1>1, LeastNatural
<1>3. n # 0 /\ n - 1 \in Nat /\ n - 1 \notin S
  BY <1>2
<1> QED
  BY <1>2, <1>3

\* The balls up to a number n, as a function on 0..n, and the ball around another.
Grown(near, nodes) == nodes \union UNION {near[n] : n \in nodes}
BallsTo(f, n, nodes, near) == f = [k \in 0..n |-> IF k = 0 THEN nodes ELSE Grown(near, f[k - 1])]

LEMMA BallsExist ==
    ASSUME NEW nodes, NEW near, NEW n \in Nat
    PROVE  \E f : BallsTo(f, n, nodes, near)
<1> DEFINE S == {m \in Nat : \E f : BallsTo(f, m, nodes, near)}
<1>1. 0 \in S
  <2>1. BallsTo([k \in 0..0 |-> nodes], 0, nodes, near)
    BY DEF BallsTo
  <2> QED
    BY <2>1
<1>2. ASSUME NEW m \in Nat, m \in S
      PROVE  m + 1 \in S
  <2>1. PICK f : BallsTo(f, m, nodes, near)
    BY <1>2
  <2>2. PICK g : g = [k \in 0..(m + 1) |-> IF k <= m THEN f[k] ELSE Grown(near, f[m])]
    OBVIOUS
  <2>3. \A k \in 0..(m + 1) : g[k] = IF k = 0 THEN nodes ELSE Grown(near, g[k - 1])
    BY <2>1, <2>2 DEF BallsTo
  <2>4. BallsTo(g, m + 1, nodes, near)
    BY <2>2, <2>3 DEF BallsTo
  <2> QED
    BY <2>4
<1> HIDE DEF S
<1>3. Nat \subseteq S
  BY <1>1, <1>2, SetInduction
<1> QED
  BY <1>3 DEF S

LEMMA BallsAgree ==
    ASSUME NEW nodes, NEW near, NEW n \in Nat, NEW m \in Nat, NEW f, NEW g,
           BallsTo(f, n, nodes, near), BallsTo(g, m, nodes, near)
    PROVE  \A k \in Nat : k <= n /\ k <= m => f[k] = g[k]
<1> DEFINE S == {k \in Nat : k <= n /\ k <= m => f[k] = g[k]}
<1>1. 0 \in S
  BY DEF BallsTo
<1>2. ASSUME NEW k \in Nat, k \in S
      PROVE  k + 1 \in S
  BY <1>2 DEF BallsTo
<1> HIDE DEF S
<1>3. Nat \subseteq S
  BY <1>1, <1>2, SetInduction
<1> QED
  BY <1>3 DEF S

LEMMA BallsGrow ==
    ASSUME NEW nodes, NEW near
    PROVE  /\ Walk!Within(nodes, near)[0] = nodes
           /\ \A k \in Nat : Walk!Within(nodes, near)[k + 1] = Grown(near, Walk!Within(nodes, near)[k])
<1> DEFINE to(n) == CHOOSE f : BallsTo(f, n, nodes, near)
           ball == [n \in Nat |-> to(n)[n]]
<1>1. \A n \in Nat : BallsTo(to(n), n, nodes, near)
  BY BallsExist
<1>2. \A n \in Nat : to(n + 1)[n] = to(n)[n]
  <2> TAKE n \in Nat
  <2>1. BallsTo(to(n), n, nodes, near) /\ BallsTo(to(n + 1), n + 1, nodes, near)
    BY <1>1
  <2> HIDE DEF to
  <2> QED
    BY <2>1, BallsAgree
<1> HIDE DEF to
<1>3. \A n \in Nat : to(n)[n] = IF n = 0 THEN nodes ELSE Grown(near, to(n)[n - 1])
  BY <1>1 DEF BallsTo
<1>4. \A n \in Nat : ball[n] = IF n = 0 THEN nodes ELSE Grown(near, ball[n - 1])
  <2> TAKE n \in Nat
  <2>1. CASE n = 0
    BY <2>1, <1>3
  <2>2. CASE n # 0
    <3>1. n - 1 \in Nat /\ (n - 1) + 1 = n
      BY <2>2
    <3>2. to(n)[n - 1] = to(n - 1)[n - 1]
      BY <1>2, <3>1
    <3> QED
      BY <1>3, <2>2, <3>1, <3>2
  <2> QED
    BY <2>1, <2>2
<1>5. ball = [k \in Nat |-> IF k = 0 THEN nodes ELSE Grown(near, ball[k - 1])]
  BY <1>4
<1> HIDE DEF ball
<1>6. \E f : f = [k \in Nat |-> IF k = 0 THEN nodes
                               ELSE f[k - 1] \union UNION {near[n] : n \in f[k - 1]}]
  BY <1>5 DEF Grown
<1>7. Walk!Within(nodes, near) =
         CHOOSE f : f = [k \in Nat |-> IF k = 0 THEN nodes
                                       ELSE f[k - 1] \union UNION {near[n] : n \in f[k - 1]}]
  BY DEF Walk!Within
<1>8. PICK f : f = Walk!Within(nodes, near)
  OBVIOUS
<1>9. f = [k \in Nat |-> IF k = 0 THEN nodes ELSE f[k - 1] \union UNION {near[n] : n \in f[k - 1]}]
  BY <1>6, <1>7, <1>8
<1>10. \A i \in Nat : f[i] = IF i = 0 THEN nodes ELSE f[i - 1] \union UNION {near[n] : n \in f[i - 1]}
  <2>1. PICK h : h = f
    OBVIOUS
  <2>2. h = [k \in Nat |-> IF k = 0 THEN nodes ELSE f[k - 1] \union UNION {near[n] : n \in f[k - 1]}]
    BY <1>9, <2>1
  <2>3. \A i \in Nat : h[i] = IF i = 0 THEN nodes ELSE f[i - 1] \union UNION {near[n] : n \in f[i - 1]}
    BY <2>2
  <2> QED
    BY <2>1, <2>3
<1>11. f[0] = nodes
  BY <1>10
<1>12. ASSUME NEW k \in Nat
       PROVE  f[k + 1] = Grown(near, f[k])
  <2>1. k + 1 \in Nat /\ k + 1 # 0 /\ (k + 1) - 1 = k
    OBVIOUS
  <2>2. f[k + 1] = f[(k + 1) - 1] \union UNION {near[n] : n \in f[(k + 1) - 1]}
    BY <1>10, <2>1
  <2> QED
    BY <2>1, <2>2 DEF Grown
<1> QED
  BY <1>8, <1>11, <1>12

\* What a graph's nodes relate to, and what is around a set of them.
LEMMA BallsAreNodes ==
    ASSUME NEW near \in [Node -> SUBSET Node], NEW nodes \in SUBSET Node, NEW k \in Nat
    PROVE  /\ Walk!Within(nodes, near)[k] \in SUBSET Node
           /\ Walk!Within(nodes, near)[k] \subseteq Walk!Within(nodes, near)[k + 1]
<1> PICK ball : ball = Walk!Within(nodes, near)
  OBVIOUS
<1>1. ball[0] = nodes /\ \A i \in Nat : ball[i + 1] = Grown(near, ball[i])
  BY BallsGrow
<1> DEFINE S == {i \in Nat : ball[i] \in SUBSET Node}
<1>2. 0 \in S
  BY <1>1
<1>3. ASSUME NEW i \in Nat, i \in S
      PROVE  i + 1 \in S
  BY <1>1, <1>3 DEF Grown
<1> HIDE DEF S
<1>4. Nat \subseteq S
  BY <1>2, <1>3, SetInduction
<1> QED
  BY <1>1, <1>4 DEF S, Grown

LEMMA BallsIncrease ==
    ASSUME NEW near \in [Node -> SUBSET Node], NEW nodes \in SUBSET Node, NEW k \in Nat, NEW m \in Nat, k <= m
    PROVE  Walk!Within(nodes, near)[k] \subseteq Walk!Within(nodes, near)[m]
<1> PICK ball : ball = Walk!Within(nodes, near)
  OBVIOUS
<1> DEFINE S == {i \in Nat : ball[k] \subseteq ball[k + i]}
<1>1. 0 \in S
  OBVIOUS
<1>2. ASSUME NEW i \in Nat, i \in S
      PROVE  i + 1 \in S
  <2>1. k + i \in Nat /\ k + (i + 1) = (k + i) + 1
    OBVIOUS
  <2>2. ball[k + i] \subseteq ball[(k + i) + 1]
    BY <2>1, BallsAreNodes
  <2> QED
    BY <1>2, <2>1, <2>2
<1> HIDE DEF S
<1>3. Nat \subseteq S
  BY <1>1, <1>2, SetInduction
<1>4. m - k \in Nat /\ k + (m - k) = m
  OBVIOUS
<1>5. m - k \in S
  BY <1>3, <1>4
<1> QED
  BY <1>4, <1>5 DEF S

\* What is closed under the relation holds every ball.
LEMMA ClosedHoldsBalls ==
    ASSUME NEW near, NEW nodes, NEW C, nodes \subseteq C, \A n \in C : near[n] \subseteq C, NEW k \in Nat
    PROVE  Walk!Within(nodes, near)[k] \subseteq C
<1> PICK ball : ball = Walk!Within(nodes, near)
  OBVIOUS
<1>1. ball[0] = nodes /\ \A i \in Nat : ball[i + 1] = Grown(near, ball[i])
  BY BallsGrow
<1> DEFINE S == {i \in Nat : ball[i] \subseteq C}
<1>2. 0 \in S
  BY <1>1
<1>3. ASSUME NEW i \in Nat, i \in S
      PROVE  i + 1 \in S
  BY <1>1, <1>3 DEF Grown
<1> HIDE DEF S
<1>4. Nat \subseteq S
  BY <1>2, <1>3, SetInduction
<1> QED
  BY <1>4 DEF S

\* A way that goes nowhere twice is no longer than there are nodes: the ball of that size
\* is everything that can be reached.
LEMMA EverywhereIsClosed ==
    ASSUME NEW near \in [Node -> SUBSET Node], NEW nodes \in SUBSET Node
    PROVE  /\ Walk!Everywhere \in Nat
           /\ nodes \subseteq Walk!Within(nodes, near)[Walk!Everywhere]
           /\ \A n \in Walk!Within(nodes, near)[Walk!Everywhere] :
                 near[n] \subseteq Walk!Within(nodes, near)[Walk!Everywhere]
<1> PICK ball : ball = Walk!Within(nodes, near)
  OBVIOUS
<1> DEFINE Closed(i) == \A n \in ball[i] : near[n] \subseteq ball[i]
           S == {i \in Nat : Closed(i) \/ Cardinality(ball[i]) >= i}
<1>1. ball[0] = nodes /\ \A i \in Nat : ball[i + 1] = Grown(near, ball[i])
  BY BallsGrow
<1>2. IsFiniteSet(Node) /\ Cardinality(Node) \in Nat /\ Walk!Everywhere = Cardinality(Node)
  BY WalkAssumption, FS_CardinalityType DEF Walk!Everywhere, Walk!Cardinality, Cardinality
<1>3. \A i \in Nat : /\ ball[i] \in SUBSET Node /\ ball[i] \subseteq ball[i + 1]
                     /\ IsFiniteSet(ball[i]) /\ Cardinality(ball[i]) \in Nat
                     /\ Cardinality(ball[i]) <= Cardinality(Node)
                     /\ Cardinality(ball[i]) = Cardinality(Node) => ball[i] = Node
  <2> TAKE i \in Nat
  <2>1. ball[i] \in SUBSET Node /\ ball[i] \subseteq ball[i + 1]
    BY BallsAreNodes
  <2>2. /\ IsFiniteSet(ball[i]) /\ Cardinality(ball[i]) <= Cardinality(Node)
        /\ Cardinality(ball[i]) = Cardinality(Node) => ball[i] = Node
    BY <1>2, <2>1, FS_Subset
  <2> QED
    BY <2>1, <2>2, FS_CardinalityType
<1>4. 0 \in S
  BY <1>3
<1>5. ASSUME NEW i \in Nat, i \in S
      PROVE  i + 1 \in S
  <2>1. CASE Closed(i)
    BY <1>1, <2>1 DEF Grown
  <2>2. CASE ~Closed(i)
    <3>1. ball[i + 1] # ball[i]
      BY <1>1, <2>2 DEF Grown
    <3>2. Cardinality(ball[i]) <= Cardinality(ball[i + 1]) /\ Cardinality(ball[i]) # Cardinality(ball[i + 1])
      <4>1. IsFiniteSet(ball[i + 1]) /\ ball[i] \in SUBSET ball[i + 1]
        BY <1>3
      <4> QED
        BY <3>1, <4>1, FS_Subset
    <3>3. Cardinality(ball[i]) >= i /\ Cardinality(ball[i]) \in Nat /\ Cardinality(ball[i + 1]) \in Nat
      BY <1>3, <1>5, <2>2
    <3>4. Cardinality(ball[i + 1]) >= i + 1
      BY <3>2, <3>3
    <3> QED
      BY <3>4
  <2> QED
    BY <2>1, <2>2
<1>6. Closed(Cardinality(Node))
  <2>1. Cardinality(Node) \in S
    <3> HIDE DEF S
    <3>1. Nat \subseteq S
      BY <1>4, <1>5, SetInduction
    <3> QED
      BY <1>2, <3>1
  <2>2. CASE Cardinality(ball[Cardinality(Node)]) >= Cardinality(Node)
    <3>1. ball[Cardinality(Node)] = Node
      BY <1>2, <1>3, <2>2
    <3> QED
      BY <3>1
  <2> QED
    BY <2>1, <2>2
<1>7. nodes \subseteq ball[Cardinality(Node)]
  BY <1>1, <1>2, BallsIncrease
<1> QED
  BY <1>2, <1>6, <1>7
Way == Seq(Node) \ {<<>>}

\* A call and its loop.
WalkRecord ==
    [call : {"in", "out", "impact", "path"}, from : SUBSET Node, todo : SUBSET Node,
     target : Node \union {"none"}, depth : Nat, skip : BOOLEAN, queue : Seq(Way),
     visited : SUBSET Node, affected : SUBSET Node, found : Seq(Node), done : BOOLEAN]

WalkTypeOK ==
    /\ graph \in [arcs : SUBSET (Node \X Node), entities : SUBSET Node, tests : SUBSET Node,
                  rationale : SUBSET Node]
    /\ walk = [call |-> "none"] \/ walk \in WalkRecord

\* The node that a way leads to, which is still to be expanded.
End(way) == way[Len(way)]
Waits(n, q, d) == \E i \in DOMAIN q : End(q[i]) = n /\ Len(q[i]) = d + 1
\* The queue without its head, and behind it the ways that go on to the nodes of a set.
Enqueued(q, nodes, next) ==
    /\ next \in Seq(Way) /\ Len(next) >= Len(q) - 1
    /\ \A i \in 1..(Len(q) - 1) : next[i] = q[i + 1]
    /\ \A i \in DOMAIN next : i >= Len(q) => \E n \in nodes : next[i] = Append(q[1], n)
    /\ \A n \in nodes : \E i \in DOMAIN next : next[i] = Append(q[1], n)

LEMMA WayGoesOn ==
    ASSUME NEW way \in Way, NEW n \in Node
    PROVE  /\ Append(way, n) \in Way /\ Len(Append(way, n)) = Len(way) + 1
           /\ End(Append(way, n)) = n /\ Append(way, n)[1] = way[1]
           /\ Len(way) \in Nat /\ Len(way) >= 1 /\ End(way) \in Node /\ way[1] \in Node
           /\ \A i \in 1..Len(way) : Append(way, n)[i] = way[i]
<1>1. way \in Seq(Node) /\ Len(way) \in Nat /\ Len(way) # 0
  BY DEF Way
<1>2. way[1] \in Node /\ way[Len(way)] \in Node
  BY <1>1
<1>3. /\ Append(way, n) \in Seq(Node) /\ Len(Append(way, n)) = Len(way) + 1
      /\ Append(way, n)[Len(way) + 1] = n /\ \A i \in 1..Len(way) : Append(way, n)[i] = way[i]
  BY <1>1
<1> QED
  BY <1>1, <1>2, <1>3 DEF Way, End

LEMMA WayMeasured ==
    ASSUME NEW way \in Way
    PROVE  way \in Seq(Node) /\ Len(way) \in Nat /\ Len(way) >= 1 /\ End(way) \in Node /\ way[1] \in Node
<1>1. way \in Seq(Node) /\ Len(way) \in Nat /\ Len(way) # 0
  BY DEF Way
<1>2. way[1] \in Node /\ way[Len(way)] \in Node
  BY <1>1
<1> QED
  BY <1>1, <1>2 DEF End

LEMMA TailEnqueues ==
    ASSUME NEW q \in Seq(Way), q # <<>>
    PROVE  Enqueued(q, {}, Tail(q))
BY DEF Enqueued

LEMMA Concatenated ==
    ASSUME NEW S, NEW s \in Seq(S), NEW t \in Seq(S)
    PROVE  /\ s \o t \in Seq(S) /\ Len(s \o t) = Len(s) + Len(t)
           /\ \A i \in 1..Len(s) : (s \o t)[i] = s[i]
           /\ \A i \in 1..Len(t) : (s \o t)[Len(s) + i] = t[i]
OBVIOUS

LEMMA ListMade ==
    ASSUME NEW S, NEW c \in Nat, NEW s \in [1..c -> S]
    PROVE  s \in Seq(S) /\ Len(s) = c
OBVIOUS

LEMMA QueuedEnqueues ==
    ASSUME NEW nodes \in SUBSET Node, walk.queue \in Seq(Way), walk.queue # <<>>,
           NEW next \in Walk!Queued(nodes)
    PROVE  Enqueued(walk.queue, nodes, next)
<1>1. PICK listed \in Walk!SetToSeqs(nodes) :
         next = Tail(walk.queue) \o [i \in DOMAIN listed |-> Append(Head(walk.queue), listed[i])]
  BY DEF Walk!Queued
<1>2. IsFiniteSet(nodes) /\ Cardinality(nodes) \in Nat
  BY WalkAssumption, FS_Subset, FS_CardinalityType
<1>3. PICK c \in Nat : c = Cardinality(nodes)
  BY <1>2
<1>4. listed \in [1..c -> nodes] /\ \A i, j \in 1..c : i # j => listed[i] # listed[j]
  BY <1>3 DEF Walk!SetToSeqs, Walk!Cardinality, Cardinality
<1>5. \A n \in nodes : \E i \in 1..c : listed[i] = n
  <2>1. IsFiniteSet(1..c) /\ Cardinality(1..c) = c
    BY FS_Interval
  <2>2. listed \in Injection(1..c, nodes)
    BY <1>4 DEF Injection, IsInjective
  <2>3. listed \in Surjection(1..c, nodes)
    BY <1>2, <1>3, <2>1, <2>2, FS_Injection
  <2> QED
    BY <2>3 DEF Surjection
<1> DEFINE head == Head(walk.queue)
           more == [i \in 1..c |-> Append(head, listed[i])]
<1>6. next = Tail(walk.queue) \o more
  BY <1>1, <1>4
<1>7. head = walk.queue[1] /\ head \in Way
  OBVIOUS
<1>8. \A i \in 1..c : Append(head, listed[i]) \in Way
  BY <1>4, <1>7, WayGoesOn
<1> HIDE DEF head
<1>9. more \in Seq(Way) /\ Len(more) = c /\ \A i \in 1..c : more[i] = Append(head, listed[i])
  <2>1. more \in [1..c -> Way] /\ \A i \in 1..c : more[i] = Append(head, listed[i])
    BY <1>8
  <2> HIDE DEF more
  <2> QED
    BY <2>1, ListMade
<1> HIDE DEF more
<1>10. /\ Tail(walk.queue) \in Seq(Way) /\ Len(Tail(walk.queue)) = Len(walk.queue) - 1
       /\ Len(walk.queue) \in Nat \ {0}
       /\ \A i \in 1..(Len(walk.queue) - 1) : Tail(walk.queue)[i] = walk.queue[i + 1]
  OBVIOUS
<1>11. /\ next \in Seq(Way) /\ Len(next) = Len(walk.queue) - 1 + c
       /\ \A i \in 1..(Len(walk.queue) - 1) : next[i] = walk.queue[i + 1]
       /\ \A i \in 1..c : next[Len(walk.queue) - 1 + i] = Append(walk.queue[1], listed[i])
  <2>1. PICK tail : tail = Tail(walk.queue)
    OBVIOUS
  <2>2. next = tail \o more /\ tail \in Seq(Way) /\ Len(tail) = Len(walk.queue) - 1
    BY <1>6, <1>10, <2>1
  <2>3. /\ next \in Seq(Way) /\ Len(next) = Len(tail) + c
        /\ \A i \in 1..Len(tail) : next[i] = tail[i]
        /\ \A i \in 1..c : next[Len(tail) + i] = more[i]
    <3>1. tail \in Seq(Way) /\ more \in Seq(Way)
      BY <1>9, <2>2
    <3>2. /\ tail \o more \in Seq(Way) /\ Len(tail \o more) = Len(tail) + Len(more)
          /\ \A i \in 1..Len(tail) : (tail \o more)[i] = tail[i]
          /\ \A i \in 1..Len(more) : (tail \o more)[Len(tail) + i] = more[i]
      BY <3>1, Concatenated
    <3>3. PICK m : m = Len(tail)
      OBVIOUS
    <3>4. PICK s : s = tail \o more
      OBVIOUS
    <3> QED
      BY <1>9, <2>2, <3>2, <3>3, <3>4
  <2> QED
    BY <1>7, <1>9, <1>10, <2>1, <2>2, <2>3
<1>12. ASSUME NEW i \in DOMAIN next, i >= Len(walk.queue)
       PROVE  \E n \in nodes : next[i] = Append(walk.queue[1], n)
  <2>1. PICK k \in 1..c : i = Len(walk.queue) - 1 + k
    <3>1. i \in Nat /\ i <= Len(walk.queue) - 1 + c
      BY <1>10, <1>11
    <3>2. i - (Len(walk.queue) - 1) \in 1..c /\ i = Len(walk.queue) - 1 + (i - (Len(walk.queue) - 1))
      BY <1>10, <1>12, <3>1
    <3> QED
      BY <3>2
  <2> QED
    BY <1>4, <1>11, <2>1
<1>13. ASSUME NEW n \in nodes
       PROVE  \E i \in DOMAIN next : next[i] = Append(walk.queue[1], n)
  <2>1. PICK k \in 1..c : listed[k] = n
    BY <1>5
  <2>2. Len(walk.queue) - 1 + k \in DOMAIN next
    BY <1>10, <1>11
  <2> QED
    BY <1>11, <2>1, <2>2
<1> QED
  BY <1>10, <1>11, <1>12, <1>13 DEF Enqueued

\* A search by levels: all within reach of the level of the queue's head are seen, and what
\* is not yet expanded of the level, or beyond it, waits in the queue.
Searched(q, visited, near, ball) ==
    /\ ball[0] \subseteq visited
    /\ q = <<>> => \A n \in visited : near[n] \subseteq visited
    /\ \A i, j \in DOMAIN q : i <= j => Len(q[i]) <= Len(q[j]) /\ Len(q[j]) <= Len(q[1]) + 1
    /\ \A i \in DOMAIN q : End(q[i]) \in ball[Len(q[i]) - 1]
    /\ q # <<>> =>
          /\ ball[Len(q[1]) - 1] \subseteq visited /\ visited \subseteq ball[Len(q[1])]
          /\ \A n \in ball[Len(q[1]) - 1] : near[n] \subseteq visited \/ Waits(n, q, Len(q[1]) - 1)
          /\ \A n \in visited \ ball[Len(q[1]) - 1] : Waits(n, q, Len(q[1]))

\* neighbors searches as far as the depth asked for.
NeighborsInv(near, ball) ==
    /\ \/ /\ walk.visited = ball[walk.depth]
          /\ \A i \in DOMAIN walk.queue : Len(walk.queue[i]) > walk.depth
       \/ /\ walk.queue # <<>> /\ Len(walk.queue[1]) <= walk.depth
          /\ Searched(walk.queue, walk.visited, near, ball)
    /\ walk.from \subseteq walk.visited
    /\ walk.affected = {n \in walk.visited : Walk!Exists(n)} \ walk.from

\* path searches until it meets the target.
PathInv(near, ball) ==
    walk.target \notin walk.from =>
       IF walk.done
       THEN /\ walk.found # <<>> /\ Walk!IsWay(walk.found) /\ {walk.found[1]} = walk.from
            /\ End(walk.found) = walk.target
            /\ walk.target \notin ball[Len(walk.found) - 2] /\ Len(walk.found) >= 2
       ELSE /\ walk.found = <<>> /\ walk.target \notin walk.visited
            /\ Searched(walk.queue, walk.visited, near, ball)
            /\ \A i \in DOMAIN walk.queue : /\ Walk!IsWay(walk.queue[i])
                                            /\ {walk.queue[i][1]} = walk.from

\* impact: what is related to an affected node is affected, or waits to become so.
Pending(q) == {End(q[i]) : i \in DOMAIN q}
ImpactInv(near, ball) ==
    /\ walk.todo \subseteq walk.from
    /\ walk.done => walk.queue = <<>> /\ walk.todo = {}
    /\ walk.visited \subseteq walk.affected \union walk.from
    /\ \A i \in DOMAIN walk.queue : walk.queue[i][1] \in walk.from
    /\ walk.affected \union Pending(walk.queue) \subseteq ball[Walk!Everywhere]
    /\ \A n \in walk.visited : near[n] \subseteq walk.affected \union walk.from \union Pending(walk.queue)
    /\ \A n \in walk.affected \union (walk.from \ walk.todo) :
          n \in Pending(walk.queue) \/ near[n] \subseteq walk.affected \union walk.from \union Pending(walk.queue)

Near == IF walk.call = "out" THEN Walk!Out ELSE Walk!In

WalkInv ==
    /\ WalkTypeOK
    /\ walk.call \in {"in", "out"} => NeighborsInv(Near, Walk!Within(walk.from, Near))
    /\ walk.call = "path" => PathInv(Walk!KeptOut, Walk!Within(walk.from, Walk!KeptOut))
    /\ walk.call = "impact" => ImpactInv(Walk!KeptIn, Walk!Within(walk.from, Walk!KeptIn))
\* One step of a search by levels: the head's relations are queued where they are new.
Balls(near, ball) == \A k \in Nat : ball[k] \in SUBSET Node /\ ball[k + 1] = Grown(near, ball[k])

LEMMA SearchStep ==
    ASSUME NEW near \in [Node -> SUBSET Node], NEW ball, Balls(near, ball),
           NEW q \in Seq(Way), q # <<>>, NEW visited \in SUBSET Node, NEW new \in SUBSET Node,
           NEW next, Enqueued(q, new, next), new = near[End(q[1])] \ visited,
           Searched(q, visited, near, ball)
    PROVE  /\ Searched(next, visited \union new, near, ball)
           /\ visited \union new \subseteq ball[Len(q[1])]
           /\ next # <<>> => Len(next[1]) \in {Len(q[1]), Len(q[1]) + 1}
<1> PICK d \in Nat : d + 1 = Len(q[1])
  <2>1. q[1] \in Way /\ Len(q[1]) \in Nat /\ Len(q[1]) # 0
    BY WayMeasured
  <2>2. Len(q[1]) - 1 \in Nat /\ (Len(q[1]) - 1) + 1 = Len(q[1])
    BY <2>1
  <2> QED
    BY <2>2
<1> PICK both : both = visited \union new
  OBVIOUS
<1>1. /\ q[1] \in Way /\ Len(q) \in Nat \ {0} /\ Len(q[1]) - 1 = d
      /\ \A i \in DOMAIN q : q[i] \in Way /\ Len(q[i]) \in Nat
      /\ DOMAIN q = 1..Len(q) /\ 1 \in DOMAIN q
      /\ next \in Seq(Way) /\ \A i \in DOMAIN next : next[i] \in Way /\ Len(next[i]) \in Nat
      /\ Len(next) \in Nat /\ DOMAIN next = 1..Len(next)
  <2>1. next \in Seq(Way)
    BY DEF Enqueued
  <2>2. q[1] \in Way /\ Len(q) \in Nat \ {0} /\ DOMAIN q = 1..Len(q) /\ 1 \in DOMAIN q
    OBVIOUS
  <2>3. Len(q[1]) - 1 = d
    BY <2>2, WayMeasured
  <2>4. \A i \in DOMAIN q : q[i] \in Way /\ Len(q[i]) \in Nat
    BY WayMeasured
  <2>5. \A i \in DOMAIN next : next[i] \in Way /\ Len(next[i]) \in Nat
    BY <2>1, WayMeasured
  <2> QED
    BY <2>1, <2>2, <2>3, <2>4, <2>5
<1>2. /\ \A i, j \in DOMAIN q : i <= j => Len(q[i]) <= Len(q[j]) /\ Len(q[j]) <= d + 2
      /\ \A i \in DOMAIN q : End(q[i]) \in ball[Len(q[i]) - 1]
      /\ ball[0] \subseteq visited /\ ball[d] \subseteq visited /\ visited \subseteq ball[d + 1]
      /\ \A n \in ball[d] : near[n] \subseteq visited \/ Waits(n, q, d)
      /\ \A n \in visited \ ball[d] : Waits(n, q, d + 1)
  <2>1. q # <<>> /\ Len(q[1]) = d + 1 /\ (d + 1) + 1 = d + 2
    OBVIOUS
  <2>2. \A i, j \in DOMAIN q : i <= j => Len(q[i]) <= Len(q[j]) /\ Len(q[j]) <= (d + 1) + 1
    BY <2>1 DEF Searched
  <2> HIDE DEF Waits, End
  <2> QED
    BY <1>1, <2>1, <2>2 DEF Searched
<1>0. /\ ball[d] \in SUBSET Node /\ ball[d + 1] = Grown(near, ball[d])
      /\ ball[d + 1] \in SUBSET Node /\ ball[(d + 1) + 1] = Grown(near, ball[d + 1])
  <2>1. d + 1 \in Nat
    OBVIOUS
  <2> QED
    BY <2>1 DEF Balls
<1>3. End(q[1]) \in ball[d] /\ End(q[1]) \in Node
  BY <1>1, <1>2, WayMeasured
<1>4. new \subseteq ball[d + 1] /\ both \subseteq ball[d + 1]
  BY <1>0, <1>2, <1>3 DEF Grown
<1>5. ASSUME NEW i \in DOMAIN next
      PROVE  \/ i \in 1..(Len(q) - 1) /\ i + 1 \in DOMAIN q /\ next[i] = q[i + 1]
             \/ i >= Len(q) /\ Len(next[i]) = d + 2 /\ End(next[i]) \in new
  <2>1. CASE i < Len(q)
    <3>1. i \in 1..(Len(q) - 1) /\ i + 1 \in DOMAIN q
      BY <1>1, <2>1
    <3> QED
      BY <3>1 DEF Enqueued
  <2>2. CASE i >= Len(q)
    <3>1. PICK n \in new : next[i] = Append(q[1], n)
      BY <2>2 DEF Enqueued
    <3>2. Len(Append(q[1], n)) = Len(q[1]) + 1 /\ End(Append(q[1], n)) = n
      BY <1>1, WayGoesOn
    <3>3. Len(next[i]) = d + 2 /\ End(next[i]) \in new
      BY <3>1, <3>2
    <3> QED
      BY <2>2, <3>3
  <2> QED
    BY <1>1, <2>1, <2>2
<1>6. ASSUME NEW i \in DOMAIN next
      PROVE  d + 1 <= Len(next[i]) /\ Len(next[i]) <= d + 2 /\ End(next[i]) \in ball[Len(next[i]) - 1]
  <2>1. CASE i + 1 \in DOMAIN q /\ next[i] = q[i + 1]
    <3>1. 1 \in DOMAIN q /\ 1 <= i + 1
      BY <1>1
    <3>2. Len(q[1]) <= Len(q[i + 1]) /\ Len(q[i + 1]) <= d + 2 /\ End(q[i + 1]) \in ball[Len(q[i + 1]) - 1]
      BY <1>2, <2>1, <3>1
    <3> QED
      BY <2>1, <3>2
  <2>2. CASE Len(next[i]) = d + 2 /\ End(next[i]) \in new
    BY <1>4, <2>2
  <2> QED
    BY <1>5, <2>1, <2>2
<1>7. ASSUME NEW i \in DOMAIN next, NEW j \in DOMAIN next, i <= j
      PROVE  Len(next[i]) <= Len(next[j]) /\ Len(next[j]) <= Len(next[1]) + 1
  <2>1. Len(next[j]) <= Len(next[1]) + 1
    <3>1. 1 \in DOMAIN next
      BY <1>1
    <3>2. Len(next[j]) \in Nat /\ Len(next[1]) \in Nat /\ Len(next[j]) <= d + 2 /\ d + 1 <= Len(next[1])
      BY <1>1, <1>6, <3>1
    <3> HIDE DEF Searched, Enqueued
    <3>3. \A x, y \in Nat : x <= d + 2 /\ d + 1 <= y => x <= y + 1
      OBVIOUS
    <3> QED
      BY <3>2, <3>3
  <2>2. CASE Len(next[j]) = d + 2
    BY <1>1, <1>6, <2>1, <2>2
  <2>3. CASE j \in 1..(Len(q) - 1) /\ j + 1 \in DOMAIN q /\ next[j] = q[j + 1]
    <3>1. i \in Nat /\ j \in Nat /\ Len(q) \in Nat /\ j <= Len(q) - 1
      BY <1>1, <2>3
    <3>2. ~(i >= Len(q)) /\ i + 1 <= j + 1
      BY <1>7, <3>1
    <3>3. i \in 1..(Len(q) - 1) /\ next[i] = q[i + 1] /\ i + 1 \in DOMAIN q /\ i + 1 <= j + 1
      BY <1>5, <3>2
    <3> QED
      BY <1>2, <2>1, <2>3, <3>3
  <2> QED
    BY <1>5, <2>2, <2>3
<1>8. ASSUME NEW n, NEW k \in {d, d + 1}, Waits(n, q, k), n # End(q[1]) \/ k # d
      PROVE  Waits(n, next, k)
  <2>1. PICK i \in DOMAIN q : End(q[i]) = n /\ Len(q[i]) = k + 1
    BY <1>8 DEF Waits
  <2>2. i # 1
    BY <1>1, <1>8, <2>1
  <2>3. i \in 1..Len(q) /\ Len(next) >= Len(q) - 1 /\ \A k1 \in 1..(Len(q) - 1) : next[k1] = q[k1 + 1]
    BY <1>1 DEF Enqueued
  <2>4. i - 1 \in 1..(Len(q) - 1) /\ i - 1 \in 1..Len(next) /\ (i - 1) + 1 = i
    <3>1. \A a, b \in Nat : i \in 1..a /\ i # 1 /\ b >= a - 1 =>
             i - 1 \in 1..(a - 1) /\ i - 1 \in 1..b /\ (i - 1) + 1 = i
      OBVIOUS
    <3>2. Len(q) \in Nat /\ Len(next) \in Nat /\ i \in 1..Len(q) /\ i # 1 /\ Len(next) >= Len(q) - 1
      BY <1>1, <2>2, <2>3
    <3> QED
      BY <3>1, <3>2
  <2>5. i - 1 \in DOMAIN next /\ next[i - 1] = q[i]
    BY <1>1, <2>3, <2>4
  <2> QED
    BY <2>1, <2>5 DEF Waits
<1>9. ASSUME NEW n \in new
      PROVE  Waits(n, next, d + 1)
  <2>1. PICK i \in DOMAIN next : next[i] = Append(q[1], n)
    BY DEF Enqueued
  <2>2. Len(Append(q[1], n)) = Len(q[1]) + 1 /\ End(Append(q[1], n)) = n
    BY <1>1, WayGoesOn
  <2>3. End(next[i]) = n /\ Len(next[i]) = (d + 1) + 1
    BY <2>1, <2>2
  <2> QED
    BY <2>1, <2>3 DEF Waits
<1>10. \A n \in ball[d] : near[n] \subseteq both \/ Waits(n, next, d)
  <2> TAKE n \in ball[d]
  <2>1. CASE n = End(q[1])
    BY <2>1
  <2>2. CASE n # End(q[1])
    BY <1>2, <1>8, <2>2
  <2> QED
    BY <2>1, <2>2
<1>11. \A n \in both \ ball[d] : Waits(n, next, d + 1)
  BY <1>2, <1>8, <1>9
<1>12. ASSUME next = <<>> \/ Len(next[1]) # d + 1
       PROVE  \A n \in ball[d] : near[n] \subseteq both
  <2> SUFFICES ASSUME NEW n \in ball[d], Waits(n, next, d)
               PROVE  FALSE
    BY <1>10
  <2>1. PICK i \in DOMAIN next : Len(next[i]) = d + 1
    BY DEF Waits
  <2>2. 1 \in DOMAIN next /\ 1 <= i
    BY <1>1, <2>1
  <2>3. Len(next[1]) <= Len(next[i]) /\ d + 1 <= Len(next[1]) /\ Len(next[1]) \in Nat
    BY <1>1, <1>6, <1>7, <2>2
  <2> QED
    BY <1>12, <2>1, <2>2, <2>3
<1>13. ASSUME next = <<>>
       PROVE  \A n \in both : near[n] \subseteq both
  <2>1. both \subseteq ball[d]
    BY <1>11, <1>13 DEF Waits
  <2> QED
    BY <1>12, <1>13, <2>1
<1>14. ASSUME next # <<>>
       PROVE  /\ Len(next[1]) \in {d + 1, d + 2}
              /\ ball[Len(next[1]) - 1] \subseteq both /\ both \subseteq ball[Len(next[1])]
              /\ \A n \in ball[Len(next[1]) - 1] : near[n] \subseteq both \/ Waits(n, next, Len(next[1]) - 1)
              /\ \A n \in both \ ball[Len(next[1]) - 1] : Waits(n, next, Len(next[1]))
  <2>1. 1 \in DOMAIN next
    BY <1>1, <1>14
  <2>2. Len(next[1]) \in {d + 1, d + 2}
    BY <1>1, <1>6, <2>1
  <2>3. CASE Len(next[1]) = d + 1
    <3>1. Len(next[1]) - 1 = d
      BY <2>3
    <3> QED
      BY <1>2, <1>4, <1>10, <1>11, <2>2, <2>3, <3>1
  <2>4. CASE Len(next[1]) = d + 2
    <3>1. Len(next[1]) - 1 = d + 1 /\ Len(next[1]) = (d + 1) + 1 /\ Len(next[1]) # d + 1
      BY <2>4
    <3>2. \A n \in ball[d] : near[n] \subseteq both
      BY <1>12, <3>1
    <3>3. ball[d + 1] \subseteq both
      BY <1>0, <1>2, <3>2 DEF Grown
    <3>4. both \subseteq ball[(d + 1) + 1]
      BY <1>0, <1>4 DEF Grown
    <3>5. \A n \in ball[d + 1] : near[n] \subseteq both \/ Waits(n, next, d + 1)
      BY <1>11, <3>2, <3>3
    <3> QED
      BY <1>4, <2>2, <3>1, <3>3, <3>4, <3>5
  <2> QED
    BY <2>2, <2>3, <2>4
<1>15. Searched(next, both, near, ball)
  BY <1>2, <1>6, <1>7, <1>13, <1>14 DEF Searched
<1> QED
  BY <1>4, <1>14, <1>15

LEMMA BallsOf ==
    ASSUME NEW near \in [Node -> SUBSET Node], NEW nodes \in SUBSET Node
    PROVE  Walk!Within(nodes, near)[0] = nodes /\ Balls(near, Walk!Within(nodes, near))
<1> PICK ball : ball = Walk!Within(nodes, near)
  OBVIOUS
<1>1. ball[0] = nodes /\ \A k \in Nat : ball[k + 1] = Grown(near, ball[k])
  BY BallsGrow
<1>2. \A k \in Nat : ball[k] \in SUBSET Node
  BY BallsAreNodes
<1> QED
  BY <1>1, <1>2 DEF Balls

\* A search begins with one way, which has led nowhere yet.
Begins(q, n) == q = <<<<n>>>>

LEMMA OnlyWay ==
    ASSUME NEW n \in Node, NEW q, Begins(q, n)
    PROVE  /\ q \in Seq(Way) /\ Len(q) = 1 /\ DOMAIN q = {1} /\ q[1] = <<n>> /\ q # <<>>
           /\ Len(q[1]) = 1 /\ q[1][1] = n /\ End(q[1]) = n
<1>1. <<n>> \in Way /\ Len(<<n>>) = 1 /\ End(<<n>>) = n /\ <<n>>[1] = n
  BY DEF Way, End
<1> QED
  BY <1>1 DEF Begins

LEMMA SearchBegins ==
    ASSUME NEW near \in [Node -> SUBSET Node], NEW n \in Node, NEW q, Begins(q, n)
    PROVE  Searched(q, {n}, near, Walk!Within({n}, near))
<1> PICK ball : ball = Walk!Within({n}, near)
  OBVIOUS
<1>1. ball[0] = {n} /\ ball[1] = Grown(near, ball[0])
  <2>1. ball[0] = {n} /\ Balls(near, ball)
    BY BallsOf
  <2>2. ball[0 + 1] = Grown(near, ball[0])
    BY <2>1 DEF Balls
  <2>3. 0 + 1 = 1
    OBVIOUS
  <2> QED
    BY <2>1, <2>2, <2>3
<1>2. <<n>> \in Way /\ Len(<<n>>) = 1 /\ End(<<n>>) = n
  BY DEF Way, End
<1>3. q \in Seq(Way) /\ Len(q) = 1 /\ DOMAIN q = {1} /\ q[1] = <<n>> /\ q # <<>>
  BY OnlyWay
<1>4. Waits(n, q, 0)
  BY <1>2, <1>3 DEF Waits
<1>5. Searched(q, {n}, near, ball)
  <2>1. /\ \A i \in DOMAIN q : i = 1 /\ Len(q[i]) = 1 /\ End(q[i]) = n
        /\ Len(q[1]) = 1 /\ Len(q[1]) - 1 = 0
    BY <1>2, <1>3
  <2>2. {n} \subseteq ball[1]
    BY <1>1 DEF Grown
  <2>3. \A m \in ball[0] : Waits(m, q, 0)
    BY <1>1, <1>4
  <2>4. \A i, j \in DOMAIN q : i <= j => Len(q[i]) <= Len(q[j]) /\ Len(q[j]) <= Len(q[1]) + 1
    BY <2>1
  <2>5. \A i \in DOMAIN q : End(q[i]) \in ball[Len(q[i]) - 1]
    BY <1>1, <2>1
  <2>6. /\ ball[Len(q[1]) - 1] \subseteq {n} /\ {n} \subseteq ball[Len(q[1])]
        /\ \A m \in ball[Len(q[1]) - 1] : near[m] \subseteq {n} \/ Waits(m, q, Len(q[1]) - 1)
        /\ \A m \in {n} \ ball[Len(q[1]) - 1] : Waits(m, q, Len(q[1]))
    BY <1>1, <2>1, <2>2, <2>3
  <2> QED
    BY <1>1, <1>3, <2>4, <2>5, <2>6 DEF Searched
<1> QED
  BY <1>3, <1>5

\* What the walks relate are nodes, the same ones as long as a walk lasts.
LEMMA RelationsTyped ==
    ASSUME WalkTypeOK, walk \in WalkRecord
    PROVE  /\ Near \in [Node -> SUBSET Node]
           /\ Walk!KeptIn \in [Node -> SUBSET Node] /\ Walk!KeptOut \in [Node -> SUBSET Node]
BY DEF Near, Walk!In, Walk!Out, Walk!KeptIn, Walk!KeptOut, Walk!Kept, Walk!Incoming, Walk!Outgoing

LEMMA RelationsKept ==
    ASSUME UNCHANGED graph, walk'.call = walk.call, walk'.from = walk.from, walk'.skip = walk.skip
    PROVE  /\ Near' = Near /\ Walk!Within(walk.from, Near)' = Walk!Within(walk.from, Near)
           /\ Walk!KeptIn' = Walk!KeptIn
           /\ Walk!Within(walk.from, Walk!KeptIn)' = Walk!Within(walk.from, Walk!KeptIn)
           /\ Walk!KeptOut' = Walk!KeptOut
           /\ Walk!Within(walk.from, Walk!KeptOut)' = Walk!Within(walk.from, Walk!KeptOut)
<1>1. Near' = Near
  BY DEF Near, Walk!In, Walk!Out, Walk!Incoming, Walk!Outgoing
<1>2. \A nodes : Walk!Kept(nodes)' = Walk!Kept(nodes)
  BY DEF Walk!Kept, Walk!IsTest, Walk!Exists
<1>3. Walk!KeptIn' = Walk!KeptIn /\ Walk!KeptOut' = Walk!KeptOut
  BY <1>2 DEF Walk!KeptIn, Walk!KeptOut, Walk!Kept, Walk!IsTest, Walk!Exists, Walk!Incoming, Walk!Outgoing
<1> QED
  BY <1>1, <1>3 DEF Walk!Within

LEMMA WalksRecorded ==
    ASSUME WalkInv, walk.call # "none"
    PROVE  WalkTypeOK /\ walk \in WalkRecord
BY DEF WalkInv, WalkTypeOK

LEMMA WalksStart ==
    ASSUME Walk!WalkInit
    PROVE  WalkInv
<1>1. walk = [call |-> "none"] /\ walk.call = "none"
  BY DEF Walk!WalkInit
<1>2. WalkTypeOK
  BY <1>1, WalkAssumption DEF Walk!WalkInit, WalkTypeOK
<1> QED
  BY <1>1, <1>2 DEF WalkInv

\* What a walk that has ended has found is what it was asked for.
LEMMA WalksSafe ==
    ASSUME WalkInv
    PROVE  Walk!WalksRight
<1>1. walk.call # "none" => walk \in WalkRecord
  BY DEF WalkInv, WalkTypeOK
<1>2. Walk!NeighborsRight
  <2> SUFFICES ASSUME walk.call \in {"in", "out"}, walk.queue = <<>>
               PROVE  walk.affected = {n \in Walk!Within(walk.from, Near)[walk.depth] : Walk!Exists(n)} \ walk.from
    BY DEF Walk!NeighborsRight, Near
  <2> QED
    BY DEF WalkInv, NeighborsInv
<1>3. Walk!PathRight
  <2> SUFFICES ASSUME walk.call = "path", walk.done \/ walk.queue = <<>>, walk.target \notin walk.from
               PROVE  IF walk.found = <<>>
                      THEN walk.target \notin Walk!Within(walk.from, Walk!KeptOut)[Walk!Everywhere]
                      ELSE /\ Walk!IsWay(walk.found) /\ {Head(walk.found)} = walk.from
                           /\ Walk!Last(walk.found) = walk.target
                           /\ walk.target \notin Walk!Within(walk.from, Walk!KeptOut)[Len(walk.found) - 2]
    BY DEF Walk!PathRight
  <2> PICK ball : ball = Walk!Within(walk.from, Walk!KeptOut)
    OBVIOUS
  <2>1. walk \in WalkRecord /\ PathInv(Walk!KeptOut, ball)
    BY <1>1 DEF WalkInv
  <2>2. CASE walk.done
    BY <2>1, <2>2 DEF PathInv, Walk!Last, End, WalkRecord
  <2>3. CASE ~walk.done
    <3>1. walk.queue = <<>> /\ walk.found = <<>> /\ walk.target \notin walk.visited
      BY <2>1, <2>3 DEF PathInv
    <3>2. ball[0] \subseteq walk.visited /\ \A n \in walk.visited : Walk!KeptOut[n] \subseteq walk.visited
      BY <2>1, <2>3, <3>1 DEF PathInv, Searched
    <3>3. Walk!KeptOut \in [Node -> SUBSET Node] /\ walk.from \in SUBSET Node
      BY <2>1, RelationsTyped DEF WalkInv, WalkRecord
    <3>4. ball[0] = walk.from /\ Walk!Everywhere \in Nat
      BY <3>3, BallsOf, EverywhereIsClosed
    <3>5. ball[Walk!Everywhere] \subseteq walk.visited
      BY <3>2, <3>3, <3>4, ClosedHoldsBalls
    <3> QED
      BY <3>1, <3>5
  <2> QED
    BY <2>2, <2>3
<1>4. Walk!ImpactRight
  <2> SUFFICES ASSUME walk.call = "impact", walk.done
               PROVE  (Walk!Direct \union Walk!Transitive) \ walk.from =
                      {n \in Walk!Within(walk.from, Walk!KeptIn)[Walk!Everywhere] : Walk!Code(n)} \ walk.from
    BY DEF Walk!ImpactRight, Walk!Transitive
  <2> PICK all : all = Walk!Within(walk.from, Walk!KeptIn)[Walk!Everywhere]
    OBVIOUS
  <2>1. walk \in WalkRecord /\ ImpactInv(Walk!KeptIn, Walk!Within(walk.from, Walk!KeptIn))
    BY <1>1 DEF WalkInv
  <2>2. Walk!KeptIn \in [Node -> SUBSET Node] /\ walk.from \in SUBSET Node
    BY <2>1, RelationsTyped DEF WalkInv, WalkRecord
  <2>3. /\ walk.queue = <<>> /\ walk.todo = {} /\ walk.affected \subseteq all
        /\ \A n \in walk.affected \union walk.from :
              Walk!KeptIn[n] \subseteq walk.affected \union walk.from
    BY <2>1 DEF ImpactInv, Pending
  <2>4. Walk!Everywhere \in Nat /\ walk.from \subseteq all /\ \A n \in all : Walk!KeptIn[n] \subseteq all
    BY <2>2, EverywhereIsClosed
  <2>5. all \subseteq walk.affected \union walk.from
    BY <2>3, <2>4, ClosedHoldsBalls
  <2>6. UNION {Walk!Kept(Walk!Incoming(s)) : s \in walk.from} \subseteq all
    BY <2>2, <2>4 DEF Walk!KeptIn
  <2> QED
    BY <2>3, <2>5, <2>6 DEF Walk!Direct, Walk!Transitive
<1> QED
  BY <1>2, <1>3, <1>4 DEF Walk!WalksRight

\* The searches that a call begins.
LEMMA WithinNext ==
    ASSUME NEW nodes, NEW near, walk'.from = nodes, Near' = near
    PROVE  Walk!Within(walk.from, Near)' = Walk!Within(nodes, near)
BY DEF Walk!Within

LEMMA WithinKeptNext ==
    ASSUME NEW nodes, NEW near, walk'.from = nodes, Walk!KeptOut' = near
    PROVE  Walk!Within(walk.from, Walk!KeptOut)' = Walk!Within(nodes, near)
BY DEF Walk!Within

LEMMA NeighborsCalled ==
    ASSUME WalkTypeOK, UNCHANGED graph, NEW side \in {"in", "out"}, NEW n \in Node, NEW d \in Nat,
           NEW q, Begins(q, n),
           walk' = [call |-> side, from |-> {n}, todo |-> {}, target |-> n, depth |-> d, skip |-> FALSE,
                    queue |-> q, visited |-> {n}, affected |-> {}, found |-> <<>>, done |-> FALSE]
    PROVE  WalkInv'
<1>1. /\ walk'.call = side /\ walk'.from = {n} /\ walk'.depth = d
      /\ walk'.queue = q /\ walk'.visited = {n} /\ walk'.affected = {}
  OBVIOUS
<1>2. q \in Seq(Way) /\ q # <<>> /\ DOMAIN q = {1} /\ Len(q[1]) = 1
  BY OnlyWay
<1>3. walk' \in WalkRecord
  BY <1>2 DEF WalkRecord
<1>4. WalkTypeOK'
  BY <1>3 DEF WalkTypeOK
<1>5. Near' \in [Node -> SUBSET Node]
  BY DEF Near, Walk!In, Walk!Out, Walk!Incoming, Walk!Outgoing
<1> PICK near : near = Near'
  OBVIOUS
<1> PICK ball : ball = Walk!Within({n}, near)
  OBVIOUS
<1>6. Walk!Within(walk.from, Near)' = ball
  <2>1. Walk!Within(walk.from, Near)' = Walk!Within({n}, near)
    BY <1>1, WithinNext
  <2> QED
    BY <2>1
<1>7. ball[0] = {n} /\ Searched(q, {n}, near, ball)
  BY <1>5, SearchBegins, BallsOf
<1>8. NeighborsInv(Near, Walk!Within(walk.from, Near))'
  <2>1. \/ {n} = ball[d] /\ \A i \in DOMAIN q : Len(q[i]) > d
        \/ q # <<>> /\ Len(q[1]) <= d /\ Searched(q, {n}, near, ball)
    <3>1. CASE d = 0
      <4>1. \A i \in DOMAIN q : Len(q[i]) > d
        BY <1>2, <3>1
      <4>2. {n} = ball[d]
        BY <1>7, <3>1
      <4> QED
        BY <4>1, <4>2, Zenon
    <3>2. CASE d # 0
      <4>1. Len(q[1]) <= d
        BY <1>2, <3>2
      <4> QED
        BY <1>2, <1>7, <4>1
    <3> QED
      BY <3>1, <3>2
  <2> QED
    BY <1>1, <1>6, <2>1 DEF NeighborsInv
<1> QED
  BY <1>1, <1>4, <1>8 DEF WalkInv

LEMMA PathCalled ==
    ASSUME WalkTypeOK, UNCHANGED graph, NEW n \in Node, NEW t \in Node, NEW skip \in BOOLEAN,
           NEW done \in BOOLEAN, done <=> n = t, NEW q, Begins(q, n),
           walk' = [call |-> "path", from |-> {n}, todo |-> {}, target |-> t, depth |-> 0, skip |-> skip,
                    queue |-> q, visited |-> {n}, affected |-> {}, found |-> <<>>, done |-> done]
    PROVE  WalkInv'
<1>1. /\ walk'.call = "path" /\ walk'.from = {n} /\ walk'.target = t
      /\ walk'.queue = q /\ walk'.visited = {n} /\ walk'.found = <<>> /\ walk'.done = done
  OBVIOUS
<1>2. q \in Seq(Way) /\ q # <<>> /\ DOMAIN q = {1} /\ Len(q[1]) = 1 /\ q[1][1] = n
  BY OnlyWay
<1>3. walk' \in WalkRecord
  BY <1>2 DEF WalkRecord
<1>4. WalkTypeOK'
  BY <1>3 DEF WalkTypeOK
<1>5. Walk!KeptOut' \in [Node -> SUBSET Node]
  BY DEF Walk!KeptOut, Walk!Kept, Walk!Outgoing
<1> PICK near : near = Walk!KeptOut'
  OBVIOUS
<1> PICK ball : ball = Walk!Within({n}, near)
  OBVIOUS
<1>6. Walk!Within(walk.from, Walk!KeptOut)' = ball
  <2>1. Walk!Within(walk.from, Walk!KeptOut)' = Walk!Within({n}, near)
    BY <1>1, WithinKeptNext
  <2> QED
    BY <2>1
<1>7. Searched(q, {n}, near, ball)
  BY <1>5, SearchBegins
<1>8. PathInv(Walk!KeptOut, Walk!Within(walk.from, Walk!KeptOut))'
  <2>1. CASE t = n
    BY <1>1, <2>1 DEF PathInv
  <2>2. CASE t # n
    <3>1. \A i \in DOMAIN q : {q[i][1]} = {n} /\ \A k \in 1..(Len(q[i]) - 1) : q[i][k + 1] \in near[q[i][k]]
      BY <1>2
    <3>2. ~walk'.done /\ t \notin {n}
      BY <1>1, <2>2
    <3> QED
      BY <1>1, <1>6, <1>7, <3>1, <3>2 DEF PathInv, Walk!IsWay
  <2> QED
    BY <2>1, <2>2
<1> QED
  BY <1>1, <1>4, <1>8 DEF WalkInv

LEMMA CallStep ==
    ASSUME WalkInv, Walk!Call
    PROVE  WalkInv'
<1>1. UNCHANGED graph /\ walk.call = "none" /\ WalkTypeOK
  BY DEF Walk!Call, WalkInv
<1>2. CASE Walk!CallNeighbors
  <2>1. PICK s \in Starts, d \in 0..MaxDepth, side \in {"in", "out"} : \E n \in s :
           walk' = [Walk!Loop(side, {}, {n}, n, d, FALSE) EXCEPT !.queue = <<<<n>>>>, !.visited = {n}]
    BY <1>2 DEF Walk!CallNeighbors
  <2>2. PICK n \in s :
           walk' = [Walk!Loop(side, {}, {n}, n, d, FALSE) EXCEPT !.queue = <<<<n>>>>, !.visited = {n}]
    BY <2>1
  <2>3. n \in Node /\ d \in Nat
    BY WalkAssumption
  <2> PICK q : q = <<<<n>>>>
    OBVIOUS
  <2>4. Begins(q, n)
    BY DEF Begins
  <2>5. walk' = [call |-> side, from |-> {n}, todo |-> {}, target |-> n, depth |-> d, skip |-> FALSE,
                 queue |-> q, visited |-> {n}, affected |-> {}, found |-> <<>>, done |-> FALSE]
    BY <2>2 DEF Walk!Loop
  <2> QED
    BY <1>1, <2>3, <2>4, <2>5, NeighborsCalled
<1>3. CASE Walk!CallImpact
  <2>1. PICK s \in Starts, skip \in BOOLEAN :
           walk' = [call |-> "impact", from |-> s, todo |-> s, target |-> "none", depth |-> 0, skip |-> skip,
                    queue |-> <<>>, visited |-> {}, affected |-> {}, found |-> <<>>, done |-> FALSE]
    BY <1>3 DEF Walk!CallImpact, Walk!Loop
  <2>2. s \in SUBSET Node
    BY WalkAssumption
  <2>3. WalkTypeOK'
    BY <1>1, <2>1, <2>2 DEF WalkInv, WalkTypeOK, WalkRecord
  <2> QED
    BY <2>1, <2>3 DEF WalkInv, ImpactInv, Pending
<1>4. CASE Walk!CallPath
  <2>1. PICK s \in Starts, t \in Node, skip \in BOOLEAN : \E n \in s :
           walk' = [Walk!Loop("path", {}, {n}, t, 0, skip) EXCEPT !.queue = <<<<n>>>>, !.visited = {n},
                                                                 !.done = (n = t)]
    BY <1>4 DEF Walk!CallPath
  <2>2. PICK n \in s :
         walk' = [Walk!Loop("path", {}, {n}, t, 0, skip) EXCEPT !.queue = <<<<n>>>>, !.visited = {n},
                                                               !.done = (n = t)]
    BY <2>1
  <2>3. n \in Node
    BY WalkAssumption
  <2> PICK q : q = <<<<n>>>>
    OBVIOUS
  <2>4. Begins(q, n)
    BY DEF Begins
  <2> PICK done \in BOOLEAN : done = (n = t)
    OBVIOUS
  <2>5. walk' = [call |-> "path", from |-> {n}, todo |-> {}, target |-> t, depth |-> 0, skip |-> skip,
                 queue |-> q, visited |-> {n}, affected |-> {}, found |-> <<>>, done |-> done]
    BY <2>2 DEF Walk!Loop
  <2>6. done <=> n = t
    OBVIOUS
  <2> QED
    BY <1>1, <2>3, <2>4, <2>5, <2>6, PathCalled
<1> QED
  BY <1>2, <1>3, <1>4 DEF Walk!Call

LEMMA HeadOfQueue ==
    ASSUME walk \in WalkRecord, walk.queue # <<>>
    PROVE  /\ walk.queue \in Seq(Way) /\ walk.queue[1] \in Way /\ 1 \in DOMAIN walk.queue
           /\ Walk!Here = End(walk.queue[1]) /\ Walk!Here \in Node
           /\ Walk!Depth = Len(walk.queue[1]) - 1 /\ Walk!Depth \in Nat
           /\ Head(walk.queue) = walk.queue[1] /\ walk.queue[1][1] \in Node
<1>1. /\ walk.queue \in Seq(Way) /\ walk.queue[1] \in Way /\ 1 \in DOMAIN walk.queue
      /\ Head(walk.queue) = walk.queue[1]
  BY DEF WalkRecord
<1>2. Len(walk.queue[1]) - 1 \in Nat /\ End(walk.queue[1]) \in Node /\ walk.queue[1][1] \in Node
  BY <1>1 DEF Way, End
<1> QED
  BY <1>1, <1>2 DEF Walk!Here, Walk!Depth, Walk!Last, End

LEMMA StepNeighborsStep ==
    ASSUME WalkInv, Walk!StepNeighbors
    PROVE  WalkInv'
<1>1. walk.call \in {"in", "out"} /\ walk.queue # <<>> /\ UNCHANGED graph /\ walk \in WalkRecord
  BY DEF Walk!StepNeighbors, WalkInv, WalkTypeOK
<1> PICK near : near = Near
  OBVIOUS
<1> PICK ball : ball = Walk!Within(walk.from, near)
  OBVIOUS
<1>2. near \in [Node -> SUBSET Node] /\ NeighborsInv(near, ball) /\ walk.from \in SUBSET Node
  BY <1>1, RelationsTyped DEF WalkInv, WalkRecord
<1>3. ball[0] = walk.from /\ Balls(near, ball)
  BY <1>2, BallsOf
<1>4. near[Walk!Here] = IF walk.call = "out" THEN Walk!Outgoing(Walk!Here) ELSE Walk!Incoming(Walk!Here)
  BY <1>1, HeadOfQueue DEF Near, Walk!In, Walk!Out
<1> PICK new : new = IF Walk!Depth >= walk.depth THEN {} ELSE near[Walk!Here] \ walk.visited
  OBVIOUS
<1>5. PICK queue \in Walk!Queued(new) :
            walk' = [walk EXCEPT !.queue = queue, !.visited = walk.visited \union new,
                                 !.affected = walk.affected \union {n \in new : Walk!Exists(n)}]
  BY <1>4 DEF Walk!StepNeighbors, Walk!TooDeep, Walk!NotSeen
<1>6. new \in SUBSET Node
  BY <1>1, <1>2, <1>5, HeadOfQueue
<1>7. Enqueued(walk.queue, new, queue) /\ queue \in Seq(Way)
  BY <1>1, <1>5, <1>6, HeadOfQueue, QueuedEnqueues DEF Enqueued
<1>8. /\ walk' \in WalkRecord /\ walk'.call = walk.call /\ walk'.from = walk.from /\ walk'.skip = walk.skip
      /\ walk'.depth = walk.depth /\ walk'.queue = queue /\ walk'.visited = walk.visited \union new
      /\ walk'.affected = walk.affected \union {n \in new : Walk!Exists(n)}
  BY <1>1, <1>5, <1>6, <1>7 DEF WalkRecord
<1>9. WalkTypeOK'
  BY <1>1, <1>8 DEF WalkInv, WalkTypeOK
<1>10. Near' = near /\ (Walk!Within(walk.from, Near))' = ball
  BY <1>1, <1>8, RelationsKept
<1>11. /\ walk.from \subseteq walk.visited /\ new \intersect walk.visited = {}
       /\ walk.affected = {n \in walk.visited : Walk!Exists(n)} \ walk.from
  BY <1>2, <1>5 DEF NeighborsInv
<1>12. walk'.affected = {n \in walk'.visited : Walk!Exists(n)} \ walk'.from
  BY <1>8, <1>11
<1>13. \A n : Walk!Exists(n)' = Walk!Exists(n)
  BY <1>1 DEF Walk!Exists
<1>14. walk.depth \in Nat /\ Walk!Depth = Len(walk.queue[1]) - 1 /\ Walk!Depth \in Nat /\ Len(walk.queue[1]) \in Nat
  BY <1>1, HeadOfQueue DEF WalkRecord, Way
<1>15. \/ /\ walk'.visited = ball[walk.depth]
          /\ \A i \in DOMAIN queue : Len(queue[i]) > walk.depth
       \/ /\ queue # <<>> /\ Len(queue[1]) <= walk.depth
          /\ Searched(queue, walk'.visited, near, ball)
  <2>1. CASE /\ walk.visited = ball[walk.depth]
             /\ \A i \in DOMAIN walk.queue : Len(walk.queue[i]) > walk.depth
    <3>1. Walk!Depth >= walk.depth
      BY <1>1, <1>14, <2>1, HeadOfQueue
    <3>2. new = {}
      BY <1>5, <3>1
    <3>3. \A i \in DOMAIN queue : i + 1 \in DOMAIN walk.queue /\ queue[i] = walk.queue[i + 1]
      BY <1>1, <1>7, <3>2, HeadOfQueue, SMTT(20) DEF Enqueued
    <3> QED
      BY <1>8, <2>1, <3>2, <3>3
  <2>2. CASE Len(walk.queue[1]) <= walk.depth /\ Searched(walk.queue, walk.visited, near, ball)
    <3>1. new = near[End(walk.queue[1])] \ walk.visited
      BY <1>1, <1>5, <1>14, <2>2, HeadOfQueue
    <3>2. /\ Searched(queue, walk.visited \union new, near, ball)
          /\ walk.visited \union new \subseteq ball[Len(walk.queue[1])]
          /\ queue # <<>> => Len(queue[1]) \in {Len(walk.queue[1]), Len(walk.queue[1]) + 1}
      <4>1. walk.queue \in Seq(Way) /\ walk.visited \in SUBSET Node
        BY <1>1 DEF WalkRecord
      <4> QED
        BY <1>1, <1>2, <1>3, <1>6, <1>7, <2>2, <3>1, <4>1, SearchStep
    <3>3. walk.visited \union new \subseteq ball[walk.depth]
      BY <1>2, <1>14, <2>2, <3>2, BallsIncrease
    <3>4. CASE queue = <<>>
      <4>1. walk.from \subseteq walk.visited \union new
        BY <1>11
      <4>2. \A n \in walk.visited \union new : near[n] \subseteq walk.visited \union new
        BY <3>2, <3>4 DEF Searched
      <4>3. ball[walk.depth] \subseteq walk.visited \union new
        BY <1>14, <4>1, <4>2, ClosedHoldsBalls
      <4>4. DOMAIN queue = {}
        BY <3>4
      <4> QED
        BY <1>8, <3>3, <4>3, <4>4
    <3>5. CASE queue # <<>> /\ Len(queue[1]) <= walk.depth
      BY <1>8, <3>2, <3>5
    <3>6. CASE queue # <<>> /\ ~(Len(queue[1]) <= walk.depth)
      <4>1. Len(queue[1]) = walk.depth + 1
        BY <1>14, <2>2, <3>2, <3>6
      <4>2. ball[walk.depth] \subseteq walk.visited \union new
        <5>1. Len(queue[1]) - 1 = walk.depth
          BY <1>14, <4>1
        <5> QED
          BY <3>2, <3>6, <5>1 DEF Searched
      <4>3. \A i \in DOMAIN queue : Len(queue[i]) > walk.depth
        <5>1. 1 \in DOMAIN queue /\ \A i \in DOMAIN queue : 1 <= i /\ Len(queue[i]) \in Nat
          BY <1>7, <3>6 DEF Way
        <5>2. \A i \in DOMAIN queue : Len(queue[1]) <= Len(queue[i])
          BY <3>2, <5>1 DEF Searched
        <5> QED
          BY <1>14, <4>1, <5>1, <5>2
      <4> QED
        BY <1>8, <3>3, <4>2, <4>3
    <3> QED
      BY <3>4, <3>5, <3>6
  <2> QED
    BY <1>2, <2>1, <2>2 DEF NeighborsInv
<1>16. NeighborsInv(Near, Walk!Within(walk.from, Near))'
  BY <1>8, <1>10, <1>11, <1>12, <1>13, <1>15 DEF NeighborsInv
<1> QED
  BY <1>1, <1>8, <1>9, <1>16 DEF WalkInv

LEMMA StepPathStep ==
    ASSUME WalkInv, Walk!StepPath
    PROVE  WalkInv'
<1>1. walk.call = "path" /\ walk.queue # <<>> /\ ~walk.done /\ UNCHANGED graph /\ walk \in WalkRecord
  <2>1. walk.call = "path" /\ walk.queue # <<>> /\ ~walk.done /\ UNCHANGED graph
    BY DEF Walk!StepPath
  <2> QED
    BY <2>1, WalksRecorded
<1> PICK near : near = Walk!KeptOut
  OBVIOUS
<1> PICK ball : ball = Walk!Within(walk.from, near)
  OBVIOUS
<1>2. near \in [Node -> SUBSET Node] /\ PathInv(near, ball) /\ walk.from \in SUBSET Node
  BY <1>1, RelationsTyped DEF WalkInv, WalkRecord
<1>3. ball[0] = walk.from /\ Balls(near, ball)
  BY <1>2, BallsOf
<1> PICK head \in Way : head = walk.queue[1]
  BY <1>1, HeadOfQueue
<1>4. /\ near[End(head)] = Walk!Kept(Walk!Outgoing(Walk!Here)) /\ Head(walk.queue) = head
      /\ 1 \in DOMAIN walk.queue /\ End(head) \in Node /\ walk.queue \in Seq(Way)
      /\ Len(head) \in Nat /\ Len(head) >= 1
  BY <1>1, HeadOfQueue DEF Walk!KeptOut, Way
<1> PICK new \in SUBSET Node : new = near[End(head)] \ walk.visited
  BY <1>2, <1>4
<1>5. \/ /\ walk.target \in near[End(head)]
         /\ walk' = [walk EXCEPT !.found = Append(head, walk.target), !.done = TRUE]
      \/ /\ walk.target \notin near[End(head)]
         /\ \E queue \in Walk!Queued(new) :
               walk' = [walk EXCEPT !.queue = queue, !.visited = walk.visited \union near[End(head)]]
  BY <1>4 DEF Walk!StepPath, Walk!Reached, Walk!NotSeen
<1>6. CASE /\ walk.target \in near[End(head)]
           /\ walk' = [walk EXCEPT !.found = Append(head, walk.target), !.done = TRUE]
  <2>1. walk.target \in Node
    BY <1>2, <1>4, <1>6
  <2>2. /\ Append(head, walk.target) \in Way /\ Len(Append(head, walk.target)) = Len(head) + 1
        /\ End(Append(head, walk.target)) = walk.target /\ Append(head, walk.target)[1] = head[1]
        /\ \A i \in 1..Len(head) : Append(head, walk.target)[i] = head[i]
    BY <2>1, WayGoesOn
  <2> PICK found \in Way : found = Append(head, walk.target)
    BY <2>2
  <2>3. /\ walk' \in WalkRecord /\ walk'.call = walk.call /\ walk'.from = walk.from /\ walk'.skip = walk.skip
        /\ walk'.target = walk.target /\ walk'.found = found /\ walk'.done
    BY <1>1, <1>6 DEF WalkRecord, Way
  <2>4. WalkTypeOK'
    BY <1>1, <2>3 DEF WalkInv, WalkTypeOK
  <2>5. ASSUME walk.target \notin walk.from
        PROVE  /\ found # <<>> /\ Walk!IsWay(found) /\ {found[1]} = walk.from
               /\ walk.target \notin ball[Len(found) - 2] /\ Len(found) >= 2
    <3>1. /\ Walk!IsWay(head) /\ {head[1]} = walk.from /\ walk.target \notin walk.visited
          /\ ball[Len(head) - 1] \subseteq walk.visited
      BY <1>1, <1>2, <1>4, <2>5 DEF PathInv, Searched
    <3>2. Len(found) = Len(head) + 1 /\ Len(found) - 2 = Len(head) - 1 /\ found # <<>>
      BY <1>4, <2>2 DEF Way
    <3>3. \A i \in 1..(Len(found) - 1) : found[i + 1] \in near[found[i]]
      <4> TAKE i \in 1..(Len(found) - 1)
      <4>1. CASE i = Len(head)
        BY <1>4, <1>6, <2>2, <3>2, <4>1 DEF End
      <4>2. CASE i # Len(head)
        <5>1. i \in 1..(Len(head) - 1) /\ i + 1 \in 1..Len(head) /\ i \in 1..Len(head)
          BY <1>4, <3>2, <4>2
        <5>2. head[i + 1] \in near[head[i]]
          BY <3>1, <5>1 DEF Walk!IsWay
        <5> QED
          BY <2>2, <5>1, <5>2
      <4> QED
        BY <4>1, <4>2
    <3> QED
      BY <1>4, <2>2, <3>1, <3>2, <3>3 DEF Walk!IsWay
  <2>6. Walk!KeptOut' = near /\ (Walk!Within(walk.from, Walk!KeptOut))' = ball
    BY <1>1, <2>3, RelationsKept
  <2>7. PathInv(Walk!KeptOut, Walk!Within(walk.from, Walk!KeptOut))'
    BY <2>2, <2>3, <2>5, <2>6 DEF PathInv, Walk!IsWay
  <2> QED
    BY <1>1, <2>3, <2>4, <2>7 DEF WalkInv
<1>7. ASSUME walk.target \notin near[End(head)], NEW queue \in Walk!Queued(new),
             walk' = [walk EXCEPT !.queue = queue, !.visited = walk.visited \union near[End(head)]]
      PROVE  WalkInv'
  <2>1. Enqueued(walk.queue, new, queue) /\ queue \in Seq(Way)
    BY <1>1, <1>4, <1>7, QueuedEnqueues DEF Enqueued
  <2>2. /\ walk' \in WalkRecord /\ walk'.call = walk.call /\ walk'.from = walk.from /\ walk'.skip = walk.skip
        /\ walk'.target = walk.target /\ walk'.found = walk.found /\ walk'.done = walk.done
        /\ walk'.queue = queue /\ walk'.visited = walk.visited \union new
    BY <1>1, <1>2, <1>4, <1>7, <2>1 DEF WalkRecord
  <2>3. WalkTypeOK'
    BY <1>1, <2>2 DEF WalkInv, WalkTypeOK
  <2>4. Walk!KeptOut' = near /\ (Walk!Within(walk.from, Walk!KeptOut))' = ball
    BY <1>1, <2>2, RelationsKept
  <2>5. ASSUME walk.target \notin walk.from
        PROVE  /\ walk.target \notin walk'.visited
               /\ Searched(queue, walk'.visited, near, ball)
               /\ \A i \in DOMAIN queue : Walk!IsWay(queue[i]) /\ {queue[i][1]} = walk.from
    <3>1. /\ walk.target \notin walk.visited /\ Searched(walk.queue, walk.visited, near, ball)
          /\ \A i \in DOMAIN walk.queue : Walk!IsWay(walk.queue[i]) /\ {walk.queue[i][1]} = walk.from
      BY <1>1, <1>2, <2>5 DEF PathInv
    <3>2. Searched(queue, walk.visited \union new, near, ball)
      <4>1. walk.visited \in SUBSET Node /\ new = near[End(walk.queue[1])] \ walk.visited
        BY <1>1 DEF WalkRecord
      <4> QED
        BY <1>1, <1>2, <1>3, <1>4, <2>1, <3>1, <4>1, SearchStep
    <3>3. ASSUME NEW i \in DOMAIN queue
          PROVE  Walk!IsWay(queue[i]) /\ {queue[i][1]} = walk.from
      <4>1. CASE i < Len(walk.queue)
        <5>1. i + 1 \in DOMAIN walk.queue /\ queue[i] = walk.queue[i + 1]
          BY <1>4, <2>1, <4>1 DEF Enqueued
        <5> QED
          BY <3>1, <5>1
      <4>2. CASE i >= Len(walk.queue)
        <5>1. PICK n \in new : queue[i] = Append(head, n)
          BY <2>1, <4>2 DEF Enqueued
        <5>2. /\ Len(queue[i]) = Len(head) + 1 /\ queue[i][Len(head) + 1] = n /\ queue[i][1] = head[1]
              /\ \A k \in 1..Len(head) : queue[i][k] = head[k]
          <6>1. /\ Len(Append(head, n)) = Len(head) + 1 /\ End(Append(head, n)) = n
                /\ Append(head, n)[1] = head[1] /\ \A k \in 1..Len(head) : Append(head, n)[k] = head[k]
            BY WayGoesOn
          <6> QED
            BY <5>1, <6>1 DEF End
        <5>3. n \in near[head[Len(head)]] /\ Walk!IsWay(head) /\ {head[1]} = walk.from
          BY <1>4, <3>1 DEF End
        <5>4. \A k \in 1..(Len(queue[i]) - 1) : queue[i][k + 1] \in near[queue[i][k]]
          <6> TAKE k \in 1..(Len(queue[i]) - 1)
          <6>1. CASE k = Len(head)
            BY <1>4, <5>2, <5>3, <6>1
          <6>2. CASE k # Len(head)
            <7>1. k \in 1..(Len(head) - 1) /\ k + 1 \in 1..Len(head) /\ k \in 1..Len(head)
              BY <1>4, <5>2, <6>2
            <7>2. head[k + 1] \in near[head[k]]
              BY <5>3, <7>1 DEF Walk!IsWay
            <7> QED
              BY <5>2, <7>1, <7>2
          <6> QED
            BY <6>1, <6>2
        <5> QED
          BY <5>2, <5>3, <5>4 DEF Walk!IsWay
      <4> QED
        BY <1>4, <2>1, <4>1, <4>2 DEF Enqueued
    <3> QED
      BY <1>7, <2>2, <3>1, <3>2, <3>3
  <2>6. PathInv(Walk!KeptOut, Walk!Within(walk.from, Walk!KeptOut))'
    BY <1>1, <1>2, <2>2, <2>4, <2>5 DEF PathInv, Walk!IsWay
  <2> QED
    BY <1>1, <2>2, <2>3, <2>6 DEF WalkInv
<1> QED
  BY <1>5, <1>6, <1>7

LEMMA NextClosureStep ==
    ASSUME WalkInv, Walk!NextClosure
    PROVE  WalkInv'
<1>1. walk.call = "impact" /\ walk.queue = <<>> /\ ~walk.done /\ UNCHANGED graph /\ walk \in WalkRecord
  <2>1. walk.call = "impact" /\ walk.queue = <<>> /\ ~walk.done /\ UNCHANGED graph
    BY DEF Walk!NextClosure
  <2> QED
    BY <2>1, WalksRecorded
<1> PICK near : near = Walk!KeptIn
  OBVIOUS
<1> PICK ball : ball = Walk!Within(walk.from, near)
  OBVIOUS
<1>2. near \in [Node -> SUBSET Node] /\ ImpactInv(near, ball) /\ walk.from \in SUBSET Node
  BY <1>1, RelationsTyped DEF WalkInv, WalkRecord
<1>3. Pending(walk.queue) = {}
  BY <1>1 DEF Pending
<1>4. /\ walk.todo \subseteq walk.from /\ walk.affected \subseteq ball[Walk!Everywhere]
      /\ \A n \in walk.affected \union (walk.from \ walk.todo) : near[n] \subseteq walk.affected \union walk.from
      /\ walk.visited \subseteq walk.affected \union walk.from
      /\ \A n \in walk.visited : near[n] \subseteq walk.affected \union walk.from
  BY <1>2, <1>3 DEF ImpactInv
<1>5. CASE walk.todo = {} /\ walk' = [walk EXCEPT !.done = TRUE]
  <2>1. /\ walk' \in WalkRecord /\ walk'.call = walk.call /\ walk'.from = walk.from /\ walk'.skip = walk.skip
        /\ walk'.queue = walk.queue /\ walk'.visited = walk.visited /\ walk'.affected = walk.affected
        /\ walk'.todo = {}
    BY <1>1, <1>5 DEF WalkRecord
  <2>2. Walk!KeptIn' = near /\ (Walk!Within(walk.from, Walk!KeptIn))' = ball
    BY <1>1, <2>1, RelationsKept
  <2>3. ImpactInv(Walk!KeptIn, Walk!Within(walk.from, Walk!KeptIn))'
    BY <1>1, <1>2, <1>5, <2>1, <2>2 DEF ImpactInv, Walk!Everywhere
  <2> QED
    BY <1>1, <2>1, <2>3 DEF WalkInv, WalkTypeOK
<1>6. ASSUME NEW n \in walk.todo,
             walk' = [walk EXCEPT !.queue = <<<<n>>>>, !.visited = {}, !.todo = walk.todo \ {n}]
      PROVE  WalkInv'
  <2>1. n \in walk.from /\ n \in Node /\ <<<<n>>>> \in Seq(Way)
    BY <1>2, <1>4 DEF Way
  <2>2. /\ walk' \in WalkRecord /\ walk'.call = walk.call /\ walk'.from = walk.from /\ walk'.skip = walk.skip
        /\ walk'.queue = <<<<n>>>> /\ walk'.visited = {} /\ walk'.affected = walk.affected
        /\ walk'.todo = walk.todo \ {n} /\ ~walk'.done
    BY <1>1, <1>6, <2>1 DEF WalkRecord
  <2>3. Walk!KeptIn' = near /\ (Walk!Within(walk.from, Walk!KeptIn))' = ball
    BY <1>1, <2>2, RelationsKept
  <2>4. Pending(<<<<n>>>>) = {n} /\ \A i \in DOMAIN <<<<n>>>> : <<<<n>>>>[i][1] = n
    BY DEF Pending, End
  <2>5. n \in ball[Walk!Everywhere]
    BY <1>2, <2>1, EverywhereIsClosed
  <2>6. ImpactInv(Walk!KeptIn, Walk!Within(walk.from, Walk!KeptIn))'
    BY <1>4, <2>1, <2>2, <2>3, <2>4, <2>5 DEF ImpactInv, Walk!Everywhere
  <2> QED
    BY <1>1, <2>2, <2>6 DEF WalkInv, WalkTypeOK
<1> QED
  BY <1>5, <1>6 DEF Walk!NextClosure

LEMMA StepClosureStep ==
    ASSUME WalkInv, Walk!StepClosure
    PROVE  WalkInv'
<1>1. walk.call = "impact" /\ walk.queue # <<>> /\ UNCHANGED graph /\ walk \in WalkRecord
  <2>1. walk.call = "impact" /\ walk.queue # <<>> /\ UNCHANGED graph
    BY DEF Walk!StepClosure
  <2> QED
    BY <2>1, WalksRecorded
<1> PICK near : near = Walk!KeptIn
  OBVIOUS
<1> PICK ball : ball = Walk!Within(walk.from, near)
  OBVIOUS
<1>2. near \in [Node -> SUBSET Node] /\ ImpactInv(near, ball) /\ walk.from \in SUBSET Node
  BY <1>1, RelationsTyped DEF WalkInv, WalkRecord
<1> PICK here \in Node : here = Walk!Here
  BY <1>1, HeadOfQueue
<1> PICK q \in Seq(Way) : q = walk.queue
  BY <1>1, HeadOfQueue
<1>3. /\ q[1] \in Way /\ 1 \in DOMAIN q /\ End(q[1]) = here /\ Head(walk.queue) = q[1] /\ q # <<>>
      /\ near[here] = Walk!Kept(Walk!Incoming(here)) /\ q[1][1] \in walk.from
  BY <1>1, <1>2, HeadOfQueue DEF Walk!KeptIn, ImpactInv
<1> PICK all : all = ball[Walk!Everywhere]
  OBVIOUS
<1>4. here \in Pending(q) /\ here \in all /\ near[here] \subseteq all
  <2>1. here \in Pending(q)
    BY <1>3 DEF Pending
  <2>2. here \in all
    BY <1>2, <2>1 DEF ImpactInv
  <2> QED
    BY <1>2, <2>1, <2>2, EverywhereIsClosed
\* What waited still does, but for the head; what is queued waits.
<1>5. ASSUME NEW new \in SUBSET Node, NEW next, Enqueued(q, new, next)
      PROVE  /\ Pending(q) \subseteq Pending(next) \union {here}
             /\ Pending(next) \subseteq Pending(q) \union new /\ new \subseteq Pending(next)
             /\ \A i \in DOMAIN next : next[i][1] \in walk.from
  <2>1. Len(q) \in Nat \ {0} /\ DOMAIN q = 1..Len(q) /\ next \in Seq(Way)
    BY <1>3, <1>5 DEF Enqueued
  <2>2. \A i \in DOMAIN q : i = 1 \/ (i - 1 \in DOMAIN next /\ next[i - 1] = q[i])
    BY <1>5, <2>1 DEF Enqueued
  <2>3. ASSUME NEW i \in DOMAIN next
        PROVE  /\ End(next[i]) \in Pending(q) \union new
               /\ next[i][1] \in walk.from
    <3>1. CASE i < Len(q)
      <4>1. i + 1 \in DOMAIN q /\ next[i] = q[i + 1]
        BY <1>5, <2>1, <3>1 DEF Enqueued
      <4> QED
        BY <1>2, <4>1 DEF Pending, ImpactInv
    <3>2. CASE i >= Len(q)
      <4>1. PICK n \in new : next[i] = Append(q[1], n)
        BY <1>5, <3>2 DEF Enqueued
      <4> QED
        BY <1>3, <4>1, WayGoesOn
    <3> QED
      BY <2>1, <3>1, <3>2
  <2>4. ASSUME NEW n \in new
        PROVE  n \in Pending(next)
    <3>1. PICK i \in DOMAIN next : next[i] = Append(q[1], n)
      BY <1>5 DEF Enqueued
    <3>2. End(next[i]) = n
      BY <1>3, <3>1, WayGoesOn
    <3> QED
      BY <3>2 DEF Pending
  <2> QED
    BY <1>3, <2>2, <2>3, <2>4 DEF Pending
<1>6. /\ walk.todo \subseteq walk.from /\ walk.visited \subseteq walk.affected \union walk.from
      /\ walk.affected \union Pending(q) \subseteq all /\ ~walk.done
      /\ \A n \in walk.visited : near[n] \subseteq walk.affected \union walk.from \union Pending(q)
      /\ \A n \in walk.affected \union (walk.from \ walk.todo) :
            n \in Pending(q) \/ near[n] \subseteq walk.affected \union walk.from \union Pending(q)
  BY <1>1, <1>2 DEF ImpactInv
<1>7. CASE here \in walk.visited /\ walk' = [walk EXCEPT !.queue = Tail(q)]
  <2>1. Enqueued(q, {}, Tail(q)) /\ Tail(q) \in Seq(Way)
    BY <1>3, TailEnqueues
  <2>2. /\ walk' \in WalkRecord /\ walk'.call = walk.call /\ walk'.from = walk.from /\ walk'.skip = walk.skip
        /\ walk'.queue = Tail(q) /\ walk'.visited = walk.visited /\ walk'.affected = walk.affected
        /\ walk'.todo = walk.todo /\ walk'.done = walk.done
    BY <1>1, <1>7, <2>1 DEF WalkRecord
  <2>3. /\ Pending(q) \subseteq Pending(Tail(q)) \union {here} /\ Pending(Tail(q)) \subseteq Pending(q)
        /\ \A i \in DOMAIN Tail(q) : Tail(q)[i][1] \in walk.from
    BY <1>5, <2>1
  <2>4. Walk!KeptIn' = near /\ (Walk!Within(walk.from, Walk!KeptIn))' = ball /\ Walk!Everywhere' = Walk!Everywhere
    BY <1>1, <2>2, RelationsKept DEF Walk!Everywhere
  <2>5. /\ \A n \in walk.visited : near[n] \subseteq walk.affected \union walk.from \union Pending(Tail(q))
        /\ \A n \in walk.affected \union (walk.from \ walk.todo) :
            n \in Pending(Tail(q)) \/ near[n] \subseteq walk.affected \union walk.from \union Pending(Tail(q))
    BY <1>6, <1>7, <2>3
  <2>6. ImpactInv(Walk!KeptIn, Walk!Within(walk.from, Walk!KeptIn))'
    BY <1>6, <2>2, <2>3, <2>4, <2>5 DEF ImpactInv
  <2> QED
    BY <1>1, <2>2, <2>6 DEF WalkInv, WalkTypeOK
<1>8. ASSUME NEW queue \in Walk!Queued(near[here] \ (walk.visited \union {here})),
             walk' = [walk EXCEPT !.queue = queue, !.visited = walk.visited \union {here},
                                  !.affected = walk.affected \union ({here} \ {q[1][1]})]
      PROVE  WalkInv'
  <2> PICK new \in SUBSET Node : new = near[here] \ (walk.visited \union {here})
    BY <1>2
  <2> PICK affected \in SUBSET Node : affected = walk.affected \union ({here} \ {q[1][1]})
    BY <1>1 DEF WalkRecord
  <2>1. Enqueued(q, new, queue) /\ queue \in Seq(Way)
    <3>1. Enqueued(q, new, queue)
      BY <1>1, <1>3, <1>8, QueuedEnqueues
    <3> QED
      BY <3>1 DEF Enqueued
  <2>2. /\ walk' \in WalkRecord /\ walk'.call = walk.call /\ walk'.from = walk.from /\ walk'.skip = walk.skip
        /\ walk'.queue = queue /\ walk'.visited = walk.visited \union {here} /\ walk'.affected = affected
        /\ walk'.todo = walk.todo /\ walk'.done = walk.done
    BY <1>1, <1>8, <2>1 DEF WalkRecord
  <2>3. /\ Pending(q) \subseteq Pending(queue) \union {here}
        /\ Pending(queue) \subseteq Pending(q) \union new /\ new \subseteq Pending(queue)
        /\ \A i \in DOMAIN queue : queue[i][1] \in walk.from
    BY <1>5, <2>1
  <2>4. Walk!KeptIn' = near /\ (Walk!Within(walk.from, Walk!KeptIn))' = ball /\ Walk!Everywhere' = Walk!Everywhere
    BY <1>1, <2>2, RelationsKept DEF Walk!Everywhere
  <2>5. /\ here \in affected \union walk.from /\ walk.affected \subseteq affected
        /\ affected \subseteq walk.affected \union {here}
    BY <1>3
  <2>6. near[here] \subseteq affected \union walk.from \union Pending(queue)
    BY <1>6, <2>3, <2>5
  <2>7. /\ \A n \in walk.visited \union {here} : near[n] \subseteq affected \union walk.from \union Pending(queue)
        /\ \A n \in affected \union (walk.from \ walk.todo) :
            n \in Pending(queue) \/ near[n] \subseteq affected \union walk.from \union Pending(queue)
    BY <1>6, <2>3, <2>5, <2>6
  <2>8. affected \union Pending(queue) \subseteq all
    BY <1>4, <1>6, <2>3, <2>5
  <2>9. ImpactInv(Walk!KeptIn, Walk!Within(walk.from, Walk!KeptIn))'
    BY <1>6, <2>2, <2>3, <2>4, <2>5, <2>7, <2>8 DEF ImpactInv
  <2> QED
    BY <1>1, <2>2, <2>9 DEF WalkInv, WalkTypeOK
<1> QED
  BY <1>3, <1>7, <1>8 DEF Walk!StepClosure

LEMMA WalksStep ==
    ASSUME WalkInv, Walk!WalkNext
    PROVE  WalkInv'
BY CallStep, StepNeighborsStep, NextClosureStep, StepClosureStep, StepPathStep DEF Walk!WalkNext

LEMMA WalksStutter ==
    ASSUME WalkInv, UNCHANGED walks
    PROVE  WalkInv'
<1>1. UNCHANGED <<graph, walk>>
  BY DEF walks
<1>2. WalkTypeOK'
  BY <1>1 DEF WalkInv, WalkTypeOK
<1>3. walk.call \in {"in", "out"} => NeighborsInv(Near, Walk!Within(walk.from, Near))'
  BY <1>1, RelationsKept DEF WalkInv, NeighborsInv, Walk!Exists
<1>4. walk.call = "path" => PathInv(Walk!KeptOut, Walk!Within(walk.from, Walk!KeptOut))'
  BY <1>1, RelationsKept DEF WalkInv, PathInv, Walk!IsWay
<1>5. walk.call = "impact" => ImpactInv(Walk!KeptIn, Walk!Within(walk.from, Walk!KeptIn))'
  BY <1>1, RelationsKept DEF WalkInv, ImpactInv, Walk!Everywhere
<1> QED
  BY <1>1, <1>2, <1>3, <1>4, <1>5 DEF WalkInv
==============================================================================
