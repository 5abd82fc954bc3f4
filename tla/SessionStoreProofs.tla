------------------------- MODULE SessionStoreProofs -------------------------
(***************************************************************************)
(* Proofs about SessionStore: types, that a dirty store has a timer, and,  *)
(* when writes do not overlap, that nothing is forgotten and that what a   *)
(* /clear or a shutdown has written stays written; and the message log.    *)
(***************************************************************************)
EXTENDS SessionStore, FiniteSetTheorems, SequenceTheorems, TLAPS

USE ThreadAssumption, BoundAssumption

LEMMA CancelType ==
    ASSUME TypeOK
    PROVE  /\ WithTimerCancelled \in [Thread -> Stage]
           /\ \A t \in Thread : WithTimerCancelled[t] = "writing" <=> thread[t] = "writing"
           /\ WithTimerCancelled[Loop] = thread[Loop]
  BY DEF TypeOK, WithTimerCancelled, Thread, Stage

LEMMA SnapshotType ==
    ASSUME TypeOK
    PROVE  Snapshot \in Contents /\ Nothing \in Contents
  BY EmptySeq DEF TypeOK, Snapshot, Nothing, Contents

LEMMA ScheduleType ==
    ASSUME TypeOK, ScheduleSave
    PROVE  dirty' \in BOOLEAN /\ timer' \in Timer \cup {NoTimer} /\ thread' \in [Thread -> Stage]
  BY CancelType DEF ScheduleSave, Stage

LEMMA FlushType ==
    ASSUME TypeOK, NEW c \in Contents, FlushSave(c)
    PROVE  /\ dirty' \in BOOLEAN /\ failed' \in BOOLEAN
           /\ timer' \in Timer \cup {NoTimer}
           /\ thread' \in [Thread -> Stage]
           /\ snap' \in [Thread -> Contents]
<1>1. snap' \in [Thread -> Contents]
  BY DEF FlushSave, TypeOK
<1> QED
  BY <1>1, CancelType DEF FlushSave, Stage

LEMMA RangeType ==
    ASSUME NEW s \in Seq(Message)
    PROVE  Range(s) \in SUBSET Message
  BY ElementOfSeq DEF Range

LEMMA TypeInit == Init => TypeOK
<1> SUFFICES ASSUME Init PROVE TypeOK
  OBVIOUS
<1>1. Nothing \in Contents /\ log \in Seq(Message)
  BY EmptySeq DEF Init, Nothing, Contents
<1>2. thread \in [Thread -> Stage] /\ snap \in [Thread -> Contents] /\ disk \in Contents
  BY <1>1 DEF Init, Stage
<1> QED
  BY <1>1, <1>2 DEF Init, TypeOK

LEMMA TypeStep == TypeOK /\ [Next]_vars => TypeOK'
<1> SUFFICES ASSUME TypeOK, [Next]_vars PROVE TypeOK'
  OBVIOUS
<1>1. CASE Change
  BY <1>1, ScheduleType DEF Change, TypeOK
<1>2. CASE Flush
  BY <1>2, FlushType, SnapshotType DEF Flush, TypeOK
<1>3. CASE ClearAll
  <2>1. [version |-> version + 1, log |-> << >>] \in Contents
    BY EmptySeq DEF TypeOK, Contents
  <2> QED
    BY <1>3, <2>1, FlushType, EmptySeq DEF ClearAll, TypeOK
<1>4. ASSUME NEW m \in Message, Record(m) PROVE TypeOK'
  <2>1. Append(log, m) \in Seq(Message) /\ Len(Append(log, m)) \in Nat
    BY AppendProperties, LenProperties DEF TypeOK
  <2>2. CASE Len(Append(log, m)) <= Cap
    <3>1. log' = Append(log, m) /\ ids' = ids \cup {m}
      BY <1>4, <2>1, <2>2 DEF Record
    <3> QED
      BY <1>4, <2>1, <3>1, ScheduleType DEF Record, TypeOK
  <2>3. CASE Len(Append(log, m)) > Cap
    <3> DEFINE longer == Append(log, m)
               kept == SubSeq(longer, Len(longer) - Cap + 1, Len(longer))
    <3>0. ~(Len(longer) <= Cap)
      BY <2>1, <2>3
    <3>1. log' = kept /\ ids' = Range(kept)
      BY <1>4, <3>0, Zenon DEF Record
    <3>2. /\ Len(longer) - Cap + 1 \in 1..(Len(longer) + 1)
          /\ Len(longer) \in (Len(longer) - Cap + 1 - 1)..Len(longer)
      BY <2>1, <2>3
    <3>3. kept \in Seq(Message)
      BY <2>1, <3>2, SubSeqProperties
    <3>4. log' \in Seq(Message) /\ ids' \in SUBSET Message
      BY <3>1, <3>3, RangeType, Zenon
    <3> QED
      BY <1>4, <3>4, ScheduleType DEF Record, TypeOK
  <2> QED
    BY <2>1, <2>2, <2>3
<1>5. ASSUME NEW t \in Timer, TimerFires(t) PROVE TypeOK'
  BY <1>5 DEF TimerFires, TypeOK, Stage
<1>6. ASSUME NEW t \in Timer, SaveFromTimer(t) PROVE TypeOK'
  BY <1>6, SnapshotType DEF SaveFromTimer, TypeOK, Stage, Thread
<1>7. ASSUME NEW w \in Thread, WriteDone(w) PROVE TypeOK'
  BY <1>7, SnapshotType DEF WriteDone, TypeOK, Stage, Contents
<1>8. ASSUME NEW w \in Thread, WriteFails(w) PROVE TypeOK'
  BY <1>8, SnapshotType DEF WriteFails, TypeOK, Stage
<1>9. CASE Crash
  <2>1. thread' \in [Thread -> Stage] /\ snap' \in [Thread -> Contents]
    BY <1>9, SnapshotType DEF Crash, Stage
  <2>2. crashes' \in Nat
    BY <1>9 DEF Crash, TypeOK
  <2>3. up' \in BOOLEAN
    BY <1>9, Zenon DEF Crash
  <2> QED
    BY <1>9, <2>1, <2>2, <2>3, Zenon DEF Crash, TypeOK
<1>10. CASE Restart
  <2>1. disk.version \in Nat /\ disk.log \in Seq(Message)
    BY DEF TypeOK, Contents
  <2> QED
    BY <1>10, <2>1, RangeType DEF Restart, TypeOK
<1>11. CASE UNCHANGED vars
  BY <1>11 DEF vars, TypeOK
<1> QED
  BY <1>1, <1>2, <1>3, <1>4, <1>5, <1>6, <1>7, <1>8, <1>9, <1>10, <1>11 DEF Next

\* Every reachable state of the store is well typed, whatever the bounds.
THEOREM StoreTypeCorrect == Spec => []TypeOK
  BY TypeInit, TypeStep, PTL DEF Spec

-----------------------------------------------------------------------------
(* A dirty store has a timer, even when writes overlap.                    *)

LEMMA ScheduledInit == Init => SaveScheduled
  BY DEF Init, SaveScheduled

LEMMA ScheduledStep == TypeOK /\ SaveScheduled /\ [Next]_vars => SaveScheduled'
<1> SUFFICES ASSUME TypeOK, SaveScheduled, [Next]_vars PROVE SaveScheduled'
  OBVIOUS
<1> USE DEF Thread
<1>1. ASSUME ScheduleSave PROVE SaveScheduled'
  BY <1>1, CancelType DEF ScheduleSave, SaveScheduled
<1>2. CASE Change \/ \E m \in Message : Record(m)
  BY <1>1, <1>2 DEF Change, Record
<1>3. CASE Flush \/ ClearAll
  BY <1>3 DEF Flush, ClearAll, FlushSave, SaveScheduled
<1>4. ASSUME NEW t \in Timer, TimerFires(t) PROVE SaveScheduled'
  BY <1>4 DEF TimerFires, SaveScheduled, TypeOK
<1>5. ASSUME NEW t \in Timer, SaveFromTimer(t) PROVE SaveScheduled'
  BY <1>5 DEF SaveFromTimer, SaveScheduled
<1>6. ASSUME NEW w \in Thread, WriteDone(w) \/ WriteFails(w) PROVE SaveScheduled'
  BY <1>6 DEF WriteDone, WriteFails, Writers, SaveScheduled, TypeOK
<1>7. CASE Crash \/ Restart \/ UNCHANGED vars
  BY <1>7 DEF Crash, Restart, vars, SaveScheduled
<1> QED
  BY <1>2, <1>3, <1>4, <1>5, <1>6, <1>7 DEF Next

\* However timers and their callbacks race with the event loop, a dirty store
\* has a timer that will save it, unless a write has failed.
THEOREM SaveScheduledCorrect == Spec => []SaveScheduled
  BY TypeInit, TypeStep, ScheduledInit, ScheduledStep, PTL DEF Spec

-----------------------------------------------------------------------------
(* Durability, when writes do not overlap.  The strengthening: the one     *)
(* write in progress lies between the disk and the memory, and is the      *)
(* memory if the store is clean.                                           *)

StoreInv ==
    /\ ~up => \A t \in Thread : thread[t] = "idle"
    /\ \A v, w \in Writers : v = w
    /\ \A w \in Writers : /\ up
                          /\ disk.version <= snap[w].version
                          /\ snap[w].version <= version
                          /\ ~dirty => snap[w].version = version
    /\ up => disk.version <= version
    /\ up /\ ~dirty /\ Writers = {} => disk.version = version
    /\ flushed <= disk.version

LEMMA StoreInit == Init => StoreInv
  BY DEF Init, StoreInv, Writers, Nothing, Thread

\* A change in memory: the store gets dirty, the writers stay as they are.
LEMMA ChangeKeepsStoreInv ==
    ASSUME TypeOK, StoreInv, ScheduleSave, up, version' = version + 1,
           UNCHANGED <<snap, disk, flushed, up>>
    PROVE  StoreInv'
<1>1. dirty' = TRUE
  BY DEF ScheduleSave
<1>2. \A t \in Thread : thread'[t] = "writing" <=> thread[t] = "writing"
  BY CancelType DEF ScheduleSave
<1>3. Writers' = Writers
  BY <1>2 DEF Writers
<1>4. \A w \in Thread : snap[w].version \in Nat
  BY DEF TypeOK, Contents
<1>5. version \in Nat /\ disk.version \in Nat
  BY DEF TypeOK, Contents
<1> QED
  BY <1>1, <1>3, <1>4, <1>5 DEF StoreInv, Writers

\* A snapshot c of the whole memory is handed to writer w; nobody else writes.
LEMMA BeginKeepsStoreInv ==
    ASSUME TypeOK, StoreInv, NEW w \in Thread, NEW c \in Contents,
           Writers = {}, Writers' = {w}, up,
           snap' = [snap EXCEPT ![w] = c], dirty' = FALSE,
           version' >= version, c.version = version', version' \in Nat,
           UNCHANGED <<disk, flushed, up>>
    PROVE  StoreInv'
<1>1. snap'[w] = c
  BY DEF TypeOK
<1>2. disk.version <= version /\ disk.version \in Nat /\ version \in Nat
  BY DEF StoreInv, TypeOK, Contents
<1>3. disk.version <= version'
  BY <1>2
<1> QED
  BY <1>1, <1>3 DEF StoreInv

LEMMA StoreStep ==
    ASSUME Overlap = FALSE, TypeOK, StoreInv, [Next]_vars
    PROVE  StoreInv'
<1>1. CASE Change
  BY <1>1, ChangeKeepsStoreInv DEF Change, LoopFree
<1>2. ASSUME NEW m \in Message, Record(m) PROVE StoreInv'
  BY <1>2, ChangeKeepsStoreInv DEF Record, LoopFree
<1>3. ASSUME NEW c \in Contents, FlushSave(c) PROVE Writers = {} /\ Writers' = {Loop}
  <2>1. Writers = {}
    BY <1>3 DEF FlushSave, MayWrite
  <2>2. \A t \in Thread : thread'[t] = "writing" <=> t = Loop
    BY <1>3, <2>1, CancelType DEF FlushSave, Writers, Thread
  <2> QED
    BY <2>1, <2>2 DEF Writers, Thread
<1>4. CASE Flush
  <2>1. Snapshot \in Contents /\ Snapshot.version = version
    BY SnapshotType DEF Snapshot
  <2>2. Writers = {} /\ Writers' = {Loop}
    BY <1>3, <1>4, <2>1 DEF Flush
  <2>3. version' = version /\ version \in Nat /\ version' >= version /\ up
    BY <1>4 DEF Flush, TypeOK
  <2> QED
    BY <1>4, <2>1, <2>2, <2>3, BeginKeepsStoreInv DEF Flush, FlushSave, Thread
<1>5. CASE ClearAll
  <2> DEFINE c == [version |-> version + 1, log |-> << >>]
  <2>1. c \in Contents /\ c.version = version'
    BY <1>5, EmptySeq DEF ClearAll, TypeOK, Contents
  <2>2. Writers = {} /\ Writers' = {Loop}
    BY <1>3, <1>5, <2>1 DEF ClearAll
  <2>3. version' >= version /\ version' \in Nat /\ up
    BY <1>5 DEF ClearAll, LoopFree, TypeOK
  <2> QED
    BY <1>5, <2>1, <2>2, <2>3, BeginKeepsStoreInv DEF ClearAll, FlushSave, Thread
<1>6. ASSUME NEW t \in Timer, TimerFires(t) PROVE StoreInv'
  <2>1. Writers' = Writers
    BY <1>6 DEF TimerFires, Writers, TypeOK, Thread
  <2> QED
    BY <1>6, <2>1 DEF TimerFires, StoreInv
<1>7. ASSUME NEW t \in Timer, SaveFromTimer(t) PROVE StoreInv'
  <2>3. up
    BY <1>7 DEF SaveFromTimer, StoreInv, Thread
  <2>1. CASE ~dirty
    <3>1. Writers' = Writers /\ UNCHANGED <<dirty, snap>>
      BY <1>7, <2>1 DEF SaveFromTimer, Writers, TypeOK, Thread
    <3> QED
      BY <1>7, <2>3, <3>1 DEF SaveFromTimer, StoreInv
  <2>2. CASE dirty
    <3>1. Writers = {} /\ Writers' = {t}
      BY <1>7, <2>2 DEF SaveFromTimer, MayWrite, Writers, TypeOK, Thread
    <3>2. Snapshot \in Contents /\ Snapshot.version = version
      BY SnapshotType DEF Snapshot
    <3>3. version' = version /\ version \in Nat /\ version' >= version
      BY <1>7 DEF SaveFromTimer, TypeOK
    <3>4. /\ snap' = [snap EXCEPT ![t] = Snapshot] /\ dirty' = FALSE
          /\ UNCHANGED <<disk, flushed, up>>
      BY <1>7, <2>2, Zenon DEF SaveFromTimer
    <3> QED
      BY <2>3, <3>1, <3>2, <3>3, <3>4, BeginKeepsStoreInv DEF Thread
  <2> QED
    BY <2>1, <2>2
<1>8. ASSUME NEW w \in Thread, WriteDone(w) \/ WriteFails(w) PROVE StoreInv'
  <2>1. w \in Writers /\ Writers' = {}
    BY <1>8 DEF WriteDone, WriteFails, Writers, StoreInv, TypeOK
  <2>2. snap[w].version \in Nat /\ disk.version \in Nat /\ flushed \in Nat /\ version \in Nat
    BY DEF TypeOK, Contents
  <2>3. CASE WriteDone(w)
    BY <2>1, <2>2, <2>3 DEF WriteDone, StoreInv
  <2>4. CASE WriteFails(w)
    BY <2>1, <2>2, <2>4 DEF WriteFails, StoreInv
  <2> QED
    BY <1>8, <2>3, <2>4
<1>9. CASE Crash
  <2>1. Writers' = {}
    BY <1>9 DEF Crash, Writers
  <2> QED
    BY <1>9, <2>1 DEF Crash, StoreInv
<1>10. CASE Restart
  <2>1. Writers' = Writers /\ disk.version \in Nat
    BY <1>10 DEF Restart, Writers, TypeOK, Contents
  <2> QED
    BY <1>10, <2>1 DEF Restart, StoreInv
<1>11. CASE UNCHANGED vars
  BY <1>11 DEF vars, StoreInv, Writers
<1> QED
  BY <1>1, <1>2, <1>4, <1>5, <1>6, <1>7, <1>8, <1>9, <1>10, <1>11 DEF Next

LEMMA StoreInvHolds ==
    ASSUME Overlap = FALSE
    PROVE  Spec => []StoreInv
<1>1. TypeOK /\ StoreInv /\ [Next]_vars => StoreInv'
  BY StoreStep
<1> QED
  BY <1>1, TypeInit, TypeStep, StoreInit, PTL DEF Spec

\* When a write never starts before the previous one has ended, a store that is
\* not dirty is on disk or on its way there, whichever timers are cancelled and
\* whatever fails or crashes.
THEOREM NothingForgottenCorrect ==
    ASSUME Overlap = FALSE
    PROVE  Spec => []NothingForgotten
<1>1. StoreInv => NothingForgotten
  BY DEF StoreInv, NothingForgotten
<1> QED
  BY <1>1, StoreInvHolds, PTL

-----------------------------------------------------------------------------
(* The message log.  What is in the file, or in a snapshot on its way      *)
(* there, is a log that a new process can start from.                      *)

\* A log without repetitions, within the cap.
Short(s) == Len(s) <= Cap /\ \A i, j \in 1..Len(s) : s[i] = s[j] => i = j

LogInv ==
    /\ ids = Range(log)
    /\ Short(log)
    /\ Short(disk.log)
    /\ \A w \in Thread : Short(snap[w].log)

\* A sequence without repetitions has as many elements as places.
LEMMA DistinctCardinality ==
    ASSUME NEW s \in Seq(Message), \A i, j \in 1..Len(s) : s[i] = s[j] => i = j
    PROVE  Cardinality(Range(s)) = Len(s)
<1>1. Len(s) \in Nat /\ DOMAIN s = 1..Len(s) /\ s \in [1..Len(s) -> Message]
  BY LenProperties
<1>2. Range(s) = {s[i] : i \in 1..Len(s)}
  BY <1>1 DEF Range
<1>3. s \in [1..Len(s) -> Range(s)]
  BY <1>1, <1>2
<1>4. IsInjective(s)
  BY <1>1 DEF IsInjective
<1>5. s \in Injection(1..Len(s), Range(s))
  BY <1>3, <1>4 DEF Injection
<1>6. s \in Surjection(1..Len(s), Range(s))
  BY <1>2, <1>3 DEF Surjection
<1>7. s \in Bijection(1..Len(s), Range(s))
  BY <1>5, <1>6 DEF Bijection
<1> QED
  BY <1>1, <1>7, FS_CountingElements DEF ExistsBijection

\* Recording an id that is not in the log, with the log within its cap or trimmed.
LEMMA RecordKeepsShort ==
    ASSUME TypeOK, LogInv, NEW m \in Message, Record(m)
    PROVE  ids' = Range(log)' /\ Short(log)'
<1> DEFINE longer == Append(log, m)
           drop == Len(longer) - Cap
           kept == SubSeq(longer, drop + 1, Len(longer))
<1>1. /\ longer \in Seq(Message) /\ Len(longer) = Len(log) + 1 /\ Len(log) \in Nat
      /\ \A i \in 1..Len(log) : longer[i] = log[i]
      /\ longer[Len(log) + 1] = m
  BY AppendProperties, LenProperties DEF TypeOK
<1>2. DOMAIN log = 1..Len(log) /\ DOMAIN longer = 1..(Len(log) + 1)
  BY <1>1, LenProperties DEF TypeOK
<1>3. m \notin Range(log) /\ \A i \in 1..Len(log) : log[i] # m
  BY <1>2 DEF Record, LogInv, Range
<1>4. \A i, j \in 1..Len(longer) : longer[i] = longer[j] => i = j
  BY <1>1, <1>3 DEF LogInv, Short
<1>5. CASE Len(longer) <= Cap
  <2>1. log' = longer /\ ids' = ids \cup {m}
    BY <1>1, <1>5 DEF Record
  <2>2. Range(longer) = Range(log) \cup {m}
    BY <1>1, <1>2 DEF Range
  <2> HIDE DEF longer
  <2> QED
    BY <1>4, <1>5, <2>1, <2>2 DEF LogInv, Short
<1>6. CASE Len(longer) > Cap
  <2>0. ~(Len(longer) <= Cap)
    BY <1>1, <1>6
  <2>1. log' = kept /\ ids' = Range(kept)
    BY <2>0, Zenon DEF Record
  <2>2. drop \in Nat /\ drop + Cap = Len(longer)
    BY <1>1, <1>6
  <2>3. /\ drop + 1 \in 1..(Len(longer) + 1)
        /\ Len(longer) \in (drop + 1 - 1)..Len(longer)
    BY <1>1, <2>2
  <2>4. Len(kept) = Cap /\ \A i \in 1..Cap : kept[i] = longer[drop + i]
    <3> HIDE DEF longer
    <3>1. /\ Len(kept) = Len(longer) - (drop + 1) + 1
          /\ \A i \in 1..(Len(longer) - (drop + 1) + 1) : kept[i] = longer[(drop + 1) + i - 1]
      BY <1>1, <2>3, SubSeqProperties
    <3> HIDE DEF kept, drop
    <3> QED
      BY <2>2, <3>1
  <2>5. \A i, j \in 1..Cap : kept[i] = kept[j] => i = j
    <3> HIDE DEF longer, kept, drop
    <3> QED
      BY <1>4, <2>2, <2>4
  <2> HIDE DEF kept
  <2> QED
    BY <2>1, <2>4, <2>5 DEF Short
<1> QED
  BY <1>1, <1>5, <1>6

LEMMA LogInit == Init => LogInv
<1>1. /\ Range(<<>>) = {} /\ Short(<<>>)
  BY DEF Range, Short
<1> QED
  BY <1>1 DEF Init, LogInv, Nothing

LEMMA LogStep == TypeOK /\ LogInv /\ [Next]_vars => LogInv'
<1> SUFFICES ASSUME TypeOK, LogInv, [Next]_vars PROVE LogInv'
  OBVIOUS
<1>1. Range(<<>>) = {} /\ Short(<<>>)
  BY DEF Range, Short
<1>2. CASE Change \/ Flush \/ \E t \in Timer : TimerFires(t) \/ SaveFromTimer(t)
  <2>1. UNCHANGED <<log, ids, disk>>
    BY <1>2 DEF Change, Flush, TimerFires, SaveFromTimer
  <2>2. \/ snap' = snap
        \/ \E w \in Thread : snap' = [snap EXCEPT ![w] = Snapshot]
    BY <1>2 DEF Change, Flush, FlushSave, TimerFires, SaveFromTimer, Thread
  <2>3. Short(Snapshot.log)
    BY DEF Snapshot, LogInv
  <2>4. \A w \in Thread : Short(snap'[w].log)
    BY <2>2, <2>3 DEF LogInv, TypeOK
  <2> QED
    BY <2>1, <2>4 DEF LogInv
<1>3. CASE ClearAll
  <2> DEFINE c == [version |-> version + 1, log |-> <<>>]
  <2>1. snap' = [snap EXCEPT ![Loop] = c] /\ log' = <<>> /\ ids' = {} /\ disk' = disk
    BY <1>3 DEF ClearAll, FlushSave
  <2>2. \A w \in Thread : Short(snap'[w].log)
    BY <1>1, <2>1 DEF LogInv, TypeOK
  <2> QED
    BY <1>1, <2>1, <2>2 DEF LogInv
<1>4. ASSUME NEW m \in Message, Record(m) PROVE LogInv'
  BY <1>4, RecordKeepsShort DEF Record, LogInv
<1>5. ASSUME NEW w \in Thread, WriteDone(w) \/ WriteFails(w) PROVE LogInv'
  <2>1. UNCHANGED <<log, ids>> /\ snap' = [snap EXCEPT ![w] = Nothing]
    BY <1>5 DEF WriteDone, WriteFails
  <2>2. \A v \in Thread : Short(snap'[v].log)
    BY <1>1, <2>1 DEF LogInv, TypeOK, Nothing
  <2>3. Short(disk'.log)
    BY <1>5 DEF WriteDone, WriteFails, LogInv
  <2> QED
    BY <2>1, <2>2, <2>3 DEF LogInv
<1>6. CASE Crash
  BY <1>1, <1>6 DEF Crash, LogInv, Nothing
<1>7. CASE Restart
  BY <1>7 DEF Restart, LogInv
<1>8. CASE UNCHANGED vars
  BY <1>8 DEF vars, LogInv
<1> QED
  BY <1>2, <1>3, <1>4, <1>5, <1>6, <1>7, <1>8 DEF Next

\* "Get all recorded message IDs for a chat (in insertion order)": no id is in the log twice, and the
\* set that record_message_id looks in agrees with it after every record, trim,
\* clear, crash and restart, whichever write the file comes from.
THEOREM LogSoundCorrect == Spec => []LogSound
<1>1. TypeOK /\ LogInv => LogSound
  BY DistinctCardinality DEF TypeOK, LogInv, LogSound, Short
<1> QED
  BY <1>1, TypeInit, TypeStep, LogInit, LogStep, PTL DEF Spec

=============================================================================
