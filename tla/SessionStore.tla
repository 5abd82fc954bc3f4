---------------------------- MODULE SessionStore ----------------------------
(***************************************************************************)
(* messaging/session.py: the store that keeps conversation trees and the   *)
(* log of message ids in memory and writes them to one JSON file, from the *)
(* debounce timers' threads and, for /clear and at shutdown, from the      *)
(* event-loop thread.                                                      *)
(*                                                                         *)
(* The trees and node mappings are abstracted to a version: the number of  *)
(* changes made to the store since the file was first created.  A critical *)
(* section of the store's lock is one step; a write of the file, which the *)
(* code does without the lock, is in progress between two steps.           *)
(***************************************************************************)
EXTENDS Naturals, Sequences, FiniteSets, Functions

CONSTANTS
    Message,     \* platform message ids recorded for one chat
    Timer,       \* timer threads that may exist at the same time
    Loop,        \* the event-loop thread
    NoTimer,     \* Python's None for _save_timer
    Cap,         \* message_log_cap
    MaxVersion,  \* bound on the number of changes
    MaxCrashes,  \* bound on the number of crashes
    Overlap      \* may a write start while another one is still in progress?

ASSUME ThreadAssumption == Loop \notin Timer /\ NoTimer \notin Timer
ASSUME BoundAssumption ==
    /\ Cap \in Nat \ {0} /\ MaxVersion \in Nat /\ MaxCrashes \in Nat
    /\ Overlap \in BOOLEAN

VARIABLES
    version,   \* _trees and _node_to_tree: the number of changes they contain
    log,       \* _message_log of the chat, oldest first
    ids,       \* _message_log_ids of the chat
    dirty,     \* _dirty
    timer,     \* _save_timer
    thread,    \* what each thread is doing for the store
    snap,      \* the snapshot each writing thread has taken
    disk,      \* the contents of the file
    flushed,   \* the newest version a completed clear_all or flush has written
    failed,    \* has a write failed since the last snapshot?
    up,        \* is the process running?
    crashes    \* number of crashes so far

vars == <<version, log, ids, dirty, timer, thread, snap, disk, flushed, failed, up, crashes>>

Thread == Timer \cup {Loop}

\* A timer is "armed" until its delay is over, "fired" until its callback gets
\* the lock, and then "writing" unless there was nothing to save.
Stage == {"idle", "armed", "fired", "writing"}

Contents == [version : Nat, log : Seq(Message)]
Snapshot == [version |-> version, log |-> log]
Nothing == [version |-> 0, log |-> << >>]
Writers == {w \in Thread : thread[w] = "writing"}
MayWrite == Overlap \/ Writers = {}

Init ==
    /\ version = 0
    /\ log = << >>
    /\ ids = {}
    /\ dirty = FALSE
    /\ timer = NoTimer
    /\ thread = [t \in Thread |-> "idle"]
    /\ disk = Nothing
    /\ snap = [t \in Thread |-> Nothing]
    /\ flushed = 0
    /\ failed = FALSE
    /\ up = TRUE
    /\ crashes = 0

-----------------------------------------------------------------------------
(* The event-loop thread.  It does nothing else while it writes the file.  *)

LoopFree == up /\ thread[Loop] = "idle" /\ version < MaxVersion

\* Timer.cancel() has no effect once the callback has started.
WithTimerCancelled ==
    IF timer \in Timer /\ thread[timer] = "armed"
    THEN [thread EXCEPT ![timer] = "idle"] ELSE thread

\* A slip of _schedule_save: a pending timer is cancelled and not replaced.
ScheduleSaveCancelOnly ==
    /\ dirty' = TRUE
    /\ \/ timer # NoTimer /\ thread' = WithTimerCancelled /\ UNCHANGED timer
       \/ /\ timer = NoTimer
          /\ \E t \in Timer : /\ thread[t] = "idle"
                              /\ timer' = t
                              /\ thread' = [thread EXCEPT ![t] = "armed"]

\* _schedule_save: cancel the pending timer and start a new one.
ScheduleSave ==
    /\ dirty' = TRUE
    /\ \E t \in Timer :
          /\ WithTimerCancelled[t] = "idle"
          /\ timer' = t
          /\ thread' = [WithTimerCancelled EXCEPT ![t] = "armed"]

\* save_tree, register_node, remove_node_mappings, remove_tree of a stored tree
\* and sync_from_tree_data.
Change ==
    /\ LoopFree
    /\ version' = version + 1
    /\ ScheduleSave
    /\ UNCHANGED <<log, ids, snap, disk, flushed, failed, up, crashes>>

\* A slip of record_message_id: trimming the log leaves the set of ids alone.
RecordStale(m) ==
    /\ LoopFree
    /\ m \notin ids
    /\ LET longer == Append(log, m)
       IN  log' = IF Len(longer) <= Cap THEN longer
                  ELSE SubSeq(longer, Len(longer) - Cap + 1, Len(longer))
    /\ ids' = ids \cup {m}
    /\ version' = version + 1
    /\ ScheduleSave
    /\ UNCHANGED <<snap, disk, flushed, failed, up, crashes>>

\* record_message_id of an id that is not in the log.  Ids that the cap pushes
\* out of the log may be recorded again.
Record(m) ==
    /\ LoopFree
    /\ m \notin ids
    /\ LET longer == Append(log, m)
           kept == SubSeq(longer, Len(longer) - Cap + 1, Len(longer))
       IN  \/ Len(longer) <= Cap /\ log' = longer /\ ids' = ids \cup {m}
           \/ Len(longer) > Cap /\ log' = kept /\ ids' = Range(kept)
    /\ version' = version + 1
    /\ ScheduleSave
    /\ UNCHANGED <<snap, disk, flushed, failed, up, crashes>>

\* A slip of _flush_save: the timer is cancelled, but the store stays dirty.
FlushSaveKeepsDirty(contents) ==
    /\ MayWrite
    /\ timer' = NoTimer
    /\ failed' = FALSE
    /\ UNCHANGED dirty
    /\ snap' = [snap EXCEPT ![Loop] = contents]
    /\ thread' = [WithTimerCancelled EXCEPT ![Loop] = "writing"]

\* _flush_save, and the start of the write that follows it.
FlushSave(contents) ==
    /\ MayWrite
    /\ timer' = NoTimer
    /\ dirty' = FALSE
    /\ failed' = FALSE
    /\ snap' = [snap EXCEPT ![Loop] = contents]
    /\ thread' = [WithTimerCancelled EXCEPT ![Loop] = "writing"]

\* flush_pending_save, at shutdown.
Flush ==
    /\ up
    /\ thread[Loop] = "idle"
    /\ FlushSave(Snapshot)
    /\ UNCHANGED <<version, log, ids, disk, flushed, up, crashes>>

\* A slip of clear_all: the message log is left out of the file.
ClearAllWithoutLog ==
    /\ LoopFree
    /\ version' = version + 1
    /\ log' = << >>
    /\ ids' = {}
    /\ FlushSave([version |-> version + 1])
    /\ UNCHANGED <<disk, flushed, up, crashes>>

\* clear_all.
ClearAll ==
    /\ LoopFree
    /\ version' = version + 1
    /\ log' = << >>
    /\ ids' = {}
    /\ FlushSave([version |-> version + 1, log |-> << >>])
    /\ UNCHANGED <<disk, flushed, up, crashes>>

-----------------------------------------------------------------------------
(* The timer threads.                                                      *)

TimerFires(t) ==
    /\ thread[t] = "armed"
    /\ thread' = [thread EXCEPT ![t] = "fired"]
    /\ UNCHANGED <<version, log, ids, dirty, timer, snap, disk, flushed, failed, up, crashes>>

\* The critical section of _save_from_timer.  It forgets whichever timer is
\* pending, its own or a newer one.
SaveFromTimer(t) ==
    /\ thread[t] = "fired"
    /\ timer' = NoTimer
    /\ \/ /\ ~dirty
          /\ thread' = [thread EXCEPT ![t] = "idle"]
          /\ UNCHANGED <<dirty, snap, failed>>
       \/ /\ dirty
          /\ MayWrite
          /\ snap' = [snap EXCEPT ![t] = Snapshot]
          /\ dirty' = FALSE
          /\ failed' = FALSE
          /\ thread' = [thread EXCEPT ![t] = "writing"]
    /\ UNCHANGED <<version, log, ids, disk, flushed, up, crashes>>

-----------------------------------------------------------------------------
(* Writing the file: a temporary file and os.replace.                      *)

WriteDone(w) ==
    /\ w \in Writers
    /\ disk' = snap[w]
    /\ flushed' = IF w = Loop THEN snap[w].version ELSE flushed
    /\ snap' = [snap EXCEPT ![w] = Nothing]
    /\ thread' = [thread EXCEPT ![w] = "idle"]
    /\ UNCHANGED <<version, log, ids, dirty, timer, failed, up, crashes>>

\* A slip: the failure is logged, but the store is not marked dirty again.
WriteFailsSilently(w) ==
    /\ w \in Writers
    /\ thread' = [thread EXCEPT ![w] = "idle"]
    /\ snap' = [snap EXCEPT ![w] = Nothing]
    /\ failed' = TRUE
    /\ UNCHANGED <<version, log, ids, dirty, timer, disk, flushed, up, crashes>>

\* The file keeps its contents, and no timer is started for a new attempt.
WriteFails(w) ==
    /\ w \in Writers
    /\ dirty' = TRUE
    /\ failed' = TRUE
    /\ snap' = [snap EXCEPT ![w] = Nothing]
    /\ thread' = [thread EXCEPT ![w] = "idle"]
    /\ UNCHANGED <<version, log, ids, timer, disk, flushed, up, crashes>>

-----------------------------------------------------------------------------
\* A slip: the file is written in place, so a crash may leave it empty.
CrashTearing ==
    /\ up
    /\ crashes < MaxCrashes
    /\ crashes' = crashes + 1
    /\ up' = FALSE
    /\ thread' = [t \in Thread |-> "idle"]
    /\ snap' = [t \in Thread |-> Nothing]
    /\ disk' = IF Writers = {} THEN disk ELSE Nothing
    /\ UNCHANGED <<version, log, ids, dirty, timer, flushed, failed>>

\* The process ends; its timers are daemon threads and end with it, in the
\* middle of a write if need be.
Crash ==
    /\ up
    /\ crashes < MaxCrashes
    /\ crashes' = crashes + 1
    /\ up' = FALSE
    /\ thread' = [t \in Thread |-> "idle"]
    /\ snap' = [t \in Thread |-> Nothing]
    /\ UNCHANGED <<version, log, ids, dirty, timer, disk, flushed, failed>>

\* A new process: __init__ and _load.
Restart ==
    /\ ~up
    /\ up' = TRUE
    /\ version' = disk.version
    /\ log' = disk.log
    /\ ids' = Range(disk.log)
    /\ dirty' = FALSE
    /\ timer' = NoTimer
    /\ failed' = FALSE
    /\ UNCHANGED <<thread, snap, disk, flushed, crashes>>

Next ==
    \/ Change \/ Flush \/ ClearAll
    \/ \E m \in Message : Record(m)
    \/ \E t \in Timer : TimerFires(t) \/ SaveFromTimer(t)
    \/ \E w \in Thread : WriteDone(w) \/ WriteFails(w)
    \/ Crash \/ Restart

Spec == Init /\ [][Next]_vars

\* Timers fire, their callbacks get the lock, and a write ends one way or the
\* other.  Nothing makes a user send a message or the process come back.
Fairness ==
    /\ \A t \in Timer : WF_vars(TimerFires(t)) /\ WF_vars(SaveFromTimer(t))
    /\ \A w \in Thread : WF_vars(WriteDone(w) \/ WriteFails(w))

FairSpec == Spec /\ Fairness

-----------------------------------------------------------------------------
(* Properties.                                                             *)

TypeOK ==
    /\ version \in Nat
    /\ log \in Seq(Message)
    /\ ids \in SUBSET Message
    /\ dirty \in BOOLEAN
    /\ timer \in Timer \cup {NoTimer}
    /\ thread \in [Thread -> Stage]
    /\ snap \in [Thread -> Contents]
    /\ disk \in Contents
    /\ flushed \in Nat
    /\ failed \in BOOLEAN
    /\ up \in BOOLEAN
    /\ crashes \in Nat

\* A store that is not dirty is on disk, or is what the write in progress is
\* putting there: no change is forgotten, whichever timers are cancelled.
NothingForgotten ==
    up /\ ~dirty => disk.version = version \/ \E w \in Writers : snap[w].version = version

\* A dirty store has a timer that will save it, unless the last write failed.
SaveScheduled == up /\ dirty /\ ~failed => \E t \in Timer : thread[t] \in {"armed", "fired"}

\* What clear_all and flush_pending_save have written is never overwritten by
\* something older, across restarts too.
FlushIsDurable == flushed <= disk.version

\* Both views of the message log agree, so that /clear can delete every message
\* the log holds and none is recorded twice.
LogSound ==
    /\ ids = Range(log)
    /\ Cardinality(ids) = Len(log)
    /\ Len(log) <= Cap

\* Every change reaches the disk, unless the process dies or a write fails
\* before, once changes pause for longer than the debounce delay.
ChangesReachDisk ==
    \A v \in 1..MaxVersion : up /\ version = v ~> disk.version >= v \/ failed \/ ~up

=============================================================================
