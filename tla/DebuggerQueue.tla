--------------------------- MODULE DebuggerQueue ---------------------------
(***************************************************************************)
(* core/debugger/trigger.py: the UserPromptSubmit hook captures the task   *)
(* that a prompt leaves behind as a file of .fcc/debugger/pending and      *)
(* injects it into the prompt; a prompt without a transition is given the  *)
(* oldest pending file; a prompt that cancels moves all of them to         *)
(* skipped/; files that cannot be read, and those older than               *)
(* QUEUE_STALE_HOURS, go to failed/.  Several hook processes may be at it. *)
(*                                                                         *)
(* A file name is <second>-<slug of the task>: in this model a task is     *)
(* captured in one second only, so that its name is the task.  The agent   *)
(* that works on a task removes its file, and holds the lock file while it *)
(* does; nothing in the code creates the lock or removes a pending file,   *)
(* so until the agent does every prompt is shown the same task again.      *)
(***************************************************************************)
EXTENDS Naturals, FiniteSets

CONSTANTS Hook, Task

VARIABLES
    place,     \* task -> the directories that hold its file
    whole,     \* task -> its text has been written in full
    old,       \* tasks whose file is older than QUEUE_STALE_HOURS
    order,     \* tasks captured so far, as a count at capture: the age of a file
    lock,      \* the lock file: none, live, or dead (no process, or timed out)
    hook,      \* hook -> its phase and the task it is about
    shown,     \* tasks that were injected into a prompt
    overtaken  \* (history) hooks about to remove a lock that was taken since they read it

queueVars == <<place, whole, old, order, lock, hook, shown, overtaken>>

Dirs == {"pending", "skipped", "failed"}
NoTask == "none"
Waiting == [phase |-> "idle", task |-> NoTask, left |-> {}]

QueueInit ==
    /\ place = [t \in Task |-> {}]
    /\ whole = [t \in Task |-> FALSE]
    /\ old = {} /\ order = [t \in Task |-> 0] /\ lock = "none"
    /\ hook = [h \in Hook |-> Waiting] /\ shown = {} /\ overtaken = {}

Pending == {t \in Task : place[t] = {"pending"}}
Captured == {t \in Task : order[t] > 0}
Become(h, phase, t, left) == hook' = [hook EXCEPT ![h] = [phase |-> phase, task |-> t, left |-> left]]

\* A rename takes the file out of pending/; one that fails is suppressed.
Moved(t, dir) == [place EXCEPT ![t] = IF @ = {"pending"} THEN {dir} ELSE @]

\* The prompt begins another task: the file of the one before is created, empty, ...
Capture(h, t) ==
    /\ hook[h].phase = "idle" /\ order[t] = 0
    /\ order' = [order EXCEPT ![t] = 1 + Cardinality(Captured)]
    /\ place' = [place EXCEPT ![t] = {"pending"}]
    /\ Become(h, "write", t, {})
    /\ UNCHANGED <<whole, old, lock, shown, overtaken>>

\* ... and then written, wherever it has been moved meanwhile.
Write(h) ==
    /\ hook[h].phase = "write"
    /\ whole' = [whole EXCEPT ![hook[h].task] = TRUE]
    /\ Become(h, "format", hook[h].task, {})
    /\ UNCHANGED <<place, old, order, lock, shown, overtaken>>

\* No transition, and files are pending: ...
SeeQueue(h) ==
    /\ hook[h].phase = "idle" /\ Pending # {}
    /\ Become(h, "lock", NoTask, {})
    /\ UNCHANGED <<place, whole, old, order, lock, shown, overtaken>>

\* ... without a lock file the hook goes on; ...
SeeLock(h) ==
    /\ hook[h].phase = "lock"
    /\ Become(h, IF lock = "none" THEN "pop" ELSE "read", NoTask, {})
    /\ UNCHANGED <<place, whole, old, order, lock, shown, overtaken>>

\* ... a live one ends the hook, one that is dead or can no longer be read ...
ReadLock(h) ==
    /\ hook[h].phase = "read"
    /\ Become(h, IF lock = "live" THEN "idle" ELSE "unlink", NoTask, {})
    /\ UNCHANGED <<place, whole, old, order, lock, shown, overtaken>>

\* ... is removed, whatever it has become since it was read.
ReleaseLock(h) ==
    /\ hook[h].phase = "unlink"
    /\ lock' = "none" /\ overtaken' = overtaken \ {h}
    /\ Become(h, "pop", NoTask, {})
    /\ UNCHANGED <<place, whole, old, order, shown>>

\* The pending files are listed once, by age; ...
ListPending(h) ==
    /\ hook[h].phase = "pop"
    /\ IF Pending = {} THEN Become(h, "idle", NoTask, {}) ELSE Become(h, "scan", NoTask, Pending)
    /\ UNCHANGED <<place, whole, old, order, lock, shown, overtaken>>

Oldest(tasks) == CHOOSE t \in tasks : \A u \in tasks : order[t] <= order[u]

\* ... stale ones are moved away until one is left.  A listed file that is gone makes
\* stat fail, which ends the hook.
PopOldest(h) ==
    /\ hook[h].phase = "scan"
    /\ LET t == Oldest(hook[h].left) IN
       IF "pending" \notin place[t]
       THEN Become(h, "idle", NoTask, {}) /\ UNCHANGED place
       ELSE IF t \in old
       THEN /\ place' = Moved(t, "failed")
            /\ IF hook[h].left = {t} THEN Become(h, "idle", NoTask, {})
               ELSE Become(h, "scan", NoTask, hook[h].left \ {t})
       ELSE Become(h, "format", t, {}) /\ UNCHANGED place
    /\ UNCHANGED <<whole, old, order, lock, shown, overtaken>>

\* The file is read: what is not there, or not written yet, is moved to failed/ and
\* reported instead.
Readable(t) == place[t] = {"pending"} /\ whole[t]

Format(h) ==
    /\ hook[h].phase = "format"
    /\ LET t == hook[h].task IN
       /\ place' = IF Readable(t) THEN place ELSE Moved(t, "failed")
       /\ shown' = IF Readable(t) THEN shown \union {t} ELSE shown
    /\ Become(h, "idle", NoTask, {})
    /\ UNCHANGED <<whole, old, order, lock, overtaken>>

\* A prompt that cancels lists the pending files and moves them, one after the other.
FlushBegins(h) ==
    /\ hook[h].phase = "idle" /\ Pending # {}
    /\ Become(h, "flush", NoTask, Pending)
    /\ UNCHANGED <<place, whole, old, order, lock, shown, overtaken>>

FlushOne(h) ==
    /\ hook[h].phase = "flush"
    /\ \E t \in hook[h].left :
          /\ place' = Moved(t, "skipped")
          /\ IF hook[h].left = {t} THEN Become(h, "idle", NoTask, {})
             ELSE Become(h, "flush", NoTask, hook[h].left \ {t})
    /\ UNCHANGED <<whole, old, order, lock, shown, overtaken>>

\* The agent's side: it locks, dies with the lock or releases it, and removes files.
AgentLocks ==
    /\ lock # "live" /\ lock' = "live"
    /\ overtaken' = {h \in Hook : hook[h].phase = "unlink"}
    /\ UNCHANGED <<place, whole, old, order, hook, shown>>
AgentDies ==
    /\ lock = "live" /\ lock' = "dead"
    /\ UNCHANGED <<place, whole, old, order, hook, shown, overtaken>>
AgentDone(t) ==
    /\ t \in shown \intersect Pending
    /\ place' = [place EXCEPT ![t] = {}]
    /\ lock' = IF lock = "live" THEN "none" ELSE lock
    /\ UNCHANGED <<whole, old, order, hook, shown, overtaken>>

\* Six hours pass over a file: the hook that wrote it has ended long before.
Ages(t) ==
    /\ t \in Pending \ old /\ \A h \in Hook : hook[h].phase = "idle"
    /\ old' = old \union {t}
    /\ UNCHANGED <<place, whole, order, lock, hook, shown, overtaken>>

QueueNext ==
    \/ \E h \in Hook : \/ \E t \in Task : Capture(h, t)
                       \/ Write(h) \/ SeeQueue(h) \/ SeeLock(h) \/ ReadLock(h) \/ ReleaseLock(h)
                       \/ ListPending(h) \/ PopOldest(h) \/ Format(h) \/ FlushBegins(h) \/ FlushOne(h)
    \/ AgentLocks \/ AgentDies
    \/ \E t \in Task : AgentDone(t) \/ Ages(t)

-----------------------------------------------------------------------------
\* However the hooks interleave, a captured task is never lost and never in two places:
\* its file is in exactly one directory until the agent that was shown it removes it.
TaskKept == \A t \in Captured : Cardinality(place[t]) = 1 \/ (place[t] = {} /\ t \in shown)

\* A hook may catch a file that another is still writing and give it up as corrupt; but
\* a task that was once injected into a prompt is given up only for its age.
ShownTasksStay == \A t \in shown : place[t] = {"failed"} => t \in old

\* _lockfile_exists: "Return True when a *live* lock exists.  Cleans up stale/dead locks".  A
\* hook that is about to remove a live lock read it before an agent took it: nothing looks
\* at the lock again between the read and the unlink.
LiveLockSpared == lock = "live" => \A h \in Hook : hook[h].phase = "unlink" => h \in overtaken

DebuggerQueueSound == TaskKept /\ ShownTasksStay /\ LiveLockSpared
=============================================================================
