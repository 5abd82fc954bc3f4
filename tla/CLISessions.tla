----------------------------- MODULE CLISessions -----------------------------
(***************************************************************************)
(* cli/manager.py and cli/session.py: the pool of CLI sessions, the CLI    *)
(* process of each, and the turns (node tasks of the message trees) that   *)
(* obtain, use and release them.                                           *)
(*                                                                         *)
(* The manager's lock and each session's _cli_lock are FIFO asyncio locks, *)
(* and both are held across awaits: remove_session and stop_all wait for a *)
(* process to die with the manager's lock held.  A session object and its  *)
(* temporary id are named by the turn that created it, and a process by    *)
(* the turn that launched it.                                              *)
(***************************************************************************)
EXTENDS Naturals, Sequences, FiniteSets

CONSTANTS
    Turn,       \* node tasks
    Parent,     \* the turn each turn replies to
    SessionId,  \* session ids the CLI may report
    NoTurn,
    NoId,
    StopAll,    \* the coroutine of stop_all_tasks
    MaxStopAll  \* bound on the calls of stop_all_tasks

ASSUME TurnAssumption ==
    /\ NoTurn \notin Turn /\ StopAll \notin Turn /\ NoId \notin SessionId
    /\ Parent \in [Turn -> Turn \cup {NoTurn}]
    /\ IsFiniteSet(Turn) /\ Cardinality(Turn) <= Cardinality(SessionId)
    /\ MaxStopAll \in Nat

VARIABLES
    turn,        \* where each turn stands
    session,     \* the session object each turn was given
    tempHeld,    \* turns whose temp_session_id is set
    captured,    \* captured_session_id of each turn
    recorded,    \* the session id in each turn's node
    report,      \* the id in the session_info event being registered
    sessions,    \* _sessions
    pending,     \* _pending_sessions
    tempToReal,  \* _temp_to_real
    realToTemp,  \* _real_to_temp
    lockQueue,   \* the manager's lock: its holder and those who wait for it
    cliQueue,    \* the _cli_lock of each session, likewise
    process,     \* CLISession.process
    alive,       \* processes that run
    signalled,   \* running processes that were told to stop
    waitFor,     \* the process whose death a stop() awaits
    cancelling,  \* turns with a cancel() that has not been delivered
    stopped,     \* turns that somebody has stopped
    stopAlls,    \* calls of stop_all_tasks so far
    freed,       \* turns whose tree was marked free by stop_all_tasks
    toStop,      \* sessions stop_all has still to stop
    stopAll,     \* where stop_all stands
    freshIds     \* does the CLI never report one id twice? (fixed for a behaviour)

stopState == <<stopped, stopAlls, freed, toStop, stopAll>>
control == <<turn, lockQueue, cliQueue, waitFor, cancelling, stopState>>
pool == <<sessions, pending, tempToReal, realToTemp>>
handles == <<session, tempHeld, captured, recorded, report>>
processes == <<process, alive, signalled>>
vars == <<control, pool, handles, processes, freshIds>>

Caller == Turn \cup {StopAll}
InStartTask == {"waitingCli", "running", "registering", "stoppingOld", "killing"}
Phase == InStartTask \cup {"idle", "acquiring", "removing", "dying", "done"}
Live(n) == turn[n] \notin {"idle", "done"}

\* The turn that its tree knows as the current task: no reply to it has begun.
Current(n) == Live(n) /\ \A m \in Turn : Parent[m] = n => turn[m] = "idle"

Init ==
    /\ turn = [n \in Turn |-> "idle"]
    /\ session = [n \in Turn |-> NoTurn]
    /\ tempHeld = {}
    /\ captured = [n \in Turn |-> NoId]
    /\ recorded = [n \in Turn |-> NoId]
    /\ report = [n \in Turn |-> NoId]
    /\ sessions = [i \in SessionId |-> NoTurn]
    /\ pending = {}
    /\ tempToReal = [n \in Turn |-> NoId]
    /\ realToTemp = [i \in SessionId |-> NoTurn]
    /\ lockQueue = << >>
    /\ cliQueue = [n \in Turn |-> << >>]
    /\ process = [n \in Turn |-> NoTurn]
    /\ alive = {}
    /\ signalled = {}
    /\ waitFor = [c \in Caller |-> NoTurn]
    /\ cancelling = {}
    /\ stopped = {}
    /\ stopAlls = 0
    /\ freed = {}
    /\ toStop = {}
    /\ stopAll = "idle"
    /\ freshIds \in BOOLEAN

Holds(c) == lockQueue # << >> /\ Head(lockQueue) = c
Release == lockQueue' = Tail(lockQueue)
HoldsCli(n) == cliQueue[session[n]] # << >> /\ Head(cliQueue[session[n]]) = n
ReleaseCli(n) == cliQueue' = [cliQueue EXCEPT ![session[n]] = Tail(@)]
Waiting(q, n) == \E i \in 2..Len(q) : q[i] = n
Cancels(n) == n \in cancelling /\ cancelling' = cancelling \ {n}

\* The queue of a lock when n, if it waits there, no longer does.
Abandoned(q, n) ==
    IF \A i \in DOMAIN q : q[i] # n THEN q
    ELSE LET k == CHOOSE i \in DOMAIN q : q[i] = n
         IN  [i \in 1..(Len(q) - 1) |-> q[IF i < k THEN i ELSE i + 1]]

\* CLISession.stop of session s, whose process is alive, called by c; the caller
\* resumes when the process in waitFor[c] is dead.  Otherwise stop() returns at once.
StopNeeded(s) == process[s] \in alive
Stops(c, s) ==
    /\ StopNeeded(s)
    /\ signalled' = signalled \cup {process[s]}
    /\ waitFor' = [waitFor EXCEPT ![c] = process[s]]
StopReturns(c) == waitFor[c] \notin alive

-----------------------------------------------------------------------------
(* get_or_create_session.                                                  *)

\* The maps without the entries of id, and of the temporary id it belonged to.
WithoutId(id) == [t \in Turn |-> IF t = realToTemp[id] THEN NoId ELSE tempToReal[t]]

Resumed(n) == IF Parent[n] = NoTurn THEN NoId ELSE recorded[Parent[n]]

\* The session object that already stands for that id.
Reusable(n) == IF Resumed(n) = NoId THEN NoTurn ELSE sessions[Resumed(n)]

Reuse(n) ==
    /\ session' = [session EXCEPT ![n] = Reusable(n)]
    /\ captured' = [captured EXCEPT ![n] = Resumed(n)]
    /\ UNCHANGED <<tempHeld, pool>>

Create(n) ==
    /\ session' = [session EXCEPT ![n] = n]
    /\ tempHeld' = tempHeld \cup {n}
    /\ pending' = pending \cup {n}
    /\ tempToReal' = IF Resumed(n) = NoId THEN tempToReal ELSE WithoutId(Resumed(n))
    /\ realToTemp' = [i \in SessionId |-> IF i = Resumed(n) THEN NoTurn ELSE realToTemp[i]]
    /\ UNCHANGED <<captured, sessions>>

GetOrCreateSession(n) ==
    /\ \/ Reusable(n) # NoTurn /\ Reuse(n)
       \/ Reusable(n) = NoTurn /\ Create(n)
    /\ turn' = [turn EXCEPT ![n] = "waitingCli"]
    /\ cliQueue' = [cliQueue EXCEPT ![session'[n]] = Append(@, n)]
    /\ UNCHANGED <<recorded, report>>

\* Replies wait for the turn they answer, unless its tree was marked free.
Begin(n) ==
    /\ turn[n] = "idle"
    /\ Parent[n] # NoTurn => turn[Parent[n]] = "done" \/ Parent[n] \in freed
    /\ \/ lockQueue = << >> /\ GetOrCreateSession(n) /\ UNCHANGED lockQueue
       \/ /\ lockQueue # << >>
          /\ turn' = [turn EXCEPT ![n] = "acquiring"]
          /\ lockQueue' = Append(lockQueue, n)
          /\ UNCHANGED <<cliQueue, pool, handles>>
    /\ UNCHANGED <<waitFor, cancelling, stopState, processes, freshIds>>

Acquire(n) ==
    /\ turn[n] = "acquiring"
    /\ Holds(n)
    /\ Release
    /\ GetOrCreateSession(n)
    /\ UNCHANGED <<waitFor, cancelling, stopState, processes, freshIds>>

-----------------------------------------------------------------------------
(* remove_session, called by the finally clause of _process_node_impl.     *)

Forgotten(id) ==
    /\ tempToReal' = WithoutId(id)
    /\ realToTemp' = [realToTemp EXCEPT ![id] = NoTurn]

\* The session object that the id the turn has in hand stands for.
Removable(n) ==
    IF n \in tempHeld THEN IF n \in pending THEN n ELSE NoTurn
    ELSE IF captured[n] = NoId THEN NoTurn ELSE sessions[captured[n]]

Popped(n) ==
    \/ n \in tempHeld /\ pending' = pending \ {n} /\ UNCHANGED sessions
    \/ /\ n \notin tempHeld
       /\ sessions' = [sessions EXCEPT ![captured[n]] = NoTurn]
       /\ UNCHANGED pending

\* The end of remove_session: the ids of an active session are forgotten.
SessionForgotten(n) ==
    \/ n \in tempHeld /\ UNCHANGED <<tempToReal, realToTemp>>
    \/ n \notin tempHeld /\ Forgotten(captured[n])

\* A slip of remove_session: a pending session is dropped, but not stopped.
MustStopActive(n) == n \notin tempHeld /\ StopNeeded(Removable(n))

MustStop(n) == StopNeeded(Removable(n))

\* With the manager's lock, for which those in rest wait.
RemoveSession(n, rest) ==
    \/ /\ Removable(n) = NoTurn
       /\ turn' = [turn EXCEPT ![n] = "done"]
       /\ lockQueue' = rest
       /\ UNCHANGED <<pool, waitFor, signalled>>
    \/ /\ Removable(n) # NoTurn
       /\ Popped(n)
       /\ \/ /\ MustStop(n)
             /\ Stops(n, Removable(n))
             /\ turn' = [turn EXCEPT ![n] = "dying"]
             /\ lockQueue' = <<n>> \o rest
             /\ UNCHANGED <<tempToReal, realToTemp>>
          \/ /\ ~MustStop(n)
             /\ turn' = [turn EXCEPT ![n] = "done"]
             /\ lockQueue' = rest
             /\ SessionForgotten(n)
             /\ UNCHANGED <<waitFor, signalled>>

\* The turn's stream is over, however it ended; q is the queue of the lock.
Leave(n, q) ==
    \/ q = << >> /\ RemoveSession(n, << >>)
    \/ /\ q # << >>
       /\ n \in tempHeld \/ captured[n] # NoId
       /\ turn' = [turn EXCEPT ![n] = "removing"]
       /\ lockQueue' = Append(q, n)
       /\ UNCHANGED <<pool, waitFor, signalled>>

LockForRemove(n) ==
    /\ turn[n] = "removing"
    /\ Holds(n)
    /\ RemoveSession(n, Tail(lockQueue))
    /\ UNCHANGED <<cliQueue, cancelling, stopState, handles, process, alive, freshIds>>

SessionRemoved(n) ==
    /\ turn[n] = "dying"
    /\ n \notin cancelling
    /\ StopReturns(n)
    /\ Release
    /\ turn' = [turn EXCEPT ![n] = "done"]
    /\ SessionForgotten(n)
    /\ UNCHANGED <<cliQueue, waitFor, cancelling, stopState, sessions, pending, handles,
                   processes, freshIds>>

-----------------------------------------------------------------------------
(* start_task.                                                             *)

Launch(n) ==
    /\ turn[n] = "waitingCli"
    /\ HoldsCli(n)
    /\ n \notin cancelling
    /\ turn' = [turn EXCEPT ![n] = "running"]
    /\ process' = [process EXCEPT ![session[n]] = n]
    /\ alive' = alive \cup {n}
    /\ UNCHANGED <<lockQueue, cliQueue, waitFor, cancelling, stopState, pool, handles,
                   signalled, freshIds>>

LaunchFails(n) ==
    /\ turn[n] = "waitingCli"
    /\ HoldsCli(n)
    /\ n \notin cancelling
    /\ ReleaseCli(n)
    /\ Leave(n, lockQueue)
    /\ UNCHANGED <<cancelling, stopState, handles, process, alive, freshIds>>

\* The process exits, by itself or because it was told to.
Dies(p) ==
    /\ p \in alive
    /\ alive' = alive \ {p}
    /\ signalled' = signalled \ {p}
    /\ UNCHANGED <<control, pool, handles, process, freshIds>>

\* The end of the stream: the "complete" event has recorded the session id.
StreamEnds(n) ==
    /\ turn[n] = "running"
    /\ n \notin cancelling
    /\ n \notin alive
    /\ ReleaseCli(n)
    /\ Leave(n, lockQueue)
    /\ recorded' = IF captured[n] = NoId THEN recorded
                   ELSE [recorded EXCEPT ![n] = captured[n]]
    /\ UNCHANGED <<cancelling, stopState, session, tempHeld, captured, report, process,
                   alive, freshIds>>

\* Nothing on stdout for stdout_idle_timeout.
IdleTimeout(n) ==
    /\ turn[n] = "running"
    /\ n \notin cancelling
    /\ Stops(n, session[n])
    /\ turn' = [turn EXCEPT ![n] = "killing"]
    /\ UNCHANGED <<lockQueue, cliQueue, cancelling, stopState, pool, handles, process,
                   alive, freshIds>>

\* A slip: the death of the process is not awaited.
KilledUnawaited(n) ==
    /\ turn[n] = "killing"
    /\ ReleaseCli(n)
    /\ Leave(n, lockQueue)
    /\ cancelling' = cancelling \ {n}
    /\ UNCHANGED <<stopState, handles, process, alive, freshIds>>

\* stop() has returned and stderr is at its end.
Killed(n) ==
    /\ turn[n] = "killing"
    /\ n \notin alive
    /\ ReleaseCli(n)
    /\ Leave(n, lockQueue)
    /\ cancelling' = cancelling \ {n}
    /\ UNCHANGED <<stopState, handles, process, alive, freshIds>>

\* A turn abandoned the stream between two events: the generator is closed, and
\* the _cli_lock freed, when its process has closed stderr.
CloseGenerator(n) ==
    /\ session[n] # NoTurn
    /\ HoldsCli(n)
    /\ turn[n] \in {"removing", "dying", "done"}
    /\ n \notin alive
    /\ ReleaseCli(n)
    /\ UNCHANGED <<turn, lockQueue, waitFor, cancelling, stopState, pool, handles,
                   processes, freshIds>>

-----------------------------------------------------------------------------
(* register_real_session_id.                                               *)

\* The ids the CLI may report: one never seen before (which one is immaterial),
\* or, if it repeats itself, one it has reported already.
Reported == {report[n] : n \in Turn} \ {NoId}
Reportable ==
    {CHOOSE id \in SessionId : id \notin Reported} \cup (IF freshIds THEN {} ELSE Reported)

\* handle_session_info_event goes on: the node records the id.
Registered(n, id) ==
    /\ turn' = [turn EXCEPT ![n] = "running"]
    /\ captured' = [captured EXCEPT ![n] = id]
    /\ recorded' = [recorded EXCEPT ![n] = id]
    /\ tempHeld' = tempHeld \ {n}

\* A slip: _real_to_temp maps the real id to itself.
NewlyMappedToItself(n, id) ==
    /\ sessions' = [sessions EXCEPT ![id] = n]
    /\ realToTemp' = [realToTemp EXCEPT ![id] = id]
    /\ pending' = pending \ {n}

NewlyMapped(n, id) ==
    /\ sessions' = [sessions EXCEPT ![id] = n]
    /\ realToTemp' = [realToTemp EXCEPT ![id] = n]
    /\ pending' = pending \ {n}

\* A slip: the maps of the overwritten session are cleaned after the new entries
\* were made, which then go instead of the old.
RemappedThenForgotten(n, id) == [tempToReal EXCEPT ![n] = NoId]

Remapped(n, id) == [WithoutId(id) EXCEPT ![n] = id]

\* The lock is released before the overwritten session is stopped.
Register(n, id) ==
    \/ /\ n \notin pending
       /\ Registered(n, id)
       /\ UNCHANGED <<pool, waitFor, signalled>>
    \/ /\ n \in pending
       /\ sessions[id] = NoTurn
       /\ NewlyMapped(n, id)
       /\ tempToReal' = [tempToReal EXCEPT ![n] = id]
       /\ Registered(n, id)
       /\ UNCHANGED <<waitFor, signalled>>
    \/ /\ n \in pending
       /\ sessions[id] # NoTurn
       /\ NewlyMapped(n, id)
       /\ tempToReal' = Remapped(n, id)
       /\ \/ /\ Stops(n, sessions[id])
             /\ turn' = [turn EXCEPT ![n] = "stoppingOld"]
             /\ UNCHANGED <<captured, recorded, tempHeld>>
          \/ /\ ~StopNeeded(sessions[id])
             /\ Registered(n, id)
             /\ UNCHANGED <<waitFor, signalled>>

\* The stream's first event with a session id, when the turn has a temporary one.
SessionInfo(n) ==
    /\ turn[n] = "running"
    /\ n \notin cancelling
    /\ n \in tempHeld
    /\ \E id \in Reportable :
          /\ report' = [report EXCEPT ![n] = id]
          /\ \/ lockQueue = << >> /\ Register(n, id) /\ UNCHANGED lockQueue
             \/ /\ lockQueue # << >>
                /\ turn' = [turn EXCEPT ![n] = "registering"]
                /\ lockQueue' = Append(lockQueue, n)
                /\ UNCHANGED <<waitFor, pool, tempHeld, captured, recorded, signalled>>
    /\ UNCHANGED <<cliQueue, cancelling, stopState, session, process, alive, freshIds>>

LockForRegister(n) ==
    /\ turn[n] = "registering"
    /\ Holds(n)
    /\ Release
    /\ Register(n, report[n])
    /\ UNCHANGED <<cliQueue, cancelling, stopState, session, report, process, alive,
                   freshIds>>

OldStopped(n) ==
    /\ turn[n] = "stoppingOld"
    /\ n \notin cancelling
    /\ StopReturns(n)
    /\ Registered(n, report[n])
    /\ UNCHANGED <<lockQueue, cliQueue, waitFor, cancelling, stopState, pool, session,
                   report, processes, freshIds>>

-----------------------------------------------------------------------------
(* Stops.                                                                  *)

\* /stop or /clear in reply to a turn whose node is not settled.
StopTurn(n) ==
    /\ Current(n)
    /\ turn[n] \in InStartTask \cup {"acquiring"}
    /\ n \notin stopped
    /\ stopped' = stopped \cup {n}
    /\ cancelling' = cancelling \cup {n}
    /\ UNCHANGED <<turn, lockQueue, cliQueue, waitFor, stopAlls, freed, toStop, stopAll,
                   pool, handles, processes, freshIds>>

\* A slip of stop_all: the stopped sessions stay in the pool.
PoolKept == UNCHANGED pool

PoolCleared ==
    /\ sessions' = [i \in SessionId |-> NoTurn]
    /\ pending' = {}
    /\ tempToReal' = [n \in Turn |-> NoId]
    /\ realToTemp' = [i \in SessionId |-> NoTurn]

\* stop_all goes through the sessions in todo up to the first whose process it
\* has to wait for, passing over others that have none; rest waits for the lock.
StopAllRuns(todo, rest) ==
    LET running == {s \in todo : StopNeeded(s)}
    IN  \/ /\ running = {}
           /\ stopAll' = "idle"
           /\ toStop' = {}
           /\ lockQueue' = rest
           /\ PoolCleared
           /\ UNCHANGED <<waitFor, signalled>>
        \/ /\ \E s \in running, passed \in SUBSET (todo \ running) :
                 toStop' = todo \ (passed \cup {s}) /\ Stops(StopAll, s)
           /\ stopAll' = "stopping"
           /\ lockQueue' = <<StopAll>> \o rest
           /\ UNCHANGED pool

AllSessions == pending \cup {sessions[i] : i \in {j \in SessionId : sessions[j] # NoTurn}}

\* stop_all_tasks: cancel the current task of every tree, then stop_all.
StopAllTasks ==
    /\ stopAll = "idle"
    /\ stopAlls < MaxStopAll
    /\ LET hit == {n \in Turn : Current(n)}
       IN  /\ cancelling' = cancelling \cup hit
           /\ stopped' = stopped \cup hit
    /\ stopAlls' = stopAlls + 1
    /\ freed' = freed \cup {n \in Turn : Live(n)}
    /\ \/ lockQueue = << >> /\ StopAllRuns(AllSessions, << >>)
       \/ /\ lockQueue # << >>
          /\ stopAll' = "waiting"
          /\ lockQueue' = Append(lockQueue, StopAll)
          /\ UNCHANGED <<waitFor, toStop, pool, signalled>>
    /\ UNCHANGED <<turn, cliQueue, handles, process, alive, freshIds>>

LockForStopAll ==
    /\ stopAll = "waiting"
    /\ Holds(StopAll)
    /\ StopAllRuns(AllSessions, Tail(lockQueue))
    /\ UNCHANGED <<turn, cliQueue, cancelling, stopped, stopAlls, freed, handles,
                   process, alive, freshIds>>

StopAllGoesOn ==
    /\ stopAll = "stopping"
    /\ StopReturns(StopAll)
    /\ StopAllRuns(toStop, Tail(lockQueue))
    /\ UNCHANGED <<turn, cliQueue, cancelling, stopped, stopAlls, freed, handles,
                   process, alive, freshIds>>

-----------------------------------------------------------------------------
(* CancelledError reaches a turn at the await it is suspended in.          *)

\* Waiting for the manager's lock, before there is a session or to release it.
CancelledAtLock(n) ==
    /\ turn[n] \in {"acquiring", "removing"}
    /\ Waiting(lockQueue, n)
    /\ Cancels(n)
    /\ lockQueue' = Abandoned(lockQueue, n)
    /\ turn' = [turn EXCEPT ![n] = "done"]
    /\ UNCHANGED <<cliQueue, waitFor, stopState, pool, handles, processes, freshIds>>

\* In start_task, waiting for _cli_lock or, with it, preparing the launch.
CancelledAtCli(n) ==
    /\ turn[n] = "waitingCli"
    /\ Cancels(n)
    /\ cliQueue' = [cliQueue EXCEPT ![session[n]] = Abandoned(@, n)]
    /\ Leave(n, lockQueue)
    /\ UNCHANGED <<stopState, handles, process, alive, freshIds>>

\* A slip: stop() asks for the _cli_lock, which start_task holds.
CancelledReadingLocked(n) ==
    /\ turn[n] = "running"
    /\ Cancels(n)
    /\ turn' = [turn EXCEPT ![n] = "killing"]
    /\ UNCHANGED <<lockQueue, cliQueue, waitFor, stopState, pool, handles, processes,
                   freshIds>>

\* Reading stdout: start_task stops the process, shielded from further cancels.
CancelledReading(n) ==
    /\ turn[n] = "running"
    /\ Cancels(n)
    /\ turn' = [turn EXCEPT ![n] = "killing"]
    /\ \/ Stops(n, session[n])
       \/ ~StopNeeded(session[n]) /\ UNCHANGED <<waitFor, signalled>>
    /\ UNCHANGED <<lockQueue, cliQueue, stopState, pool, handles, process, alive,
                   freshIds>>

\* Between two events, in register_real_session_id: nothing stops the process
\* here, and the generator stays suspended.
CancelledRegistering(n) ==
    /\ \/ turn[n] = "registering" /\ Waiting(lockQueue, n)
       \/ turn[n] = "stoppingOld"
    /\ Cancels(n)
    /\ Leave(n, Abandoned(lockQueue, n))
    /\ UNCHANGED <<cliQueue, stopState, handles, process, alive, freshIds>>

\* In remove_session, while the process dies: the maps keep the session's ids.
CancelledDying(n) ==
    /\ turn[n] = "dying"
    /\ Cancels(n)
    /\ Release
    /\ turn' = [turn EXCEPT ![n] = "done"]
    /\ UNCHANGED <<cliQueue, waitFor, stopState, pool, handles, processes, freshIds>>

-----------------------------------------------------------------------------
\* The lock was released to a waiter that has not resumed yet.  It does so in the
\* next pass of the event loop; what else happens in between could as well have
\* happened just before the release.
Woken ==
    /\ lockQueue # << >>
    /\ stopAll = "stopping" => Head(lockQueue) # StopAll
    /\ \A n \in Turn : turn[n] = "dying" => Head(lockQueue) # n

Resumes(n) == Acquire(n) \/ LockForRegister(n) \/ LockForRemove(n)

Proceeds(n) ==
    \/ Launch(n) \/ LaunchFails(n) \/ Killed(n) \/ OldStopped(n) \/ SessionRemoved(n)
    \/ CancelledAtLock(n) \/ CancelledAtCli(n) \/ CancelledReading(n)
    \/ CancelledRegistering(n) \/ CancelledDying(n)

Scheduled(n) ==
    \/ Woken /\ Resumes(n)
    \/ ~Woken /\ Proceeds(n)
StopAllProceeds ==
    \/ Woken /\ LockForStopAll
    \/ ~Woken /\ StopAllGoesOn

External(n) ==
    Begin(n) \/ SessionInfo(n) \/ StreamEnds(n) \/ IdleTimeout(n) \/ StopTurn(n)

Next ==
    \/ \E n \in Turn : Scheduled(n) \/ CloseGenerator(n) \/ Dies(n)
    \/ /\ ~Woken
       /\ StopAllTasks \/ \E n \in Turn : External(n)
    \/ StopAllProceeds

Spec == Init /\ [][Next]_vars

\* The event loop runs what is ready, and a process that was told to stop dies
\* (stop() kills it after five seconds).  Other processes may run for ever.
Fairness ==
    /\ \A n \in Turn : WF_vars(Scheduled(n)) /\ WF_vars(CloseGenerator(n))
    /\ \A n \in Turn : WF_vars(n \in signalled /\ Dies(n))
    /\ WF_vars(StopAllProceeds)

FairSpec == Spec /\ Fairness

-----------------------------------------------------------------------------
(* Properties.                                                             *)

TypeOK ==
    /\ turn \in [Turn -> Phase]
    /\ session \in [Turn -> Turn \cup {NoTurn}]
    /\ tempHeld \in SUBSET Turn
    /\ captured \in [Turn -> SessionId \cup {NoId}]
    /\ recorded \in [Turn -> SessionId \cup {NoId}]
    /\ report \in [Turn -> SessionId \cup {NoId}]
    /\ sessions \in [SessionId -> Turn \cup {NoTurn}]
    /\ pending \in SUBSET Turn
    /\ tempToReal \in [Turn -> SessionId \cup {NoId}]
    /\ realToTemp \in [SessionId -> Turn \cup {NoTurn}]
    /\ lockQueue \in Seq(Caller)
    /\ cliQueue \in [Turn -> Seq(Turn)]
    /\ process \in [Turn -> Turn \cup {NoTurn}]
    /\ alive \in SUBSET Turn
    /\ signalled \in SUBSET Turn
    /\ waitFor \in [Caller -> Turn \cup {NoTurn}]
    /\ cancelling \in SUBSET Turn
    /\ stopped \in SUBSET Turn
    /\ stopAlls \in Nat
    /\ freed \in SUBSET Turn
    /\ toStop \in SUBSET Turn
    /\ stopAll \in {"idle", "waiting", "stopping"}
    /\ freshIds \in BOOLEAN

\* A session runs one CLI process at a time, also when a reply reuses it while
\* the turn before is still being stopped: _cli_lock is held until the process
\* is dead.
OneProcessPerSession ==
    \A m, n \in alive : session[m] = session[n] => m = n

\* An active session can be found by its temporary id and by its real id, however
\* registrations, interrupted removals and stop_all interleave.
MapsSound ==
    /\ \A i \in SessionId : sessions[i] # NoTurn =>
          realToTemp[i] = sessions[i] /\ tempToReal[sessions[i]] = i
    /\ \A i \in SessionId : realToTemp[i] # NoTurn => tempToReal[realToTemp[i]] = i

\* "This kills subprocesses and ensures everything is dead": stop_all_tasks can
\* reach every process that nobody has told to stop, by cancelling the turn that
\* reads from it or through the pool, even if that turn is over.
StopReachesAll ==
    \A n \in alive \ signalled : Current(n) \/ n \in cancelling \/ session[n] \in AllSessions

\* "Claude session ID (forked from parent)": what a turn leaves for its replies to
\* fork is the conversation of its own run, not one it found in the pool.  It
\* depends on every turn's session having left the pool before a reply looks.
OwnConversation ==
    freshIds => \A n \in Turn : recorded[n] \in {NoId, report[n]}

\* Turns that are told to stop come to their end, and so does stop_all_tasks:
\* stop(), the two locks and the death of processes never wait for each other.
StopsTakeEffect ==
    []<>(stopAll = "idle" /\ \A n \in stopped : turn[n] = "done")

=============================================================================
