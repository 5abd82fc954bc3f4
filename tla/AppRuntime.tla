------------------------------ MODULE AppRuntime ------------------------------
(***************************************************************************)
(* The life of the server with its bot: api/runtime.py (startup, shutdown, *)
(* what is restored and in which order), the lifespan of api/app.py, the   *)
(* loop that starts it again (cli/entrypoints.py), and how the platforms   *)
(* connect (messaging/platforms).  Turns arrive, run and end meanwhile;    *)
(* their trees are saved by a timer some time after each change.           *)
(***************************************************************************)
EXTENDS Naturals, FiniteSets

CONSTANTS Turn, MaxLives, MaxTries

VARIABLES
    srv,      \* where start and stop are; lives so far; whether to start again
    bot,      \* the platform: how far it is, tries, its limiter, whether it has a handler
    turn,     \* turn -> its state; known in memory
    known,    \* the turns of the current tree queue manager
    disk,     \* the sessions file: turn -> its state as last saved
    timers,   \* snapshots that timers are going to save: one per session store
    late      \* a turn has changed after the last flush of its life

runtimeVars == <<srv, bot, turn, known, disk, timers, late>>

Unknown == "new"
NoBot == [at |-> "none", kind |-> "none", tries |-> 0, limiter |-> FALSE, handler |-> FALSE]
Active == {"accepted", "running"}

RuntimeInit ==
    /\ srv = [at |-> "out", life |-> 1, again |-> FALSE, registry |-> "none", cut |-> FALSE]
    /\ bot = NoBot /\ turn = [t \in Turn |-> Unknown] /\ known = {}
    /\ disk = [t \in Turn |-> Unknown] /\ timers = {} /\ late = FALSE

Goes(at) == srv' = [srv EXCEPT !.at = at]
Stopping == {"flush", "platform", "cli", "cleanup", "limiter", "down"}
Snapshot(s) == [t \in Turn |-> IF t \in known THEN s[t] ELSE Unknown]

\* A change is saved by a timer that is set again for each; a flush or an end of the
\* process takes it away.
Changes(t, state) ==
    /\ turn' = [turn EXCEPT ![t] = state]
    /\ timers' = {s \in timers : s.life # srv.life} \union {[life |-> srv.life, saves |-> Snapshot(turn')]}
    /\ late' = (late \/ srv.at \in Stopping \ {"flush"})

------------------------------------------------------------------------------
(* startup *)

\* serve reads the settings again and runs a server; a registry is made.
Start ==
    /\ srv.at = "out" /\ srv' = [srv EXCEPT !.at = "validating", !.registry = "live", !.again = FALSE]
    /\ UNCHANGED <<bot, turn, known, disk, timers, late>>

\* The models that the configuration names are looked up: that a provider is not
\* available is only noted, and anything else that fails ends the start and the server.
Validated ==
    /\ srv.at = "validating"
    /\ \/ Goes("messaging")
       \/ srv' = [srv EXCEPT !.at = "down", !.registry = "cleaned"]
    /\ UNCHANGED <<bot, turn, known, disk, timers, late>>

\* _restore_tree_state: what the file has, with the turns that were under way as errors,
\* saved again if there were any.
Restored == {t \in Turn : disk[t] # Unknown}
Stale(s) == [t \in Turn |-> IF s[t] \in Active THEN "error" ELSE s[t]]
Restore ==
    /\ known' = Restored /\ disk' = Stale(disk)
    /\ turn' = [t \in Turn |-> IF t \in Restored THEN Stale(disk)[t] ELSE turn[t]]


\* _start_messaging_if_configured: no bot, or one with a store, a handler and restored
\* trees that starts to connect; a bot that cannot be made leaves the server without.
StartMessaging ==
    /\ srv.at = "messaging"
    /\ \/ Goes("up") /\ bot' = NoBot /\ UNCHANGED <<turn, known, disk>>
       \/ \E kind \in {"telegram", "discord"} :
             /\ Goes("connecting") /\ Restore
             /\ bot' = [at |-> "connecting", kind |-> kind, tries |-> 0, limiter |-> kind = "discord", handler |-> TRUE]
    /\ UNCHANGED <<timers, late>>

\* Telegram is tried again a few times, waiting longer each time; Discord connects in a
\* task of its own that start looks at for half a minute and then leaves running.
Connect ==
    /\ srv.at = "connecting"
    /\ \/ /\ bot.at = "connecting" /\ bot' = [bot EXCEPT !.at = "connected"] /\ UNCHANGED srv
       \/ /\ bot.at = "connected" /\ Goes("up") /\ bot' = [bot EXCEPT !.limiter = TRUE]
       \/ /\ bot.at = "connecting" /\ bot.tries + 1 < MaxTries /\ bot' = [bot EXCEPT !.tries = @ + 1] /\ UNCHANGED srv
       \/ /\ bot.at = "connecting" /\ bot.tries + 1 = MaxTries /\ Goes("up")
          /\ bot' = IF bot.kind = "discord" THEN [bot EXCEPT !.tries = MaxTries] ELSE [bot EXCEPT !.at = "failed"]
    /\ UNCHANGED <<turn, known, disk, timers, late>>

ConnectsLate ==
    /\ srv.at \in {"up"} \union (Stopping \ {"down"}) /\ bot.at = "connecting" /\ bot.kind = "discord"
    /\ bot' = [bot EXCEPT !.at = "connected"]
    /\ UNCHANGED <<srv, turn, known, disk, timers, late>>

------------------------------------------------------------------------------
(* The bot's turns, as long as the event loop runs. *)

Accept(t) ==
    /\ bot.at = "connected" /\ bot.handler /\ srv.at # "down" /\ turn[t] = Unknown
    /\ known' = known \union {t}
    /\ turn' = [turn EXCEPT ![t] = "accepted"]
    /\ timers' = {s \in timers : s.life # srv.life}
                     \union {[life |-> srv.life, saves |-> [u \in Turn |-> IF u \in known' THEN turn'[u] ELSE Unknown]]}
    /\ late' = (late \/ srv.at \in Stopping \ {"flush"})
    /\ UNCHANGED <<srv, bot, disk>>

Work(t) ==
    /\ srv.at # "down" /\ t \in known
    /\ \/ turn[t] = "accepted" /\ Changes(t, "running")
       \/ turn[t] = "running" /\ Changes(t, "completed")
    /\ UNCHANGED <<srv, bot, known, disk>>

Save(s) ==
    /\ s \in timers /\ disk' = s.saves /\ timers' = timers \ {s}
    /\ UNCHANGED <<srv, bot, turn, known, late>>

------------------------------------------------------------------------------
(* shutdown: each step has five seconds and does not fail the next. *)

\* A signal, or an administrator who has applied settings.
Shutdown(again) ==
    /\ srv.at = "up" /\ again \in BOOLEAN /\ (again => srv.life < MaxLives)
    /\ srv' = [srv EXCEPT !.at = "flush", !.again = again]
    /\ UNCHANGED <<bot, turn, known, disk, timers, late>>

\* flush_pending_save.
Flushed == IF \E s \in timers : s.life = srv.life THEN Snapshot(turn) ELSE disk
Flush ==
    /\ srv.at = "flush" /\ Goes("platform")
    /\ disk' = Flushed /\ timers' = {s \in timers : s.life # srv.life}
    /\ UNCHANGED <<bot, turn, known, late>>

\* The platform is told to stop, or does not within the time; one that is not connected
\* has nothing to stop, or fails at it.
StopPlatform ==
    /\ srv.at = "platform" /\ Goes("cli")
    /\ \/ bot' = [bot EXCEPT !.at = IF @ = "none" THEN @ ELSE "stopped"]
       \/ UNCHANGED bot
    /\ UNCHANGED <<turn, known, disk, timers, late>>

\* stop_all ends the processes of the sessions there are: their turns end as they see
\* it; a turn that is not that far starts its own afterwards.
StopCli ==
    /\ srv.at = "cli" /\ Goes("cleanup")
    /\ UNCHANGED <<bot, turn, known, disk, timers, late>>

Cleanup ==
    /\ srv.at = "cleanup"
    /\ \E registry \in {"cleaned", "live"} : srv' = [srv EXCEPT !.at = "limiter", !.registry = registry]
    /\ UNCHANGED <<bot, turn, known, disk, timers, late>>

StopLimiter ==
    /\ srv.at = "limiter" /\ Goes("down") /\ bot' = [bot EXCEPT !.limiter = FALSE]
    /\ UNCHANGED <<turn, known, disk, timers, late>>

\* The event loop ends and takes what still runs in it along; the process ends and takes
\* the timers, or the server is started again and a timer of its last life still runs.
Ends ==
    /\ srv.at = "down" /\ bot' = NoBot
    /\ turn' = [t \in Turn |-> IF turn[t] \in Active THEN "error" ELSE turn[t]]
    /\ IF srv.again
       THEN srv' = [srv EXCEPT !.at = "out", !.life = @ + 1] /\ known' = {} /\ UNCHANGED <<timers, late>>
       ELSE Goes("exited") /\ timers' = {} /\ UNCHANGED <<known, late>>
    /\ UNCHANGED disk

RuntimeNext ==
    \/ Start \/ Validated \/ StartMessaging \/ Connect \/ ConnectsLate
    \/ \E t \in Turn : Accept(t) \/ Work(t)
    \/ \E s \in timers : Save(s)
    \/ \E again \in BOOLEAN : Shutdown(again)
    \/ Flush \/ StopPlatform \/ StopCli \/ Cleanup \/ StopLimiter \/ Ends

------------------------------------------------------------------------------
(* A turn that is accepted is one that the bot knows, which a restore after the first   *)
(* message would undo.  What has ended is on disk when the process exits, and a file    *)
(* that a turn is in has it in every life, if no turn changes after the flush.          *)
RuntimeSound ==
    /\ \A t \in Turn : turn[t] \in Active => t \in known
    /\ srv.at = "exited" /\ ~late => \A t \in Turn : turn[t] = disk[t] \/ (disk[t] \in Active /\ turn[t] = "error")
===============================================================================
