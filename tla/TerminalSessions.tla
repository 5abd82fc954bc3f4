-------------------------- MODULE TerminalSessions --------------------------
(***************************************************************************)
(* cli/session_registry.py, cli/session_resume.py and launch_claude of     *)
(* cli/entrypoints.py: every fcc-claude launcher heals the rows of the     *)
(* project's sessions table that claim to be active without a process,     *)
(* heals them again if it is to resume one, picks one from a list it has   *)
(* read, and takes that over or inserts its own; it then runs Claude Code  *)
(* and, when that ends, looks for the transcript and closes the row.       *)
(* Launchers share nothing but the table, every statement is a transaction *)
(* of its own, and what a launcher has read of a row may be stale when it  *)
(* comes to use it.                                                        *)
(*                                                                         *)
(* A row is named after the launcher that inserts it, the Claude Code      *)
(* process and its native session id likewise.  All launchers run in one   *)
(* directory; the choice among several candidates is the user's.           *)
(***************************************************************************)
EXTENDS Naturals, Sequences, SequencesExt

CONSTANTS
    Launcher,
    MaxMishaps   \* bound on kills, deletions and missed heartbeats

VARIABLES
    row,       \* the table: launcher -> its row, or NoRow
    alive,     \* launchers whose Claude Code process runs
    files,     \* transcripts on disk, the latest written first
    since,     \* row -> transcripts written since its started_at
    run,       \* launcher -> where launch_claude is
    asked,     \* rows that were resumed by reference
    mishaps    \* kills, deletions and missed heartbeats so far

termVars == <<row, alive, files, since, run, asked, mishaps>>

None == "none"
NoRow == [status |-> "absent", pid |-> None, fresh |-> FALSE, native |-> None, file |-> FALSE]
Rows == {r \in Launcher : row[r] # NoRow}

\* A launcher: the rows it has listed, as they were; the row it is to resume or has inserted,
\* with the conversation and whether its transcript was known when the row was read.
Fields == [phase |-> "new", seen |-> {}, row |-> None, native |-> None, file |-> FALSE]

TermInit ==
    /\ row = [r \in Launcher |-> NoRow]
    /\ alive = {} /\ files = <<>> /\ asked = {} /\ mishaps = 0
    /\ since = [r \in Launcher |-> {}]
    /\ run = [l \in Launcher |-> Fields]

Goes(l, next) == run' = [run EXCEPT ![l] = next]
Active == {r \in Rows : row[r].status = "active"}
Seen(r) == [id |-> r, pid |-> row[r].pid, fresh |-> row[r].fresh, native |-> row[r].native,
            file |-> row[r].file]

First(l) == run[l].phase \in {"new", "heal"}
AfterHeal(l, left) ==
    Goes(l, [run[l] EXCEPT !.seen = left,
                           !.phase = IF First(l) THEN IF left = {} THEN "choose" ELSE "heal"
                                     ELSE IF left = {} THEN "select" ELSE "reheal"])

\* heal_stale_active_sessions lists the active rows: launch_claude calls it, and, when a
\* session is to be resumed, choose_resume_session once more.
HealBegins(l) ==
    /\ run[l].phase \in {"new", "choose"}
    /\ AfterHeal(l, {Seen(r) : r \in Active})
    /\ UNCHANGED <<row, alive, files, since, asked, mishaps>>

\* _active_session_is_stale: the process of a listed row, else its heartbeat.  (A slip: the
\* heartbeat in any case.)
StaleByHeartbeat(s) == ~s.fresh
Stale(s) == IF s.pid # None THEN s.pid \notin alive ELSE ~s.fresh

\* mark_resumable, whatever has become of the row since it was listed.
HealOne(l) ==
    /\ run[l].phase \in {"heal", "reheal"}
    /\ \E s \in run[l].seen :
          /\ row' = IF Stale(s)
                    THEN [row EXCEPT ![s.id].status = "resumable", ![s.id].pid = None,
                                     ![s.id].fresh = TRUE]
                    ELSE row
          /\ AfterHeal(l, run[l].seen \ {s})
    /\ UNCHANGED <<alive, files, since, asked, mishaps>>

\* The launcher is to resume the row it has read as s.
Resumes(l, s) ==
    Goes(l, [phase |-> "plan", seen |-> {}, row |-> s.id, native |-> s.native, file |-> s.file])

\* A reference names any row, at once.
Resolve(l) ==
    /\ run[l].phase = "select"
    /\ \E r \in Rows : Resumes(l, Seen(r)) /\ asked' = asked \union {r}
    /\ UNCHANGED <<row, alive, files, since, mishaps>>

\* Without one the resumable rows are listed.
Resumable == {r \in Rows : row[r].status \in {"resumable", "missing_transcript"}}
List(l) ==
    /\ run[l].phase = "select" /\ Resumable # {}
    /\ Goes(l, [run[l] EXCEPT !.phase = "pick", !.seen = {Seen(r) : r \in Resumable}])
    /\ UNCHANGED <<row, alive, files, since, asked, mishaps>>

\* The only row of the list, or the one the user picks from it in the end.
Pick(l) ==
    /\ run[l].phase = "pick"
    /\ \E s \in run[l].seen : Resumes(l, s)
    /\ UNCHANGED <<row, alive, files, since, asked, mishaps>>

\* No auto-resume, nothing to resume, or the user declines when there is a choice.
StartAfresh(l) ==
    /\ \/ run[l].phase = "choose"
       \/ run[l].phase = "select" /\ Resumable = {}
       \/ run[l].phase = "pick" /\ \E s, t \in run[l].seen : s # t
    /\ Goes(l, [run[l] EXCEPT !.phase = "insert", !.seen = {}])
    /\ UNCHANGED <<row, alive, files, since, asked, mishaps>>

\* discover_latest_transcript: the exact one, or the latest of the directory.
OfDirectory(r) == {i \in DOMAIN files : files[i] \in since[r]}
Latest(r) == IF OfDirectory(r) = {} THEN None ELSE files[Min(OfDirectory(r))]
Discovered(r, native) == IF native \in Range(files) THEN native ELSE Latest(r)

\* build_resume_plan: a native resume if the transcript the row was read with, or one instead
\* that is noted, is there; else a new session that continues this one, whose transcript is
\* missed.
Plan(l) ==
    /\ run[l].phase = "plan"
    /\ LET r == run[l].row
           found == IF run[l].native = None THEN None ELSE Discovered(r, run[l].native) IN
       IF found # None
       THEN /\ row' = IF run[l].file /\ found = run[l].native THEN row
                      ELSE [row EXCEPT ![r].native = found, ![r].file = TRUE]
            /\ Goes(l, [run[l] EXCEPT !.phase = "takeover", !.native = found])
       ELSE /\ row' = [row EXCEPT ![r].status = "missing_transcript"]
            /\ Goes(l, [run[l] EXCEPT !.phase = "insert", !.native = None])
    /\ UNCHANGED <<alive, files, since, asked, mishaps>>

\* The row is active again, its process unknown and its heartbeat the old one.
TakeOver(l) ==
    /\ run[l].phase = "takeover"
    /\ row' = [row EXCEPT ![run[l].row].status = "active"]
    /\ Goes(l, [run[l] EXCEPT !.phase = "spawn"])
    /\ UNCHANGED <<alive, files, since, asked, mishaps>>

Insert(l) ==
    /\ run[l].phase = "insert"
    /\ row' = [row EXCEPT ![l] = [NoRow EXCEPT !.status = "active", !.fresh = TRUE]]
    /\ Goes(l, [run[l] EXCEPT !.phase = "spawn", !.row = l])
    /\ UNCHANGED <<alive, files, since, asked, mishaps>>

\* Popen, or its failure; set_process; and the heartbeat thread.
Spawn(l) ==
    /\ run[l].phase = "spawn"
    /\ \/ alive' = alive \union {l} /\ Goes(l, [run[l] EXCEPT !.phase = "register"])
       \/ UNCHANGED alive /\ Goes(l, [run[l] EXCEPT !.phase = "finish"])
    /\ UNCHANGED <<row, files, since, asked, mishaps>>

Register(l) ==
    /\ run[l].phase = "register"
    /\ row' = [row EXCEPT ![run[l].row].status = "active", ![run[l].row].pid = l,
                          ![run[l].row].fresh = TRUE]
    /\ Goes(l, [run[l] EXCEPT !.phase = "running"])
    /\ UNCHANGED <<alive, files, since, asked, mishaps>>

Heartbeat(l) ==
    /\ run[l].phase = "running"
    /\ row' = [row EXCEPT ![run[l].row].fresh = TRUE]
    /\ UNCHANGED <<alive, files, since, run, asked, mishaps>>

\* The process ends, or is interrupted and killed: its launcher finishes ...
Exit(l) ==
    /\ run[l].phase = "running"
    /\ alive' = alive \ {l} /\ Goes(l, [run[l] EXCEPT !.phase = "finish"])
    /\ UNCHANGED <<row, files, since, asked, mishaps>>

\* ... with the transcript it discovers: finish_terminal_session.
Closed(old, found, status) ==
    IF found = None THEN [old EXCEPT !.pid = None, !.fresh = TRUE, !.status = "missing_transcript"]
    ELSE [status |-> status, pid |-> None, fresh |-> TRUE, native |-> found, file |-> TRUE]

Finish(l) ==
    /\ run[l].phase = "finish"
    /\ \E status \in {"resumable", "failed"} :
          LET r == run[l].row IN
          row' = [row EXCEPT ![r] = Closed(row[r], Discovered(r, run[l].native), status)]
    /\ Goes(l, [run[l] EXCEPT !.phase = "done"])
    /\ UNCHANGED <<alive, files, since, asked, mishaps>>

Mishap == mishaps < MaxMishaps /\ mishaps' = mishaps + 1

\* The terminal is closed on a launcher: its process goes with it, or survives it.  One
\* that has not touched its row yet leaves nothing behind.
Killed(l) ==
    /\ run[l].phase \in {"takeover", "spawn", "register", "running", "finish"} /\ Mishap
    /\ alive' \in {alive, alive \ {l}}
    /\ Goes(l, [run[l] EXCEPT !.phase = "dead"])
    /\ UNCHANGED <<row, files, since, asked>>

OrphanEnds(l) ==
    /\ run[l].phase = "dead" /\ l \in alive
    /\ alive' = alive \ {l}
    /\ UNCHANGED <<row, files, since, run, asked, mishaps>>

\* Claude Code writes the transcript of its session: the one it resumed, or its own.
Own(l) == IF run[l].native # None THEN run[l].native ELSE l

\* The transcripts without one of them.
At(n) == CHOOSE i \in DOMAIN files : files[i] = n
Without(n) == IF n \in Range(files) THEN RemoveAt(files, At(n)) ELSE files

Writes(l) ==
    /\ l \in alive
    /\ files' = <<Own(l)>> \o Without(Own(l))
    /\ since' = [r \in Launcher |-> IF r \in Rows THEN since[r] \union {Own(l)} ELSE {}]
    /\ UNCHANGED <<row, alive, run, asked, mishaps>>

\* A transcript is deleted; SessionRegistry.doctor marks the rows that point to none.
Delete(n) ==
    /\ Mishap /\ n \in Range(files) /\ \A l \in alive : Own(l) # n
    /\ files' = Without(n)
    /\ UNCHANGED <<row, alive, since, run, asked>>

DoctorMarks(r) ==
    /\ r \in Rows /\ row[r].file /\ row[r].native \notin Range(files)
    /\ row' = [row EXCEPT ![r].status = "missing_transcript"]
    /\ UNCHANGED <<alive, files, since, run, asked, mishaps>>

\* Three minutes pass since a row's heartbeat: a launcher gets from its insert to its
\* process sooner than that.
Ages(r) ==
    /\ Mishap /\ r \in Rows /\ row[r].fresh /\ run[r].phase \notin {"spawn", "register"}
    /\ row' = [row EXCEPT ![r].fresh = FALSE]
    /\ UNCHANGED <<alive, files, since, run, asked>>

TermNext ==
    \/ \E l \in Launcher :
          \/ HealBegins(l) \/ HealOne(l) \/ StartAfresh(l) \/ Resolve(l) \/ List(l) \/ Pick(l)
          \/ Plan(l) \/ TakeOver(l) \/ Insert(l) \/ Spawn(l) \/ Register(l) \/ Heartbeat(l)
          \/ Exit(l) \/ Finish(l) \/ Killed(l) \/ OrphanEnds(l) \/ Writes(l)
    \/ \E r \in Launcher : Delete(r) \/ DoctorMarks(r) \/ Ages(r)

-----------------------------------------------------------------------------
\* However other launchers heal, choose and finish, a session that was started afresh is
\* left alone while its process runs: its row stays active and names that process, unless
\* somebody resumes it by reference.
NewSessionsLeftAlone ==
    \A l \in Launcher :
       run[l].phase = "running" /\ run[l].row = l /\ l \notin asked
          => row[l].status = "active" /\ row[l].pid = l

\* Nobody resumes a session whose launcher is still at work, unless by reference, or it was
\* taken over from an earlier launcher: however old the list it was picked from.
NothingRunningResumed ==
    \A l \in Launcher :
       run[l].phase \in {"plan", "takeover"} /\ run[l].row \notin asked
          => LET m == run[l].row IN run[m].row = m => run[m].phase \notin {"spawn", "register", "running"}

\* A native resume ends with the conversation it resumed, whatever other transcripts
\* have been written meanwhile; and a session gets its own when no other was written.
FinishesWithItsOwn ==
    \A l \in Launcher :
       run[l].phase = "finish" /\ run'[l].phase = "done" =>
          LET r == run[l].row IN
          /\ run[l].native \in Range(files) => row'[r].native = run[l].native
          /\ run[l].native = None /\ since[r] = {l} /\ l \in Range(files)
                => row'[r].native = l

TerminalSessionsSound == NewSessionsLeftAlone /\ NothingRunningResumed
=============================================================================
