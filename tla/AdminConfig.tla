----------------------------- MODULE AdminConfig -----------------------------
(***************************************************************************)
(* The admin page's configuration: api/admin_config.py, the apply handler  *)
(* of api/admin_routes.py and the settings that the server makes of the    *)
(* same files (config/settings.py).  A value comes from the highest layer  *)
(* that has the key: process, FCC_ENV_FILE, the managed file, and for the  *)
(* page alone the repository's .env and the template.  An apply writes the *)
(* managed file whole, forgets the cached settings, and puts a new         *)
(* provider registry in the place of one it has waited for; requests read  *)
(* settings and registry at two different moments.                         *)
(***************************************************************************)
EXTENDS Naturals, FiniteSets, Sequences, Functions

CONSTANTS
    Apply,        \* apply requests
    Ask,          \* requests of clients
    Layers,       \* what the layers other than the managed file may hold
    Payloads      \* what an apply may ask for: partial functions on Key

VARIABLES
    layer,     \* repo, explicit, process: partial functions on Key
    managed,   \* the managed file; without keys when there is none
    server,    \* cached settings, registry, pending fields; whether it can restart itself
    inst,      \* registry -> the settings its provider instance was made of
    writes,    \* completed writes
    apply,     \* apply -> where it is, what it asks for, the registry and fields it has seen
    ask,       \* request -> where it is, the settings it has read
    crossed    \* a request has read settings before a write and used them after it

adminVars == <<layer, managed, server, inst, writes, apply, ask, crossed>>

Key == {"WHISPER_DEVICE", "NVIDIA_NIM_API_KEY", "ANTHROPIC_AUTH_TOKEN", "HOST"}
Secret == {"NVIDIA_NIM_API_KEY", "ANTHROPIC_AUTH_TOKEN"}
Manual == {"WHISPER_DEVICE", "HOST"}   \* restart_required or session_sensitive
Token == "ANTHROPIC_AUTH_TOKEN"
Mask == "********"
Template == [k \in Key |-> CASE k = "WHISPER_DEVICE" -> "nvidia_nim" [] k = Token -> "freecc"
                             [] k = "HOST" -> "0.0.0.0" [] OTHER -> ""]
Default == [Template EXCEPT ![Token] = "", !["WHISPER_DEVICE"] = "cpu"]   \* of the Settings class
NoFile == [k \in {} |-> ""]
None == 1000
Number == 1..(1 + Cardinality(Apply))

Over(high, low) == [k \in DOMAIN low \union DOMAIN high |-> IF k \in DOMAIN high THEN high[k] ELSE low[k]]
Locked == DOMAIN layer.process \union DOMAIN layer.explicit
Locks == Over(layer.process, layer.explicit)

\* _load_value_state: what the page shows.
Shown(file) == Over(Locks, Over(file, Over(layer.repo, Template)))

\* What Settings() makes of it: no repository file, and files before the process for
\* the token.
Used(file) ==
    LET files == Over(layer.explicit, file) IN
    [Over(Locks, Over(file, Default)) EXCEPT ![Token] = IF Token \in DOMAIN files THEN files[Token] ELSE @]

\* check_nvidia_nim_api_key, the validator that looks at two fields.
Valid(v) == v["WHISPER_DEVICE"] = "nvidia_nim" => v["NVIDIA_NIM_API_KEY"] # ""

AdminInit ==
    /\ layer \in Layers
    /\ managed \in {NoFile, [k \in Key |-> IF k = "NVIDIA_NIM_API_KEY" THEN "key" ELSE Template[k]]}
    /\ server \in [cached : {None}, registry : {1}, pending : {{}}, callback : BOOLEAN]
    /\ inst = [g \in Number |-> None] /\ writes = 0 /\ crossed = FALSE
    /\ apply = [a \in Apply |-> [at |-> "new", asked |-> NoFile, old |-> 1, pending |-> {}]]
    /\ ask = [r \in Ask |-> [at |-> "new", settings |-> None]]

\* A value is written unquoted unless it has blanks and the like: single quotes around
\* it do not survive that.
Reread(v) == IF v = "'key'" THEN "key" ELSE v

\* The updates that _target_values_with_updates takes over (a slip: a mask that comes
\* back is taken for a value).
TakenMasked(asked) == [k \in DOMAIN asked \ Locked |-> asked[k]]
Taken(asked) == [k \in {k \in DOMAIN asked \ Locked : ~(k \in Secret /\ asked[k] = Mask)} |-> asked[k]]

\* What they are laid over: the managed file, or the page's own values when there is
\* none, so that a first write brings those of the repository along.
Base == IF managed # NoFile THEN Over(managed, Template)
        ELSE Over([k \in DOMAIN layer.repo \ Locked |-> layer.repo[k]], Template)

Target(asked) == Over(Taken(asked), Base)
Written(asked) == [k \in Key |-> Reread(Target(asked)[k])]

\* changed_pending_fields compares with what the page shows.
Pending(asked) == {k \in DOMAIN asked \intersect Manual : asked[k] # Shown(managed)[k]}

\* Settings are read again when they are next asked for, and the file is replaced by a
\* rename: a crash before it is a write that has not happened.  (A slip: no cache_clear.)
StillCached == server.cached
Forgotten == None

\* write_managed_env and what the handler does before it waits.
Write(a, asked) ==
    LET auto == Pending(asked) # {} /\ server.callback IN
    /\ apply[a].at = "new" /\ Valid(Over(Locks, Target(asked)))
    /\ managed' = Written(asked) /\ writes' = writes + 1
    /\ server' = [server EXCEPT !.cached = Forgotten, !.pending = IF auto THEN {} ELSE @]
    /\ apply' = [apply EXCEPT ![a] = [at |-> IF auto THEN "restart" ELSE "cleanup", asked |-> asked,
                                      old |-> server.registry, pending |-> Pending(asked)]]
    /\ crossed' = (crossed \/ \E r \in Ask : ask[r].at = "settings")
    /\ UNCHANGED <<layer, inst, ask>>

Reject(a, asked) ==
    /\ apply[a].at = "new" /\ ~Valid(Over(Locks, Target(asked)))
    /\ apply' = [apply EXCEPT ![a].at = "rejected"]
    /\ UNCHANGED <<layer, managed, server, inst, writes, ask, crossed>>

\* The old registry's cleanup has returned: a new one takes its place, whichever apply
\* gets here first, and the fields pending are those of the last to get here.
Install(a) ==
    LET g == 1 + Cardinality({b \in Apply : apply[b].at = "done"}) + 1 IN
    /\ apply[a].at = "cleanup"
    /\ inst' = [inst EXCEPT ![apply[a].old] = None]
    /\ server' = [server EXCEPT !.registry = g, !.pending = apply[a].pending]
    /\ apply' = [apply EXCEPT ![a] = [at |-> "done", asked |-> NoFile, old |-> 1, pending |-> {}]]
    /\ UNCHANGED <<layer, managed, writes, ask, crossed>>

\* The server is started again, by the callback or by its operator: nothing is under way.
Restart ==
    /\ \A a \in Apply : apply[a].at # "cleanup"
    /\ \A r \in Ask : ask[r].at # "settings"
    /\ server' = [server EXCEPT !.cached = None, !.pending = {}]
    /\ inst' = [g \in Number |-> None]
    /\ apply' = [a \in Apply |-> IF apply[a].at = "restart"
                                  THEN [at |-> "restarted", asked |-> NoFile, old |-> 1, pending |-> {}] ELSE apply[a]]
    /\ UNCHANGED <<layer, managed, writes, ask, crossed>>

\* get_settings, a dependency that runs in a thread before the request is served, ...
ReadSettings(r) ==
    LET s == IF server.cached = None THEN writes ELSE server.cached IN
    /\ ask[r].at = "new"
    /\ ask' = [ask EXCEPT ![r] = [at |-> "settings", settings |-> s]]
    /\ server' = [server EXCEPT !.cached = s]
    /\ UNCHANGED <<layer, managed, inst, writes, apply, crossed>>

\* ... and resolve_provider, which makes an instance the first time.
UseProvider(r) ==
    /\ ask[r].at = "settings"
    /\ ask' = [ask EXCEPT ![r].at = "done"]
    /\ inst' = [inst EXCEPT ![server.registry] = IF @ = None THEN ask[r].settings ELSE @]
    /\ UNCHANGED <<layer, managed, server, writes, apply, crossed>>

AdminNext ==
    \/ \E a \in Apply, asked \in Payloads : Write(a, asked) \/ Reject(a, asked)
    \/ \E a \in Apply : Install(a)
    \/ Restart
    \/ \E r \in Ask : ReadSettings(r) \/ UseProvider(r)

-----------------------------------------------------------------------------
\* An apply changes what it was asked to change, in the page and in the server, and
\* nothing else: not a secret whose mask comes back, not a key that a higher layer
\* locks.  On a managed file the server's own values are kept too (a first write brings
\* the page's values along, and a token that only the process has loses to the file).
Whole(file) == DOMAIN file = Key
Begins(a) == apply[a].at = "new" /\ apply'[a].at \in {"cleanup", "restart"}
OnlyAskedChange ==
    \A a \in Apply : Begins(a) =>
      LET asked == apply'[a].asked
          took == {k \in DOMAIN asked \ Locked : asked[k] # Mask \/ k \notin Secret}
      IN /\ \A k \in Key \ took :
               /\ Reread(Shown(managed)[k]) = Reread(Shown(managed')[k])
               /\ Whole(managed) => Used(managed)[k] = Used(managed')[k]
         /\ \A k \in took : /\ Shown(managed')[k] = Reread(asked[k])
                           /\ Used(managed')[k] = Reread(asked[k])

\* The fields an apply reports as pending are all of those it has changed that the
\* running server does not follow.
PendingReported ==
    \A a \in Apply : Begins(a) /\ Whole(managed) =>
      {k \in Manual : Used(managed)[k] # Used(managed')[k]} \subseteq apply'[a].pending

\* Once the applies are through, requests are served by the applied settings: no
\* provider made of older ones is left, if no request has read its settings before a
\* write and used them after it; and what was applied is valid.
AppliedInUse ==
    (\A a \in Apply : apply[a].at \notin {"cleanup", "restart"}) =>
       /\ ~crossed => inst[server.registry] \in {None, writes} /\ server.cached \in {None, writes}
       /\ writes > 0 => Valid(Over(Locks, managed))
=============================================================================
