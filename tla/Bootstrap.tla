------------------------------ MODULE Bootstrap ------------------------------
(***************************************************************************)
(* cli/bootstrap_context.py and the autofix of cli/context_doctor.py: a    *)
(* run installs the project template, the hook scripts and the hooks of    *)
(* .claude/settings.json into a repository that has files, hooks and MCP   *)
(* servers of its own.  It refuses a repository whose hooks would clash,   *)
(* and then goes through its steps one after the other: a step that raises *)
(* ends the run with the earlier steps in place, and so does a kill.       *)
(*                                                                         *)
(* A file is absent, empty, the user's or the template's.  The hooks of an *)
(* event are a sequence of groups: fcc (today's command), old (FCC's, as   *)
(* the template or an earlier version spells it), custom (nobody's),       *)
(* rival (another known owner) or mixed (FCC's and nobody's).              *)
(***************************************************************************)
EXTENDS Naturals, Sequences, SequencesExt, QueueFilter

CONSTANTS
    Protected,   \* PROTECTED_TEMPLATE_PATHS other than the two JSON files
    Plain,       \* other template files
    Script,      \* hook and status line scripts
    HookEvent,   \* the events that FCC hooks
    Foreign,     \* events that it does not
    MaxEdits     \* bound on what the user does between runs

VARIABLES
    file,      \* path -> absent, empty, user, template
    settings,  \* .claude/settings.json: absent, broken or its hooks, env and statusLine
    home,      \* the hooks of the user's own settings file
    mcp,       \* server -> absent, user, template; or broken
    boot,      \* the run: step, options, files left to copy
    edits

bootVars == <<file, settings, home, mcp, boot, edits>>

Path == Protected \union Plain \union Script \union {"local"}
Server == {"token-savior", "claude-context"}
NoServers == [s \in Server |-> "absent"]
NoHooks == [e \in HookEvent \union Foreign |-> <<>>]
Bare == [hooks |-> NoHooks, env |-> "absent", status |-> "absent"]
Absent == [Bare EXCEPT !.env = "no file"]
Broken == [Bare EXCEPT !.env = "no JSON"]
Idle == [step |-> "idle", force |-> FALSE, large |-> FALSE, todo |-> {}]

BootInit ==
    /\ file \in [Path -> {"absent"}] /\ settings = Absent
    /\ home = NoHooks /\ mcp = NoServers
    /\ boot = Idle /\ edits = 0

AtStep(s) == boot.step = s
Goto(s) == boot' = [boot EXCEPT !.step = s]

\* The owners of an event's groups, and its groups that have none.
IsFcc(g) == g \in {"fcc", "old", "mixed"}
HasFcc(groups) == \E g \in Range(groups) : IsFcc(g)
HasUnowned(groups) == \E g \in Range(groups) : g \in {"custom", "mixed"}
HasRival(groups) == "rival" \in Range(groups)

\* guard_duplicate_hook_owners and guard_project_hook_owners.
TwoOwners(hooks) == \E e \in DOMAIN hooks : HasFcc(hooks[e]) /\ HasRival(hooks[e])
\* An event that another tool, or a hook of unknown origin, has.  (A slip: another tool.)
ClashRivalOnly == \E e \in HookEvent : HasRival(settings.hooks[e]) \/ HasRival(home[e])
Clash ==
    \E e \in HookEvent : \/ HasRival(settings.hooks[e]) \/ HasRival(home[e])
                         \/ HasUnowned(settings.hooks[e]) \/ HasUnowned(home[e])
Refused == settings = Broken \/ TwoOwners(settings.hooks) \/ TwoOwners(home) \/ Clash

Start ==
    /\ boot.step \in {"idle", "done", "failed"}
    /\ \E force, large \in BOOLEAN :
          boot' = IF Refused THEN [Idle EXCEPT !.step = "failed"]
                  ELSE [step |-> "copy", force |-> force, large |-> large,
                        todo |-> Protected \union Plain \union {".claude/settings.json", ".mcp.json"}]
    /\ UNCHANGED <<file, settings, home, mcp, edits>>

\* _copy_file: a protected file that exists stays, and so does one with content unless forced.
Copied(old, protected) ==
    IF protected /\ old # "absent" THEN old
    ELSE IF old \notin {"absent", "empty"} /\ ~boot.force THEN old ELSE "template"

AfterCopy(p, next) ==
    boot' = [boot EXCEPT !.todo = @ \ {p}, !.step = IF boot.todo = {p} THEN next ELSE @]

\* The template's settings spell the hooks without the search for the project's root.
TemplateSettings ==
    [hooks |-> [e \in HookEvent \union Foreign |-> IF e \in HookEvent THEN <<"old">> ELSE <<>>],
     env |-> "template", status |-> "old"]

CopyTemplate ==
    /\ AtStep("copy")
    /\ \E p \in boot.todo :
          /\ file' = IF p \in Path THEN [file EXCEPT ![p] = Copied(@, p \in Protected)] ELSE file
          /\ settings' = IF p = ".claude/settings.json" /\ settings = Absent THEN TemplateSettings
                         ELSE settings
          /\ mcp' = IF p = ".mcp.json" /\ mcp = NoServers
                    THEN [mcp EXCEPT !["token-savior"] = "template"] ELSE mcp
          /\ AfterCopy(p, "settings")
    /\ UNCHANGED <<home, edits>>

\* ensure_claude_settings.  _replace_fcc_hooks gives every group the template's entries,
\* then takes all groups that have become FCC's away, and adds the template's entries.
Merged(groups) == IF HasFcc(groups) THEN <<"fcc">> ELSE Append(groups, "fcc")
StatusAfter(old) == IF boot.force \/ old \in {"absent", "old", "fcc"} THEN "fcc" ELSE old
EnvAfter(old) == IF boot.force \/ old = "absent" THEN "template" ELSE old

MergeSettings ==
    /\ AtStep("settings")
    /\ settings' = [hooks |-> [e \in HookEvent \union Foreign |->
                                  IF e \in HookEvent THEN Merged(settings.hooks[e])
                                  ELSE settings.hooks[e]],
                     env |-> EnvAfter(settings.env), status |-> StatusAfter(settings.status)]
    /\ Goto("mcp")
    /\ UNCHANGED <<file, home, mcp, edits>>

\* _merge_mcp_server refuses to replace another configuration.
MergeMcp(server, step, next) ==
    /\ AtStep(step)
    /\ IF mcp[server] = "user" /\ ~boot.force
       THEN UNCHANGED mcp /\ Goto("failed")
       ELSE mcp' = [mcp EXCEPT ![server] = "template"] /\ next
    /\ UNCHANGED <<file, settings, home, edits>>

ToScripts == boot' = [boot EXCEPT !.step = "scripts", !.todo = Script]

CopyScripts ==
    /\ AtStep("scripts")
    /\ \E p \in boot.todo : file' = [file EXCEPT ![p] = Copied(@, FALSE)] /\ AfterCopy(p, "local")
    /\ UNCHANGED <<settings, home, mcp, edits>>

\* CLAUDE.local.md is created from the example once.
LocalClaude ==
    /\ AtStep("local")
    /\ file' = [file EXCEPT !["local"] = IF @ = "absent" THEN "template" ELSE @]
    /\ Goto("install")
    /\ UNCHANGED <<settings, home, mcp, edits>>

\* The optional tools are installed by a command that may fail.
Install ==
    /\ AtStep("install")
    /\ \/ Goto(IF boot.large THEN "large" ELSE "done")
       \/ Goto("failed")
    /\ UNCHANGED <<file, settings, home, mcp, edits>>

\* A run is killed between two writes, or while it rewrites the settings in place (that
\* it rewrites .mcp.json in the same way is left out).
Killed ==
    /\ boot.step \notin {"idle", "done", "failed"}
    /\ settings' \in {settings} \union (IF AtStep("settings") THEN {Broken} ELSE {})
    /\ Goto("failed")
    /\ UNCHANGED <<file, home, mcp, edits>>

Quiet == boot.step \in {"idle", "done", "failed"}

\* run_agent_runtime_doctor copies what is missing and reports the rest.
Doctor ==
    /\ Quiet
    /\ file' = [p \in Path |-> IF file[p] = "absent" /\ p # "local" THEN "template" ELSE file[p]]
    /\ UNCHANGED <<settings, home, mcp, boot, edits>>

\* Between runs the user writes, empties or deletes a file, configures a hook, a server or
\* a variable, or repairs broken settings by writing new ones.
Edited == edits < MaxEdits /\ edits' = edits + 1 /\ Quiet /\ boot' = Idle

EditFile ==
    /\ Edited
    /\ \E p \in Path, c \in {"absent", "empty", "user"} : file' = [file EXCEPT ![p] = c]
    /\ UNCHANGED <<settings, home, mcp>>

Old == IF settings \in {Absent, Broken} THEN Bare ELSE settings

EditSettings ==
    /\ Edited
    /\ \/ \E e \in HookEvent \union Foreign, g \in {"custom", "rival", "mixed", "old"} :
             settings' = [Old EXCEPT !.hooks[e] = Append(@, g)]
       \/ \E e \in HookEvent : settings' = [Old EXCEPT !.hooks[e] = <<>>]
       \/ settings' = [Old EXCEPT !.env = "user", !.status = "user"]
    /\ UNCHANGED <<file, home, mcp>>

EditHome ==
    /\ Edited
    /\ \E e \in HookEvent, g \in {"custom", "rival", "old"} : home' = [home EXCEPT ![e] = <<g>>]
    /\ UNCHANGED <<file, settings, mcp>>

EditMcp ==
    /\ Edited
    /\ \E s \in Server : mcp' = [mcp EXCEPT ![s] = "user"]
    /\ UNCHANGED <<file, settings, home>>

BootNext ==
    \/ Start \/ CopyTemplate \/ MergeSettings
    \/ MergeMcp("token-savior", "mcp", ToScripts)
    \/ CopyScripts \/ LocalClaude \/ Install
    \/ MergeMcp("claude-context", "large", Goto("done"))
    \/ Killed \/ Doctor \/ EditFile \/ EditSettings \/ EditHome \/ EditMcp

-----------------------------------------------------------------------------
\* Whatever earlier runs, failed or killed, and the user have left behind: a run that ends
\* well leaves everything FCC needs in place, each of its events hooked exactly once and
\* by it alone.
CompleteWhenDone ==
    AtStep("done") =>
       /\ \A p \in Protected \union Plain \union Script : file[p] # "absent"
       /\ mcp["token-savior"] = "template"
       /\ \A e \in HookEvent : settings.hooks[e] = <<"fcc">> /\ ~HasRival(home[e]) /\ ~HasUnowned(home[e])

\* No run takes away what the user wrote, unless it is forced to, and then not the
\* protected files and never a hook; a kill that cuts the settings short excepted.
UserGroups(hooks, e) == Without(hooks[e], {"fcc", "old"})
UserContentKept ==
    edits' = edits =>
       /\ \A p \in Path : file[p] = "user" /\ (~boot.force \/ p \in Protected \union {"local"})
             => file'[p] = "user"
       /\ settings' # Broken =>
             /\ \A e \in HookEvent \union Foreign :
                   UserGroups(settings.hooks, e) = UserGroups(settings'.hooks, e)
             /\ settings.env = "user" /\ ~boot.force => settings'.env = "user"
       /\ \A s \in Server : mcp[s] = "user" /\ ~boot.force => mcp'[s] = "user"
=============================================================================
