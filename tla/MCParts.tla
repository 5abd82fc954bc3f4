------------------------------- MODULE MCParts -------------------------------
(***************************************************************************)
(* The parts of the system that share no state with one another, for TLC.  *)
(* A behaviour is one part's; `part` says whose, and the variables of the  *)
(* others keep their first value.  The names that two modules give to      *)
(* variables of theirs are told apart here.                                *)
(***************************************************************************)
EXTENDS ProviderRegistry, SideParts, TLC

CONSTANTS
    Parts,                                                   \* those that are looked at
    Tool, Chunks, MaxChunks, Up, MaxEvents, Orderly, Index, Kind, Deltaless,  \* streams of events
    Char, MaxText, Piece, MaxPieces, MaxPending,             \* parsers
    MaxMessages, MaxCalls, Shapes,                           \* conversion
    MaxTalk, AssistantSays, UserSays,                        \* native requests
    Supported, OpenAI, TiersIn, Configs, Discoveries, Strange,   \* routing
    Apply, Ask, Layers, Payloads,                            \* settings
    MaxSaid, MaxTools, Indexes, Limit, TextTail, Modes,      \* transcripts
    MaxChat, MaxCommands                                     \* chats

VARIABLES
    part,
    transport, phase, outbox, view, thinkingOn, blocks, received, chunkCount,
    policy, upstream, eventCount,
    fed, chunk, buffer, inThink, parsed,
    given, incoming, parser, passed, calls,
    result, deferred, heard,
    talk, options,
    config, infos, shown, down, sent,
    layer, managed, server, inst, writes, apply, ask, crossed,
    tr, ui, cli,
    at, above, repo, tree, state, turnRun, blind, cancelling, stored, command, lives, commands, astray

Assembly == INSTANCE StreamAssembly
Native == INSTANCE NativeStream
Tags == INSTANCE ThinkTags
Tools == INSTANCE HeuristicTools
Conversion == INSTANCE MessageConversion
Body == INSTANCE NativeRequest
Routing == INSTANCE RequestRouting
Admin == INSTANCE AdminConfig
Screen == INSTANCE Transcript WITH MaxChunks <- MaxSaid
Bot == INSTANCE Conversations WITH MaxMessages <- MaxChat, run <- turnRun

ASSUME OrderlyAssumption == Orderly \in BOOLEAN

\* The routes drop what is asked for keys that the page does not have.
ASSUME AdminAssumption == IsFiniteSet(Apply) /\ \A p \in Payloads : DOMAIN p \subseteq Admin!Key

------------------------------------------------------------------------------
(* The variables of the parts. *)
messages == <<transport, phase, outbox, view, thinkingOn>>
assembly == <<blocks, received, chunkCount>>
native == <<policy, upstream, eventCount>>
tags == <<fed, chunk, buffer, inThink, parsed>>
tools == <<given, incoming, parser, passed, calls>>
conversion == <<result, deferred, heard>>
bodies == <<talk, options>>
routing == <<config, infos, shown, down, sent>>
admin == <<layer, managed, server, inst, writes, apply, ask, crossed>>
transcript == <<tr, ui, cli>>
conversations == <<at, above, repo, tree, state, turnRun, blind, cancelling, stored, command, lives,
                   commands, astray>>

vars == <<part, regVars, messages, assembly, native, tags, tools, conversion, bodies, routing, admin,
          transcript, conversations, voice, chatCalls, runtime, terminals, bootstrap, walks, loads, memory, debugger>>

\* A part that begins in several ways has one beginning, or no state, when it is not looked at.
Init ==
    /\ part \in Parts
    /\ RegInit /\ Assembly!AssemblyInit /\ Native!NativeInit /\ Tags!TagInit /\ Tools!ToolInit
    /\ Bot!ConvInit /\ Voice!VoiceInit /\ Runtime!RuntimeInit /\ Terminals!TermInit /\ Boot!BootInit
    /\ Load!GraphInit /\ Debugger!QueueInit
    /\ Assembly!StreamInit({"openai", "native", "openrouter"})
    /\ part # "streams" => transport = "openai" /\ thinkingOn
    /\ IF part = "conversion" THEN Conversion!ConvertInit ELSE result = 0 /\ deferred = 0 /\ heard = 0
    /\ IF part = "bodies" THEN Body!RequestInit ELSE talk = 0 /\ options = 0
    /\ IF part = "routing" THEN Routing!RoutingInit
       ELSE config = 0 /\ infos = 0 /\ shown = 0 /\ down = 0 /\ sent = 0
    /\ Admin!AdminInit
    /\ part # "admin" => layer = (CHOOSE l \in Layers : TRUE) /\ managed = Admin!NoFile /\ server.callback
    /\ IF part = "transcript" THEN Screen!TranscriptInit ELSE tr = 0 /\ ui = 0 /\ cli = 0
    /\ IF part = "chat calls" THEN Chat!CallInit ELSE call = 0 /\ service = 0
    /\ IF part = "walks" THEN Walk!WalkInit ELSE graph = 0 /\ walk = 0
    /\ Memory!HandoffInit
    /\ part # "memory" => facts = <<>>

\* The third terminal begins, if nothing mishaps, when the others run or have ended and
\* resumes nothing; or when the first has ended.
ThirdIsPlain ==
    run["t3"].phase # "new" =>
       /\ mishaps = 0
       /\ \/ run["t1"].phase = "done"
          \/ /\ run["t3"].phase \notin {"reheal", "select", "pick", "plan", "takeover"}
             /\ \A l \in Launcher \ {"t3"} : run[l].phase \in {"running", "finish", "done"}

\* The third message of a chat replies to the second, before any restart.
ThirdReplies ==
    /\ at[3] # "new" => lives = 1 /\ \A m \in 1..2 : at[m] = "kept"
    /\ at[3] \in {"sending", "kept"} => above[3] = 2

\* One part's step; the others keep what they have.
Next ==
    /\ UNCHANGED part
    /\ IF part = "registry" THEN RegNext ELSE UNCHANGED regVars
    /\ IF part = "streams"
       THEN \/ Assembly!AssemblyStep /\ UNCHANGED native
            \/ Native!NativeStep /\ UNCHANGED assembly
            \/ (Assembly!Yield \/ Assembly!Return \/ Assembly!Disconnect) /\ UNCHANGED <<assembly, native>>
       ELSE UNCHANGED <<messages, assembly, native>>
    /\ IF part = "tags" THEN Tags!TagNext ELSE UNCHANGED tags
    /\ IF part = "tools" THEN Tools!ToolNext ELSE UNCHANGED tools
    /\ IF part = "conversion" THEN Conversion!ConvertNext ELSE UNCHANGED conversion
    /\ IF part = "bodies" THEN Body!RequestNext ELSE UNCHANGED bodies
    /\ IF part = "routing" THEN Routing!RoutingNext ELSE UNCHANGED routing
    /\ IF part = "admin" THEN Admin!AdminNext ELSE UNCHANGED admin
    /\ IF part = "transcript" THEN Screen!TranscriptNext ELSE UNCHANGED transcript
    /\ IF part = "conversations" THEN Bot!ConvNext /\ ThirdReplies' ELSE UNCHANGED conversations
    /\ IF part = "voice" THEN Voice!VoiceNext ELSE UNCHANGED voice
    /\ IF part = "chat calls" THEN Chat!CallNext ELSE UNCHANGED chatCalls
    /\ IF part = "runtime" THEN Runtime!RuntimeNext ELSE UNCHANGED runtime
    /\ IF part = "terminals" THEN Terminals!TermNext /\ ThirdIsPlain' ELSE UNCHANGED terminals
    /\ IF part = "bootstrap" THEN Boot!BootNext ELSE UNCHANGED bootstrap
    /\ IF part = "walks" THEN Walk!WalkNext ELSE UNCHANGED walks
    /\ IF part = "loads" THEN Load!GraphNext ELSE UNCHANGED loads
    /\ IF part = "memory" THEN Memory!HandoffNext ELSE UNCHANGED memory
    /\ IF part = "debugger" THEN Debugger!QueueNext ELSE UNCHANGED debugger

Spec == Init /\ [][Next]_vars

------------------------------------------------------------------------------
(* What the parts are given. *)
MCRoute == <<"a", "b">>

ToolCall(i, n, a) == [index |-> i, name |-> n, args |-> a]
Delta(r, p, c) == [reasoning |-> r, parts |-> p, calls |-> c]
MCChunks ==
    {Delta(TRUE, <<>>, <<>>), Delta(FALSE, <<"text">>, <<>>), Delta(TRUE, <<"thinking", "text">>, <<>>),
     Delta(FALSE, <<"tool">>, <<>>), Delta(FALSE, <<>>, <<ToolCall(1, <<>>, <<"last">>)>>),
     Delta(FALSE, <<"text">>, <<ToolCall(-1, <<"plain">>, <<"last">>)>>)}
    \union {Delta(FALSE, <<>>, <<ToolCall(0, n, a)>>) :
               n \in {<<>>, <<"Ta">>, <<"sk">>, <<"Ta", "sk">>, <<"aliased">>},
               a \in {<<>>, <<"more">>, <<"last">>}}
    \union {Delta(FALSE, <<>>, <<ToolCall(0, <<>>, <<"more">>), ToolCall(1, <<"plain">>, a)>>) :
               a \in {<<"more">>, <<"last">>}}

MCShapes == {<<"text">>, <<"thinking", "text">>, <<"redacted_thinking">>, <<"tool_use">>,
             <<"tool_use", "tool_use">>, <<"tool_use", "text">>, <<"text", "tool_use", "text">>,
             <<"thinking", "tool_use", "redacted_thinking", "text", "tool_use", "thinking">>}

MCAssistantSays == {<<"unsigned", "text">>, <<"signed", "tool_use">>, <<"unsigned", "text", "tool_use">>,
                    <<"redacted", "tool_use">>, <<"empty", "tool_use">>, <<"signed", "empty", "tool_use">>}
MCUserSays == {<<"text">>, <<"image">>, <<"result", "image result", "text">>, <<"server", "result">>}

\* Three models of three providers; the local one's name holds two tiers.
Glm == <<"nim", "glm">>
Sonnet == <<"router", "anthropic", "sonnet">>
Mixed == <<"local", "haiku opus">>
MCTiersIn ==
    [p \in {"nim", "glm", "router", "anthropic", "local", "claude", "gone", "sonnet", "opus", "haiku",
            "haiku opus", "claude-3-freecc-no-thinking"} |->
        IF p = "haiku opus" THEN {"haiku", "opus"} ELSE {p} \intersect {"opus", "sonnet", "haiku"}]
PerTier(default, opus, sonnet, haiku) ==
    [default |-> default, opus |-> opus, sonnet |-> sonnet, haiku |-> haiku]
MCConfigs == {
    [model |-> PerTier(Glm, Sonnet, <<>>, <<>>), thinking |-> PerTier(<<TRUE>>, <<>>, <<FALSE>>, <<>>),
     fallbacks |-> <<Sonnet>>, webTools |-> TRUE],
    [model |-> PerTier(Glm, Sonnet, Mixed, Glm),
     thinking |-> PerTier(<<FALSE>>, <<TRUE>>, <<FALSE>>, <<TRUE>>),
     fallbacks |-> <<Mixed, Glm>>, webTools |-> FALSE],
    [model |-> PerTier(Mixed, <<>>, <<>>, Sonnet), thinking |-> PerTier(<<TRUE>>, <<FALSE>>, <<>>, <<>>),
     fallbacks |-> <<>>, webTools |-> TRUE]}
MCDiscoveries == {<<>>, Sonnet :> "no" @@ <<"local", "glm">> :> "yes"}
MCStrange == {Sonnet, <<"anthropic", "gone", "haiku">>, <<"claude-3-freecc-no-thinking", "gone", "opus">>,
              <<"claude">>}

Device == "WHISPER_DEVICE"
Key == "NVIDIA_NIM_API_KEY"
Token == "ANTHROPIC_AUTH_TOKEN"
Mask == "********"
MCPayloads == {Device :> "cpu", Device :> "nvidia_nim", Key :> "", Key :> "'key'", Key :> Mask,
               Token :> "t", "HOST" :> "local", Device :> "cpu" @@ Key :> Mask,
               Token :> "t" @@ "HOST" :> "local"}
MCLayers ==
    LET Files(r, e, p) == [repo |-> r, explicit |-> e, process |-> p]
    IN  {Files(<<>>, <<>>, <<>>),
         Files("HOST" :> "repo" @@ Key :> "'key'", <<>>, <<>>),
         Files(<<>>, "HOST" :> "fixed", Token :> "shell")}

MCModes == [form : {"named", "unnamed"}, stream : {TRUE}]
           \union [form : {"suffixed", "result named"}, stream : {FALSE}]

MCArc == {<<"a", "b">>, <<"b", "c">>, <<"c", "d">>, <<"a", "d">>, <<"d", "b">>, <<"c", "c">>}
MCStarts == {{"a"}, {"b", "d"}}
MCGraphs == <<[nodes |-> {1, 2}, edges |-> {<<1, 2>>}, bad |-> FALSE],
              [nodes |-> {2, 3}, edges |-> {<<3, 2>>}, bad |-> TRUE],
              [nodes |-> {2, 3}, edges |-> {<<2, 3>>, <<3, 3>>}, bad |-> FALSE]>>

------------------------------------------------------------------------------
(* What is checked of the part that is looked at.                            *)

\* Whatever an OpenAI-compatible provider sends, whatever an orderly native one sends, and
\* wherever either breaks off, each event a client gets is legal after those before it:
\* blocks are started once, fit their deltas, are stopped.
RefinesMessageStream == Assembly!RefinesMessageStream

\* A stream that ends, well or with an error, is complete for its client, and the
\* arguments of every tool call it started have arrived (openai_compat, native_sse_block_policy).
StreamsComplete == part = "streams" => Assembly!AssemblyComplete /\ Native!NativeComplete

\* However the text of a model is cut into chunks, the parsers of <think> tags and of tool
\* calls written as text find what is there once, in order, and hold nothing back.
ParsersSound ==
    /\ part = "tags" => Tags!CutsDoNotMatter
    /\ part = "tools" => Tools!CallsFound

\* A request goes to the model it names or that stands in for it.  Converted, the
\* conversation says all that it said, with the reasoning of each message; once, and with
\* each call followed by its results, if each result is an open call's; in order if also it
\* did not go on without results.  A result that no open call waits for may repeat what was
\* put off, and nothing else.  Rebuilt for a native provider, it keeps its texts, calls and
\* results and the policy on thinking.
RequestsSound ==
    /\ part = "conversion" => Conversion!ConversionSound
    /\ part = "bodies" => Body!RequestSound
    /\ part = "routing" => Routing!RoutingSound

\* A provider is kept from requests only after Threshold failures, models are offered of
\* providers that are there, and what was applied in the admin page is what is in use.
ProxyStateSound ==
    /\ part = "registry" => RegistrySound
    /\ part = "admin" => Admin!AppliedInUse

\* An open circuit is closed by time or success only; an apply changes the keys it was
\* asked to change and no others, and says which wait for a restart.  Values are compared
\* as they are read back: quotes around a value, which do not survive a write, may go.
ProxySteps ==
    [][/\ part = "registry" => CircuitHolds
       /\ part = "admin" => Admin!OnlyAskedChange /\ Admin!PendingReported]_vars

\* What is said in a chat is in its transcript in order and on its screen in the end; what is
\* stored of conversations follows them, and what was cleared does not come back.
ChatSound ==
    /\ part = "transcript" => Screen!TranscriptSound /\ Screen!ScreenSound
    /\ part = "conversations" => Bot!ConversationsSound

\* Beside the proxy: a voice note of which /clear says that it is cancelled is no turn, a
\* platform's call that returns was carried out, its retries bounded, and no turn is forgotten
\* across a restart that had ended before the flush; a terminal session that runs is not resumed
\* by another terminal, a bootstrap that ends well is complete, readers of the code graph see
\* whole graphs and its walks are right, no debugger task is lost, or given up as corrupt
\* once it was shown, and no lock of it is removed that was live when it was read.
SidePartsSound ==
    /\ part = "voice" => Voice!VoiceNotesSound
    /\ part = "chat calls" => Chat!CallsSettle
    /\ part = "runtime" => Runtime!RuntimeSound
    /\ part = "terminals" => Terminals!TerminalSessionsSound
    /\ part = "bootstrap" => Boot!CompleteWhenDone
    /\ part = "loads" => Load!GraphLoadSound
    /\ part = "walks" => Walk!WalksRight
    /\ part = "debugger" => Debugger!DebuggerQueueSound



\* A terminal session ends with its own conversation, no bootstrap takes away what a user
\* wrote, a load that is alone leaves its graph, and no decision leaves the handoff.
SidePartsSteps ==
    [][/\ part = "terminals" => Terminals!FinishesWithItsOwn
       /\ part = "bootstrap" => Boot!UserContentKept
       /\ part = "loads" => Load!LoneLoadIsRight
       /\ part = "memory" => Memory!HandoffKept]_vars

==============================================================================
