---------------------------- MODULE RequestRouting ----------------------------
(***************************************************************************)
(* From the model a client names to the provider that is called:           *)
(* api/model_router.py, api/gateway_model_ids.py, the model list of        *)
(* api/routes.py and ClaudeProxyService.create_message.  A name is the     *)
(* sequence of the parts between its slashes; the name of a provider's     *)
(* model may have slashes of its own.                                      *)
(***************************************************************************)
EXTENDS Naturals, FiniteSets, Sequences, SequencesExt

CONSTANTS
    Supported,   \* config/provider_ids.py: SUPPORTED_PROVIDER_IDS
    OpenAI,      \* those of them with an OpenAI chat API
    TiersIn,     \* the tiers whose names occur in a part of a name
    Configs,     \* the settings there are
    Discoveries, \* what the registry has learnt: model -> it supports thinking
    Strange      \* names that a client makes up

VARIABLES
    config,      \* the settings
    infos,       \* the registry's cached models
    shown,       \* the last list that the client got: it may be out of date
    down,        \* the providers whose circuit is open
    sent         \* the request that was just handled

routingVars == <<config, infos, shown, down, sent>>

Unset == <<>>
NoRequest == [outcome |-> "none"]
Tiers == {"opus", "sonnet", "haiku"}

RoutingInit ==
    /\ config \in Configs /\ infos \in Discoveries
    /\ shown = {} /\ down = {} /\ sent = NoRequest

------------------------------------------------------------------------------
(* Settings: the model and the thinking that a name stands for; a setting is unset or   *)
(* a sequence, of the parts of a model's name or of one truth value.                    *)

Mentions(name) == UNION {TiersIn[name[i]] : i \in DOMAIN name}

\* The first tier, in the order in which the code looks, that the name has and the
\* settings say something about.
Looked(name, said) ==
    LET tiers == SelectSeq(<<"opus", "haiku", "sonnet">>, LAMBDA t : t \in Mentions(name) /\ said[t] # Unset)
    IN IF tiers = <<>> THEN "default" ELSE tiers[1]
ResolveModel(name) == config.model[Looked(name, config.model)]
ResolveThinking(name) == config.thinking[Looked(name, config.thinking)][1]

ChatModelRefs == ({config.model[t] : t \in DOMAIN config.model} \union ToSet(config.fallbacks)) \ {Unset}

(* Names that this gateway makes up for a provider's model, so that Claude Code lists it. *)
GatewayModelId(ref) == <<"anthropic">> \o ref
NoThinkingId(ref) == <<"claude-3-freecc-no-thinking">> \o ref

\* decode_gateway_model_id, and a plain reference.
Decoded(name) ==
    CASE Len(name) >= 3 /\ name[1] = "anthropic" -> [ref |-> Tail(name), quiet |-> FALSE]
      [] Len(name) >= 3 /\ name[1] = "claude-3-freecc-no-thinking" -> [ref |-> Tail(name), quiet |-> TRUE]
      [] OTHER -> [ref |-> IF Len(name) >= 2 THEN name ELSE Unset, quiet |-> FALSE]
Direct(name) == Decoded(name).ref # Unset /\ Decoded(name).ref[1] \in Supported

\* _direct_model_thinking_name: a model that is some tier's thinks as the tier does.
ThinkingName(ref) ==
    LET tiers == SelectSeq(<<"opus", "sonnet", "haiku">>, LAMBDA t : config.model[t] = ref)
    IN IF tiers = <<>> THEN Tail(ref) ELSE <<tiers[1]>>

\* ModelRouter.resolve
Resolve(name) ==
    IF Direct(name)
    THEN LET decoded == Decoded(name)
         IN [ref |-> decoded.ref, seen |-> name,
             thinking |-> ~ decoded.quiet /\ ResolveThinking(ThinkingName(decoded.ref))]
    ELSE [ref |-> ResolveModel(name), seen |-> ResolveModel(name), thinking |-> ResolveThinking(name)]

\* _message_route_candidates: the route, then the fallbacks, each once.  What has been
\* seen is a name: a model that was asked for by one of its longer names is tried twice.
Candidates(route) ==
    LET others == SelectSeq(config.fallbacks, LAMBDA ref : ref # route.seen)
    IN <<route>> \o [i \in DOMAIN others |-> [route EXCEPT !.ref = others[i]]]

Available(ref) == ref[1] \notin down

------------------------------------------------------------------------------
(* GET /v1/models *)

Variants(ref, thinks) == {NoThinkingId(ref)} \union IF thinks = "no" THEN {} ELSE {GatewayModelId(ref)}
Support(ref) == IF ref \in DOMAIN infos THEN infos[ref] ELSE "unknown"

ListModels ==
    /\ shown' = UNION {Variants(ref, Support(ref)) : ref \in ChatModelRefs \union DOMAIN infos}
                \union {<<t>> : t \in Tiers}
    /\ sent' = NoRequest
    /\ UNCHANGED <<config, infos, down>>

(* POST /v1/messages: create_message, with the tools that the request lists or forces *)
(* and whether it is one of Claude Code's small requests that are answered at once.   *)
(* A request changes nothing here, so each is looked at until something else happens. *)

\* openai_chat_upstream_server_tool_error
ToolError(ref, tools) ==
    /\ ref[1] \in OpenAI
    /\ tools = "listed" \/ (tools \in {"forced", "forced unlisted"} /\ ~ config.webTools)

Handled(name, tools, outcome, route) ==
    /\ sent' = [outcome |-> outcome, name |-> name, tools |-> tools, ref |-> route.ref, thinking |-> route.thinking]
    /\ UNCHANGED <<config, infos, shown, down>>

CreateMessage(name, tools, small) ==
    LET route == Resolve(name)
        open == SelectSeq(Candidates(route), LAMBDA c : Available(c.ref))
    IN /\ sent = NoRequest
       /\ IF ToolError(route.ref, tools) THEN Handled(name, tools, "refused", route)
          ELSE IF tools = "forced" /\ config.webTools THEN Handled(name, tools, "web", route)
          ELSE IF small THEN Handled(name, tools, "at once", route)
          ELSE IF open = <<>> THEN Handled(name, tools, "unavailable", route)
          ELSE Handled(name, tools, "sent", open[1])

(* Around the requests. *)
Reconfigure(c) == config' = c /\ sent' = NoRequest /\ UNCHANGED <<infos, shown, down>>
Discover(d) == infos' = d /\ sent' = NoRequest /\ UNCHANGED <<config, shown, down>>
Circuit(p) == down' = SymDiff(down, {p}) /\ sent' = NoRequest /\ UNCHANGED <<config, infos, shown>>

RoutingNext ==
    \/ ListModels
    \/ \E name \in shown \union Strange, tools \in {"none", "listed", "forced", "forced unlisted"}, small \in BOOLEAN :
          CreateMessage(name, tools, small)
    \/ \E c \in Configs : Reconfigure(c)
    \/ \E d \in Discoveries : Discover(d)
    \/ \E p \in Supported : Circuit(p)

------------------------------------------------------------------------------
Quiet(name) == name[1] = "claude-3-freecc-no-thinking"

(* What was listed for a model stands for that model, even when the settings and the    *)
(* list have changed since, and for no thinking if it said so, whatever stands in for   *)
(* the model; a model of a tier thinks as the tier; what is asked for is what is called *)
(* while it can be, and nothing is turned away while one of the routes is open.         *)
RoutingSound ==
    /\ \A name \in shown : Len(name) > 1 => Resolve(name).ref = Tail(name)
    /\ \A t \in Tiers :
          (/\ config.model[t] # Unset
           /\ \A u \in Tiers \ {t} : config.model[u] # config.model[t]) =>
             Resolve(GatewayModelId(config.model[t])).thinking = Resolve(<<t>>).thinking
    /\ sent.outcome = "sent" =>
          /\ Available(sent.ref)
          /\ Available(Resolve(sent.name).ref) => sent.ref = Resolve(sent.name).ref
          /\ sent.ref # Resolve(sent.name).ref => sent.ref \in ToSet(config.fallbacks)
          /\ Quiet(sent.name) /\ Direct(sent.name) => ~ sent.thinking
          /\ sent.tools = "forced" => ~ config.webTools
    /\ sent.outcome = "unavailable" =>
          \A ref \in {Resolve(sent.name).ref} \union ToSet(config.fallbacks) : ~ Available(ref)
==============================================================================
