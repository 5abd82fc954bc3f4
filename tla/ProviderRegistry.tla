-------------------------- MODULE ProviderRegistry --------------------------
(***************************************************************************)
(* providers/registry.py and health.py with those who use them: messages   *)
(* requests (api/routes.py, api/services.py), refreshes of the model lists *)
(* and provider tests, configuration changes that clean the registry up    *)
(* and put a new one in its place (api/admin_routes.py), and shutdown,     *)
(* which cleans up the registry of start-up (api/runtime.py).              *)
(*                                                                         *)
(* A request picks up its registry in a thread of the server's pool before *)
(* its handler runs.  Registries are numbered in the order in which they   *)
(* are installed.                                                          *)
(***************************************************************************)
EXTENDS Integers, Sequences, FiniteSets

CONSTANTS
    Provider,
    Keyless,       \* those whose credential is not configured
    Route,         \* the provider a request asks for, then its fallbacks
    Request,
    Refresh,       \* model refreshes and provider tests of the admin page
    Change,        \* configuration changes
    Threshold,     \* PROVIDER_CIRCUIT_FAILURE_THRESHOLD
    Cooldown       \* PROVIDER_CIRCUIT_COOLDOWN_SECONDS, in ticks

ASSUME RegistryAssumption ==
    /\ Keyless \subseteq Provider /\ Route \in Seq(Provider)
    /\ IsFiniteSet(Change)
    /\ Threshold \in Nat \ {0} /\ Cooldown \in Nat \ {0}

VARIABLES
    current,    \* the number of app.state.provider_registry
    registry,   \* the registries
    request,    \* each request: where it stands, its registry, its provider
    refresh,    \* each refresh: where it stands, its registry, the providers asked
    cleaning,   \* each cleanup: where it stands, its registry, what is left to clean up
    streak      \* requests of each provider that have failed one after the other

regVars == <<current, registry, request, refresh, cleaning, streak>>

Closed == -1            \* circuit_open_until is None
Warmup == "warmup"      \* the refresh that start-up begins
Shutdown == "shutdown"  \* the cleanup at the end
Refreshing == Refresh \union {Warmup}
Cleaning == Change \union {Shutdown}
Number == 1..(1 + Cardinality(Change))

\* Failures are counted up to the threshold; a circuit is the ticks until it may close.
Empty == [cached |-> {}, listed |-> {}, failures |-> [p \in Provider |-> 0],
          circuit |-> [p \in Provider |-> Closed]]

RegInit ==
    /\ current = 1 /\ registry = [g \in Number |-> Empty]
    /\ request = [r \in Request |-> [at |-> "new", in |-> 1, to |-> "none"]]
    /\ refresh = [j \in Refreshing |-> [at |-> "new", in |-> 1, asked |-> {}]]
    /\ cleaning = [c \in Cleaning |-> [at |-> "new", in |-> 1, left |-> {}, failed |-> FALSE]]
    /\ streak = [p \in Provider |-> 0]

\* get()
Made(R, ps) == [R EXCEPT !.cached = @ \union (ps \ Keyless)]

\* record_provider_success
RecordSuccess(R, p) == [R EXCEPT !.failures[p] = 0, !.circuit[p] = Closed]

\* record_provider_failure
RecordFailure(R, p) ==
    IF R.failures[p] + 1 < Threshold THEN [R EXCEPT !.failures[p] = @ + 1]
    ELSE [R EXCEPT !.failures[p] = Threshold, !.circuit[p] = Cooldown]

\* is_available, asked of each in turn: a circuit that has cooled down is closed, but
\* the failures stay counted.
Available(R, p) == R.circuit[p] <= 0
Looked(R, ps) == [R EXCEPT !.circuit = [p \in Provider |->
                      IF p \in ps /\ @[p] = 0 THEN Closed ELSE @[p]]]

\* What the results of a gather do, in any order: each is of another provider.
Listed(R, asked, answered) ==
    LET Result(p) == IF p \in answered THEN RecordSuccess(R, p)
                     ELSE IF p \in asked THEN RecordFailure(R, p) ELSE R
    IN [R EXCEPT !.listed = @ \union answered,
                 !.failures = [p \in Provider |-> Result(p).failures[p]],
                 !.circuit = [p \in Provider |-> Result(p).circuit[p]]]

-----------------------------------------------------------------------------
(* Requests.                                                               *)

\* get_proxy_service
Arrive(r) ==
    /\ request[r].at = "new"
    /\ request' = [request EXCEPT ![r].at = "arrived", ![r].in = current]
    /\ UNCHANGED <<current, registry, refresh, cleaning, streak>>

Over(r) == request' = [request EXCEPT ![r] = [at |-> "over", in |-> 1, to |-> "none"]]

\* The first candidate whose circuit lets it through, 0 if there is none.
FirstAvailable(R, chosen) ==
    /\ \A i \in 1..Len(Route) : chosen = 0 \/ i < chosen => ~Available(R, Route[i])
    /\ chosen # 0 => Available(R, Route[chosen])

\* create_message: a candidate is found by the request's registry and taken from the
\* current one; preflight_stream may still find it unfit.
Serve(r) == \E chosen \in 0..Len(Route) :
    LET g == request[r].in
        p == Route[chosen]
        servable == chosen # 0 /\ p \notin Keyless
        asked == {Route[i] : i \in 1..(IF chosen = 0 THEN Len(Route) ELSE chosen)}
        looked == [registry EXCEPT ![g] = Looked(@, asked)]
        made == [looked EXCEPT ![current] = Made(@, {p})]
    IN  /\ request[r].at = "arrived"
        /\ FirstAvailable(registry[g], chosen)
        /\ \/ /\ ~servable
              /\ Over(r) /\ registry' = looked
           \/ /\ servable
              /\ request' = [request EXCEPT ![r].at = "streaming", ![r].to = p]
              /\ registry' = made
           \/ /\ servable
              /\ Over(r)
              /\ registry' = [made EXCEPT ![g] = RecordFailure(@, p)]
        /\ UNCHANGED <<current, refresh, cleaning, streak>>

StreamOver(r) ==
    /\ request[r].at = "streaming" /\ Over(r)
    /\ UNCHANGED <<current, refresh, cleaning>>

\* _stream_with_provider_health: nothing in the stream says that something went wrong.
Report(r) == registry' = [registry EXCEPT ![request[r].in] = RecordSuccess(@, request[r].to)]

StreamServed(r) ==
    /\ StreamOver(r) /\ Report(r)
    /\ streak' = [streak EXCEPT ![request[r].to] = 0]

Failing(r) ==
    streak' = [streak EXCEPT ![request[r].to] = IF @ < Threshold THEN @ + 1 ELSE @]

\* The transport has told the client in a text block what went wrong (StreamAssembly,
\* NativeStream): for the health of the provider all went well.
StreamApologizes(r) == StreamOver(r) /\ Report(r) /\ Failing(r)

\* The stream raises, or has an error event in it.
StreamBreaks(r) ==
    /\ StreamOver(r) /\ Failing(r)
    /\ registry' = [registry EXCEPT ![request[r].in] = RecordFailure(@, request[r].to)]

\* The client leaves: nothing is reported.
StreamLeft(r) == StreamOver(r) /\ UNCHANGED <<registry, streak>>

-----------------------------------------------------------------------------
(* Model lists.                                                            *)

RefreshBecomes(j, at, g, ps) ==
    refresh' = [refresh EXCEPT ![j] = [at |-> at, in |-> g, asked |-> ps]]

\* start_model_list_refresh at start-up, refresh_model_list_cache later on: providers
\* with a credential, the former only those not listed.
AskAll(j, ps) ==
    /\ refresh[j].at = "new" /\ ps # {}
    /\ RefreshBecomes(j, "asking", current, ps)
    /\ registry' = [registry EXCEPT ![current] = Made(@, ps)]
    /\ UNCHANGED <<current, request, cleaning, streak>>

StartWarmup ==
    /\ current = 1 /\ \A r \in Request : request[r].at = "new"
    /\ AskAll(Warmup, Provider \ Keyless)

StartRefresh(j) == AskAll(j, Provider \ Keyless)

\* test_provider
Test(j, p) == p \notin Keyless /\ AskAll(j, {p})

TestKeyless(j, p) ==
    /\ refresh[j].at = "new" /\ p \in Keyless
    /\ RefreshBecomes(j, "done", 1, {})
    /\ registry' = [registry EXCEPT ![current] = RecordFailure(@, p)]
    /\ UNCHANGED <<current, request, cleaning, streak>>

\* All have answered, some with an error.
Answered(j) ==
    LET g == refresh[j].in IN
    /\ refresh[j].at = "asking"
    /\ RefreshBecomes(j, "done", 1, {})
    /\ \E answered \in SUBSET refresh[j].asked :
          registry' = [registry EXCEPT ![g] = Listed(@, refresh[j].asked, answered)]
    /\ UNCHANGED <<current, request, cleaning, streak>>

-----------------------------------------------------------------------------
(* Cleanups.                                                               *)

CleaningBecomes(c, at, g, ps, failed) ==
    cleaning' = [cleaning EXCEPT ![c] = [at |-> at, in |-> g, left |-> ps, failed |-> failed]]

\* A configuration change cleans up the current registry, shutdown that of start-up.
BeginCleanup(c) ==
    LET g == IF c = Shutdown THEN 1 ELSE current
        warming == g = 1 /\ refresh[Warmup].at = "asking"
    IN  /\ cleaning[c].at = "new" /\ cleaning[Shutdown].at = "new"
        /\ IF warming   \* cancelled, and waited for
           THEN /\ RefreshBecomes(Warmup, "cancelled", 1, {})
                /\ CleaningBecomes(c, "waiting", g, {}, FALSE)
           ELSE /\ CleaningBecomes(c, "cleaning", g, registry[g].cached, FALSE)
                /\ UNCHANGED refresh
        /\ UNCHANGED <<current, registry, request, streak>>

WarmupGone(c) ==
    /\ cleaning[c].at = "waiting"
    /\ CleaningBecomes(c, "cleaning", cleaning[c].in, registry[cleaning[c].in].cached, FALSE)
    /\ UNCHANGED <<current, registry, request, refresh, streak>>

\* provider.cleanup() returns or raises; the others have their turn either way.
CleanedUp(c) ==
    /\ cleaning[c].at = "cleaning"
    /\ \E p \in cleaning[c].left, failed \in BOOLEAN :
          CleaningBecomes(c, "cleaning", cleaning[c].in, cleaning[c].left \ {p},
                          failed \/ cleaning[c].failed)
    /\ UNCHANGED <<current, registry, request, refresh, streak>>

\* The registry is emptied, and replaced by a new one unless a cleanup raised.
EndCleanup(c) ==
    LET g == cleaning[c].in
        installed == Cardinality({d \in Change : cleaning[d].at = "installed"})
        installs == c \in Change /\ ~cleaning[c].failed
    IN  /\ cleaning[c].at = "cleaning" /\ cleaning[c].left = {}
        /\ CleaningBecomes(c, IF installs THEN "installed" ELSE "done", g, {}, cleaning[c].failed)
        /\ registry' = [registry EXCEPT ![g] = Empty]
        /\ current' = IF installs THEN installed + 2 ELSE current
        /\ streak' = [p \in Provider |-> 0]
        /\ UNCHANGED <<request, refresh>>

\* best_effort gives shutdown's cleanup up after some seconds.
CutShort ==
    /\ cleaning[Shutdown].at \in {"waiting", "cleaning"}
    /\ CleaningBecomes(Shutdown, "done", 1, {}, FALSE)
    /\ registry' = [registry EXCEPT ![1] = Empty]
    /\ UNCHANGED <<current, request, refresh, streak>>

CoolDown ==
    /\ \E g \in Number, p \in Provider : registry[g].circuit[p] > 0
    /\ registry' = [g \in Number |-> [registry[g] EXCEPT !.circuit = [p \in Provider |->
                        IF @[p] > 0 THEN @[p] - 1 ELSE @[p]]]]
    /\ UNCHANGED <<current, request, refresh, cleaning, streak>>

RegNext ==
    \/ \E r \in Request : \/ Arrive(r) \/ Serve(r) \/ StreamServed(r) \/ StreamApologizes(r)
                          \/ StreamBreaks(r) \/ StreamLeft(r)
    \/ StartWarmup
    \/ \E j \in Refresh : StartRefresh(j) \/ \E p \in Provider : Test(j, p) \/ TestKeyless(j, p)
    \/ \E j \in Refreshing : Answered(j)
    \/ \E c \in Cleaning : BeginCleanup(c) \/ WarmupGone(c) \/ CleanedUp(c) \/ EndCleanup(c)
    \/ CutShort \/ CoolDown

-----------------------------------------------------------------------------
\* Only a provider with Threshold failures on record and no success since is kept from
\* requests, whichever of requests, refreshes and tests reported them in which order;
\* and models are offered only of providers that are there to serve them, except when a
\* change that failed has emptied the registry under a refresh.
RegistrySound ==
    /\ \A g \in Number, p \in Provider :
          registry[g].circuit[p] # Closed => registry[g].failures[p] = Threshold
    /\ registry[current].listed \subseteq registry[current].cached
          \/ \E c \in Cleaning : cleaning[c].in = current /\ cleaning[c].at = "done"

\* A circuit that is open keeps requests off its provider until it has cooled down, or
\* the provider has been seen to work, whatever else is refreshed, changed or cleaned up.
CircuitHolds ==
    \A g \in Number, p \in Provider :
      registry[g].circuit[p] > 0 /\ registry'[g].circuit[p] < registry[g].circuit[p] =>
         \/ registry'[g].circuit[p] = registry[g].circuit[p] - 1
         \/ registry'[g].failures[p] = 0

\* "open the circuit after repeated failures": a provider that has failed Threshold
\* requests in a row is on record as failing.  The code does not keep this: a failure
\* that a transport reports as text of its stream is recorded as a success.
FailuresNoticed ==
    \A p \in Provider : streak[p] >= Threshold => registry[current].failures[p] = Threshold

=============================================================================
