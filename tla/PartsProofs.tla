----------------------------- MODULE PartsProofs -----------------------------
(***************************************************************************)
(* Theorems about the parts that MCParts puts side by side: the provider   *)
(* registry and the admin page's configuration, for any providers,         *)
(* requests, refreshes, changes and applies; and, with the lemmas of       *)
(* SidePartsProofs, voice notes, the platforms' calls, the runtime and     *)
(* the parts that work on a project's files.  Each part's invariant holds  *)
(* in the behaviours of the others too, where its variables keep their     *)
(* first values.                                                           *)
(***************************************************************************)
EXTENDS MCParts, SidePartsProofs, FiniteSetTheorems, TLAPS

(***************************************************************************)
(* The provider registry.  A registry whose cleanup has ended is the one   *)
(* in use only if the cleanup was shutdown's, or failed.                   *)
(***************************************************************************)
RegistryType == [cached : SUBSET Provider, listed : SUBSET Provider,
                 failures : [Provider -> 0..Threshold], circuit : [Provider -> -1..Cooldown]]

RequestType == [at : {"new", "arrived", "streaming", "over"}, in : Number,
                to : Provider \union {"none"}]
RequestsOK ==
    /\ request \in [Request -> RequestType]
    /\ \A r \in Request : request[r].at = "streaming" => request[r].to \in Provider

RegTypeOK ==
    /\ current \in Number /\ registry \in [Number -> RegistryType] /\ RequestsOK
    /\ refresh \in [Refreshing -> [at : {"new", "asking", "done", "cancelled"}, in : Number,
                                   asked : SUBSET Provider]]
    /\ cleaning \in [Cleaning -> [at : {"new", "waiting", "cleaning", "done", "installed"},
                                  in : Number, left : SUBSET Provider, failed : BOOLEAN]]

\* A circuit that is not closed has all the failures that open it.
HealthOf(R) == \A p \in Provider : R.circuit[p] # Closed => R.failures[p] = Threshold
Healthy == \A g \in Number : HealthOf(registry[g])

\* The cleanups that have installed a registry: it is of these that the number comes.
Installed == {d \in Change : cleaning[d].at = "installed"}
Counted == current = 1 + Cardinality(Installed)

Gone(g) == \E c \in Cleaning :
    cleaning[c].in = g /\ (cleaning[c].at = "done" \/ (cleaning[c].at = "installed" /\ g < current))

\* A provider that is asked for its models, or has listed them, is there, or its registry
\* has been cleaned up.
Backed ==
    /\ \A c \in Cleaning : cleaning[c].in <= current
    /\ \A j \in Refreshing :
          refresh[j].at = "asking" =>
              refresh[j].asked \subseteq registry[refresh[j].in].cached \/ Gone(refresh[j].in)
    /\ \A g \in Number : registry[g].listed \subseteq registry[g].cached \/ Gone(g)

RegInv == RegTypeOK /\ Healthy /\ Counted /\ Backed

-----------------------------------------------------------------------------
(* What the operations do to one registry.                                 *)

\* An open circuit is closed by a tick or a success only.
Holds(R, S) ==
    \A p \in Provider : R.circuit[p] > 0 /\ S.circuit[p] < R.circuit[p] =>
        S.circuit[p] = R.circuit[p] - 1 \/ S.failures[p] = 0

\* No open circuit is shortened.
Keeps(R, S) == \A p \in Provider : R.circuit[p] > 0 => S.circuit[p] >= R.circuit[p]

Good(R) == R \in RegistryType /\ HealthOf(R)

\* The fields of a registry that has its type.
LEMMA Fields ==
    ASSUME NEW R, Good(R)
    PROVE  /\ R.cached \in SUBSET Provider /\ R.listed \in SUBSET Provider
           /\ R.failures \in [Provider -> 0..Threshold] /\ R.circuit \in [Provider -> -1..Cooldown]
           /\ R = [cached |-> R.cached, listed |-> R.listed, failures |-> R.failures,
                   circuit |-> R.circuit]
  BY DEF Good, RegistryType

LEMMA Values ==
    ASSUME NEW R, Good(R), NEW p \in Provider
    PROVE  /\ R.failures[p] \in 0..Threshold /\ R.circuit[p] \in -1..Cooldown
           /\ R.failures[p] \in Int /\ R.circuit[p] \in Int
           /\ R.circuit[p] # -1 => R.failures[p] = Threshold
  BY Fields, RegistryAssumption DEF Good, HealthOf, Closed

LEMMA MadeRight ==
    ASSUME NEW R, Good(R), NEW ps \in SUBSET Provider
    PROVE  /\ Good(Made(R, ps)) /\ Keeps(R, Made(R, ps))
           /\ Made(R, ps).listed = R.listed
           /\ Made(R, ps).cached = R.cached \union (ps \ Keyless)
<1> DEFINE S == Made(R, ps)
<1>1. S = [cached |-> R.cached \union (ps \ Keyless), listed |-> R.listed,
           failures |-> R.failures, circuit |-> R.circuit]
  <2>1. R = [cached |-> R.cached, listed |-> R.listed, failures |-> R.failures,
             circuit |-> R.circuit]
    BY Fields
  <2> QED
    BY <2>1 DEF Made
<1> HIDE DEF S
<1>2. S \in RegistryType
  BY <1>1, Fields DEF RegistryType
<1>3. \A p \in Provider : R.circuit[p] \in Int
  BY Values
<1>4. HealthOf(S) /\ Keeps(R, S)
  BY <1>1, <1>3 DEF Good, HealthOf, Keeps
<1> QED
  BY <1>1, <1>2, <1>4 DEF S, Good

LEMMA LookedRight ==
    ASSUME NEW R, Good(R), NEW ps
    PROVE  /\ Good(Looked(R, ps)) /\ Keeps(R, Looked(R, ps))
           /\ Looked(R, ps).listed = R.listed /\ Looked(R, ps).cached = R.cached
<1> DEFINE S == Looked(R, ps)
           C == [p \in Provider |-> IF p \in ps /\ R.circuit[p] = 0 THEN Closed ELSE R.circuit[p]]
<1>1. S = [cached |-> R.cached, listed |-> R.listed, failures |-> R.failures, circuit |-> C]
  BY Fields DEF Looked
<1>2. C \in [Provider -> -1..Cooldown]
  BY Values, RegistryAssumption DEF Closed
<1>3. \A p \in Provider : /\ R.circuit[p] > 0 => C[p] >= R.circuit[p]
                          /\ C[p] # -1 => R.circuit[p] # -1
  BY Values DEF Closed
<1> HIDE DEF S, C
<1>4. S \in RegistryType
  BY <1>1, <1>2, Fields DEF RegistryType
<1>5. HealthOf(S) /\ Keeps(R, S)
  BY <1>1, <1>3, Values DEF HealthOf, Keeps, Closed
<1> QED
  BY <1>1, <1>4, <1>5 DEF S, Good

\* Writing down something else of one provider.
LEMMA Written ==
    ASSUME NEW A, NEW B, NEW C,
           NEW R \in [cached : SUBSET A, listed : SUBSET A, failures : [A -> B], circuit : [A -> C]],
           NEW p \in A, NEW f \in B, NEW c \in C,
           NEW S, S = [R EXCEPT !.failures[p] = f, !.circuit[p] = c]
    PROVE  /\ S \in [cached : SUBSET A, listed : SUBSET A, failures : [A -> B], circuit : [A -> C]]
           /\ S.cached = R.cached /\ S.listed = R.listed
           /\ \A q \in A : /\ S.circuit[q] = IF q = p THEN c ELSE R.circuit[q]
                           /\ S.failures[q] = IF q = p THEN f ELSE R.failures[q]
  OBVIOUS

LEMMA WrittenOne ==
    ASSUME NEW A, NEW B, NEW C,
           NEW R \in [cached : SUBSET A, listed : SUBSET A, failures : [A -> B], circuit : [A -> C]],
           NEW p \in A, NEW f \in B, NEW S, S = [R EXCEPT !.failures[p] = f]
    PROVE  /\ S \in [cached : SUBSET A, listed : SUBSET A, failures : [A -> B], circuit : [A -> C]]
           /\ S.cached = R.cached /\ S.listed = R.listed /\ S.circuit = R.circuit
           /\ \A q \in A : S.failures[q] = IF q = p THEN f ELSE R.failures[q]
  OBVIOUS

LEMMA SuccessRight ==
    ASSUME NEW R, Good(R), NEW p \in Provider
    PROVE  /\ Good(RecordSuccess(R, p)) /\ Holds(R, RecordSuccess(R, p))
           /\ RecordSuccess(R, p).listed = R.listed /\ RecordSuccess(R, p).cached = R.cached
<1> DEFINE S == RecordSuccess(R, p)
<1>1. S = [R EXCEPT !.failures[p] = 0, !.circuit[p] = Closed]
  BY DEF RecordSuccess
<1> HIDE DEF S
<1>2. 0 \in 0..Threshold /\ Closed \in -1..Cooldown
  BY RegistryAssumption DEF Closed
<1>3. R \in RegistryType
  BY DEF Good
<1>4. /\ S \in RegistryType /\ S.listed = R.listed /\ S.cached = R.cached
      /\ \A q \in Provider : /\ S.circuit[q] = IF q = p THEN Closed ELSE R.circuit[q]
                             /\ S.failures[q] = IF q = p THEN 0 ELSE R.failures[q]
  BY <1>1, <1>2, <1>3, Written DEF RegistryType
<1>5. HealthOf(S) /\ Holds(R, S)
  BY <1>4, Values DEF HealthOf, Holds, Closed
<1> QED
  BY <1>4, <1>5 DEF S, Good

LEMMA FailureRight ==
    ASSUME NEW R, Good(R), NEW p \in Provider
    PROVE  /\ Good(RecordFailure(R, p)) /\ Keeps(R, RecordFailure(R, p))
           /\ RecordFailure(R, p).listed = R.listed /\ RecordFailure(R, p).cached = R.cached
<1> DEFINE S == RecordFailure(R, p)
<1>1. R \in RegistryType
  BY DEF Good
<1>2. CASE R.failures[p] + 1 < Threshold
  <2>1. S = [R EXCEPT !.failures[p] = R.failures[p] + 1]
    BY <1>2 DEF RecordFailure
  <2> HIDE DEF S
  <2>2. R.failures[p] + 1 \in 0..Threshold /\ R.circuit[p] = -1
    BY <1>2, Values, RegistryAssumption
  <2>3. /\ S \in RegistryType /\ S.listed = R.listed /\ S.cached = R.cached
        /\ S.circuit = R.circuit
        /\ \A q \in Provider :
              S.failures[q] = IF q = p THEN R.failures[p] + 1 ELSE R.failures[q]
    BY <1>1, <2>1, <2>2, WrittenOne DEF RegistryType
  <2>4. HealthOf(S) /\ Keeps(R, S)
    BY <2>2, <2>3, Values DEF HealthOf, Keeps, Closed
  <2> QED
    BY <2>3, <2>4 DEF S, Good
<1>3. CASE ~(R.failures[p] + 1 < Threshold)
  <2>1. S = [R EXCEPT !.failures[p] = Threshold, !.circuit[p] = Cooldown]
    BY <1>3 DEF RecordFailure
  <2> HIDE DEF S
  <2>2. Threshold \in 0..Threshold /\ Cooldown \in -1..Cooldown
    BY RegistryAssumption
  <2>3. /\ S \in RegistryType /\ S.listed = R.listed /\ S.cached = R.cached
        /\ \A q \in Provider : /\ S.circuit[q] = IF q = p THEN Cooldown ELSE R.circuit[q]
                               /\ S.failures[q] = IF q = p THEN Threshold ELSE R.failures[q]
    BY <1>1, <2>1, <2>2, Written DEF RegistryType
  <2>4. HealthOf(S) /\ Keeps(R, S)
    BY <2>2, <2>3, Values DEF HealthOf, Keeps, Closed
  <2> QED
    BY <2>3, <2>4 DEF S, Good
<1> QED
  BY <1>2, <1>3

LEMMA EmptyRight ==
    /\ Good(Empty) /\ \A R \in RegistryType : Holds(R, Empty)
    /\ Empty.listed = {} /\ Empty.cached = {}
  BY RegistryAssumption DEF Empty, Good, HealthOf, Holds, RegistryType, Closed

LEMMA ListedRight ==
    ASSUME NEW R, Good(R), NEW ps \in SUBSET Provider, NEW answered \in SUBSET ps
    PROVE  /\ Good(Listed(R, ps, answered)) /\ Holds(R, Listed(R, ps, answered))
           /\ Listed(R, ps, answered).listed = R.listed \union answered
           /\ Listed(R, ps, answered).cached = R.cached
<1> DEFINE S == Listed(R, ps, answered)
           Result(p) == IF p \in answered THEN RecordSuccess(R, p)
                        ELSE IF p \in ps THEN RecordFailure(R, p) ELSE R
<1>1. ASSUME NEW p \in Provider
      PROVE  /\ Result(p).failures[p] \in 0..Threshold /\ Result(p).circuit[p] \in -1..Cooldown
             /\ Result(p).circuit[p] # Closed => Result(p).failures[p] = Threshold
             /\ R.circuit[p] > 0 /\ Result(p).circuit[p] < R.circuit[p] =>
                   Result(p).circuit[p] = R.circuit[p] - 1 \/ Result(p).failures[p] = 0
  <2>1. CASE p \in answered
    <3>1. Result(p) = RecordSuccess(R, p)
      BY <2>1
    <3>2. Good(RecordSuccess(R, p)) /\ Holds(R, RecordSuccess(R, p))
      BY SuccessRight
    <3> QED
      BY <3>1, <3>2, Values DEF Holds, Closed
  <2>2. CASE p \notin answered /\ p \in ps
    <3>1. Result(p) = RecordFailure(R, p)
      BY <2>2
    <3>2. Good(RecordFailure(R, p)) /\ Keeps(R, RecordFailure(R, p))
      BY FailureRight
    <3> QED
      BY <3>1, <3>2, Values DEF Keeps, Closed
  <2>3. CASE p \notin answered /\ p \notin ps
    BY <2>3, Values DEF Closed
  <2> QED
    BY <2>1, <2>2, <2>3
<1>2. S = [R EXCEPT !.listed = @ \union answered,
                    !.failures = [p \in Provider |-> Result(p).failures[p]],
                    !.circuit = [p \in Provider |-> Result(p).circuit[p]]]
  BY DEF Listed
<1> HIDE DEF S, Result
<1>3. S \in RegistryType /\ S.listed = R.listed \union answered /\ S.cached = R.cached
  BY <1>1, <1>2 DEF Good, RegistryType
<1>4. \A p \in Provider : /\ S.failures[p] = Result(p).failures[p]
                          /\ S.circuit[p] = Result(p).circuit[p]
  BY <1>2 DEF Good, RegistryType
<1>5. HealthOf(S) /\ Holds(R, S)
  BY <1>1, <1>4 DEF HealthOf, Holds
<1> QED
  BY <1>3, <1>5 DEF S, Good

\* What shortens no circuit leaves them to ticks and successes.
LEMMA KeepsHolds ==
    ASSUME NEW R \in RegistryType, NEW S \in RegistryType, Keeps(R, S)
    PROVE  Holds(R, S)
<1> SUFFICES ASSUME NEW p \in Provider, R.circuit[p] > 0 PROVE ~(S.circuit[p] < R.circuit[p])
  BY DEF Holds
<1> R.circuit[p] \in Int /\ S.circuit[p] \in Int
  BY RegistryAssumption DEF RegistryType
<1> QED
  BY DEF Keeps

LEMMA KeepsThrough ==
    ASSUME NEW R \in RegistryType, NEW S \in RegistryType, NEW T \in RegistryType,
           Keeps(R, S), Keeps(S, T)
    PROVE  Keeps(R, T)
<1> SUFFICES ASSUME NEW p \in Provider, R.circuit[p] > 0 PROVE T.circuit[p] >= R.circuit[p]
  BY DEF Keeps
<1> R.circuit[p] \in Int /\ S.circuit[p] \in Int /\ T.circuit[p] \in Int
  BY RegistryAssumption DEF RegistryType
<1> QED
  BY DEF Keeps

-----------------------------------------------------------------------------
(* What a step does to all of them.                                        *)

LEMMA Numbers ==
    /\ Number \subseteq Nat /\ 1 \in Number /\ Cardinality(Change) \in Nat
    /\ \A n \in Nat : n \in Number <=> n >= 1 /\ n <= 1 + Cardinality(Change)
  BY RegistryAssumption, FS_CardinalityType DEF Number

LEMMA AllGood ==
    ASSUME RegInv, NEW g \in Number
    PROVE  Good(registry[g])
  BY DEF RegInv, RegTypeOK, Healthy, Good

\* Every registry becomes a good one that holds its circuits.
Steps(g) == Good(registry'[g]) /\ Holds(registry[g], registry'[g])

LEMMA SameHolds ==
    ASSUME NEW R, Good(R)
    PROVE  Holds(R, R)
  BY Values DEF Holds

LEMMA AllStep ==
    ASSUME registry' \in [Number -> RegistryType], \A g \in Number : Steps(g)
    PROVE  Healthy' /\ CircuitHolds
  BY DEF Steps, Good, Healthy, CircuitHolds, Holds

LEMMA OneSteps ==
    ASSUME RegInv, NEW g \in Number, NEW S, Good(S), Holds(registry[g], S),
           registry' = [registry EXCEPT ![g] = S]
    PROVE  /\ registry' \in [Number -> RegistryType] /\ Healthy' /\ CircuitHolds
           /\ registry'[g] = S /\ \A h \in Number \ {g} : registry'[h] = registry[h]
<1>1. /\ registry'[g] = S /\ \A h \in Number \ {g} : registry'[h] = registry[h]
      /\ registry' \in [Number -> RegistryType]
  BY DEF RegInv, RegTypeOK, Good
<1>2. \A h \in Number : Steps(h)
  BY <1>1, AllGood, SameHolds DEF Steps
<1> QED
  BY <1>1, <1>2, AllStep

LEMMA NoneSteps ==
    ASSUME RegInv, UNCHANGED registry
    PROVE  /\ registry' \in [Number -> RegistryType] /\ Healthy' /\ CircuitHolds
<1>1. registry' \in [Number -> RegistryType]
  BY DEF RegInv, RegTypeOK
<1>2. \A h \in Number : Steps(h)
  BY AllGood, SameHolds DEF Steps
<1> QED
  BY <1>1, <1>2, AllStep

\* A registry that has been cleaned up stays so.
Follows(c) == \/ cleaning'[c] = cleaning[c]
              \/ cleaning[c].at \notin {"done", "installed"} /\ cleaning'[c].in <= current'

LEMMA GoneKept ==
    ASSUME RegInv, RegTypeOK', current <= current', \A c \in Cleaning : Follows(c),
           NEW g \in Number, Gone(g)
    PROVE  Gone(g)'
<1>1. PICK c \in Cleaning : /\ cleaning[c].in = g
                            /\ cleaning[c].at = "done" \/ (cleaning[c].at = "installed" /\ g < current)
  BY DEF Gone
<1>2. cleaning'[c] = cleaning[c]
  BY <1>1 DEF Follows
<1>3. g \in Nat /\ current \in Nat /\ current' \in Nat
  BY Numbers DEF RegInv, RegTypeOK
<1>4. g < current => g < current'
  BY <1>3
<1> QED
  BY <1>1, <1>2, <1>4 DEF Gone

\* Instances stay until their registry is gone, and what is listed is listed of them.
Backs(g) == \/ /\ registry[g].cached \subseteq registry'[g].cached
               /\ registry'[g].listed \subseteq registry[g].listed \union registry'[g].cached
            \/ Gone(g)'
Asks(j) == \/ refresh'[j] = refresh[j]
           \/ refresh'[j].at # "asking"
           \/ refresh'[j].asked \subseteq registry'[refresh'[j].in].cached

LEMMA BackedKept ==
    ASSUME RegInv, RegTypeOK', current <= current', \A c \in Cleaning : Follows(c),
           \A g \in Number : Backs(g), \A j \in Refreshing : Asks(j)
    PROVE  Backed'
<1>1. ASSUME NEW c \in Cleaning PROVE cleaning'[c].in <= current'
  <2>1. cleaning[c].in \in Nat /\ current \in Nat /\ current' \in Nat /\ cleaning[c].in <= current
    BY Numbers DEF RegInv, RegTypeOK, Backed
  <2> QED
    BY <2>1 DEF Follows
<1>2. ASSUME NEW j \in Refreshing, refresh'[j].at = "asking"
      PROVE  refresh'[j].asked \subseteq registry'[refresh'[j].in].cached \/ Gone(refresh[j].in)'
  <2>1. CASE refresh'[j].asked \subseteq registry'[refresh'[j].in].cached
    BY <2>1
  <2>2. CASE refresh'[j] = refresh[j]
    <3>1. PICK g \in Number : g = refresh[j].in
      BY DEF RegInv, RegTypeOK
    <3>2. refresh[j].asked \subseteq registry[g].cached \/ Gone(g)
      BY <1>2, <2>2, <3>1 DEF RegInv, Backed
    <3>3. CASE Gone(g)
      <4>1. Gone(g)'
        BY <3>3, GoneKept
      <4>2. g = refresh'[j].in
        BY <2>2, <3>1
      <4> QED
        BY <4>1, <4>2 DEF Gone
    <3>4. CASE refresh[j].asked \subseteq registry[g].cached /\ registry[g].cached \subseteq registry'[g].cached
      BY <2>2, <3>1, <3>4
    <3>5. CASE Gone(g)'
      BY <2>2, <3>1, <3>5 DEF Gone
    <3> QED
      BY <3>2, <3>3, <3>4, <3>5 DEF Backs
  <2> QED
    BY <1>2, <2>1, <2>2 DEF Asks
<1>3. ASSUME NEW g \in Number
      PROVE  registry'[g].listed \subseteq registry'[g].cached \/ Gone(g)'
  <2>1. CASE Gone(g)
    BY <2>1, GoneKept
  <2>2. CASE ~Gone(g) /\ ~Gone(g)'
    <3>1. registry[g].listed \subseteq registry[g].cached
      BY <2>2 DEF RegInv, Backed
    <3> QED
      BY <2>2, <3>1 DEF Backs
  <2> QED
    BY <2>1, <2>2
<1> QED
  BY <1>1, <1>2, <1>3 DEF Backed

LEMMA CountedKept ==
    ASSUME RegInv, UNCHANGED current,
           \A c \in Change : cleaning'[c].at = "installed" <=> cleaning[c].at = "installed"
    PROVE  Counted'
<1>1. Installed' = Installed
  BY DEF Installed
<1> QED
  BY <1>1 DEF RegInv, Counted

-----------------------------------------------------------------------------
(* Requests and the lists of models.                                       *)

LEMMA CalmStep ==
    ASSUME RegInv, UNCHANGED <<current, cleaning>>, RegTypeOK', Healthy',
           \A g \in Number : Backs(g), \A j \in Refreshing : Asks(j)
    PROVE  RegInv'
<1>1. current <= current'
  BY Numbers DEF RegInv, RegTypeOK
<1>2. \A c \in Cleaning : Follows(c)
  BY DEF Follows
<1>3. Backed'
  BY <1>1, <1>2, BackedKept
<1>4. Counted'
  BY CountedKept
<1> QED
  BY <1>3, <1>4 DEF RegInv

\* One registry goes on with what it has, and maybe more.
LEMMA OneBacks ==
    ASSUME RegInv, NEW g \in Number, registry[g].cached \subseteq registry'[g].cached,
           registry'[g].listed = registry[g].listed,
           \A h \in Number \ {g} : registry'[h] = registry[h]
    PROVE  \A h \in Number : Backs(h)
  BY DEF Backs

LEMMA MovedAll ==
    ASSUME NEW I, NEW A, NEW B, NEW C, NEW f \in [I -> [at : A, in : B, to : C]], NEW r \in I,
           NEW a \in A, NEW b \in B, NEW c \in C, NEW g,
           g = [f EXCEPT ![r] = [at |-> a, in |-> b, to |-> c]]
    PROVE  /\ g \in [I -> [at : A, in : B, to : C]] /\ g[r].at = a
           /\ \A q \in I \ {r} : g[q] = f[q]
  OBVIOUS

LEMMA OneMoves ==
    ASSUME RequestsOK, NEW r \in Request, request' \in [Request -> RequestType],
           request'[r].at # "streaming" \/ request'[r].to \in Provider,
           \A q \in Request \ {r} : request'[q] = request[q]
    PROVE  RequestsOK'
  BY DEF RequestsOK

LEMMA OverMoves ==
    ASSUME RequestsOK, NEW r \in Request, Over(r)
    PROVE  RequestsOK'
<1>1. request \in [Request -> RequestType]
  BY DEF RequestsOK
<1>2. request' = [request EXCEPT ![r] = [at |-> "over", in |-> 1, to |-> "none"]]
  BY DEF Over
<1>3. 1 \in Number /\ "none" \in Provider \union {"none"}
  BY Numbers
<1>4. /\ request' \in [Request -> RequestType] /\ request'[r].at = "over"
      /\ \A q \in Request \ {r} : request'[q] = request[q]
  BY <1>1, <1>2, <1>3, MovedAll DEF RequestType
<1> QED
  BY <1>4, OneMoves

LEMMA ArriveStep ==
    ASSUME RegInv, NEW r \in Request, Arrive(r)
    PROVE  RegInv' /\ CircuitHolds
<1>1. /\ registry' \in [Number -> RegistryType] /\ Healthy' /\ CircuitHolds
  BY NoneSteps DEF Arrive
<1>2. RequestsOK'
  <2>1. RequestsOK /\ request \in [Request -> RequestType] /\ current \in Number
    BY DEF RegInv, RegTypeOK, RequestsOK
  <2>2. request' = [request EXCEPT ![r].at = "arrived", ![r].in = current]
    BY DEF Arrive
  <2>3. /\ request' \in [Request -> RequestType] /\ request'[r].at = "arrived"
        /\ \A q \in Request \ {r} : request'[q] = request[q]
    BY <2>1, <2>2 DEF RequestType
  <2> QED
    BY <2>1, <2>3, OneMoves
<1>3. RegTypeOK'
  BY <1>1, <1>2 DEF RegInv, RegTypeOK, Arrive
<1>4. (\A g \in Number : Backs(g)) /\ (\A j \in Refreshing : Asks(j))
  BY DEF Backs, Asks, Arrive
<1> QED
  BY <1>1, <1>3, <1>4, CalmStep DEF Arrive

\* The first candidate is looked for in one registry and made in another.
LEMMA ServeStep ==
    ASSUME RegInv, NEW r \in Request, Serve(r)
    PROVE  RegInv' /\ CircuitHolds
<1>1. PICK chosen \in 0..Len(Route) :
         LET g == request[r].in
             p == Route[chosen]
             servable == chosen # 0 /\ p \notin Keyless
             tried == {Route[i] : i \in 1..(IF chosen = 0 THEN Len(Route) ELSE chosen)}
             looked == [registry EXCEPT ![g] = Looked(@, tried)]
             made == [looked EXCEPT ![current] = Made(@, {p})]
         IN  /\ request[r].at = "arrived"
             /\ FirstAvailable(registry[g], chosen)
             /\ \/ /\ ~servable
                   /\ Over(r) /\ registry' = looked
                \/ /\ servable
                   /\ request' = [request EXCEPT ![r].at = "streaming", ![r].to = p]
                   /\ registry' = made
                \/ /\ servable
                   /\ Over(r)
                   /\ registry' = [made EXCEPT ![g] = RecordFailure(@, p)]
             /\ UNCHANGED <<current, refresh, cleaning, streak>>
  BY DEF Serve
<1> DEFINE p == Route[chosen]
           tried == {Route[i] : i \in 1..(IF chosen = 0 THEN Len(Route) ELSE chosen)}
<1>2. PICK g \in Number : g = request[r].in
  BY DEF RegInv, RegTypeOK, RequestsOK, RequestType
<1> DEFINE looked == [registry EXCEPT ![g] = Looked(registry[g], tried)]
           made == [looked EXCEPT ![current] = Made(looked[current], {p})]
           failed == [made EXCEPT ![g] = RecordFailure(made[g], p)]
<1>3. UNCHANGED <<current, refresh, cleaning>>
  BY <1>1
<1>4. \/ Over(r) /\ registry' = looked
      \/ /\ chosen # 0 /\ request' = [request EXCEPT ![r].at = "streaming", ![r].to = p]
         /\ registry' = made
      \/ chosen # 0 /\ Over(r) /\ registry' = failed
  BY <1>1, <1>2
<1>5. chosen # 0 => p \in Provider
  BY RegistryAssumption
<1>6. current \in Number /\ registry \in [Number -> RegistryType]
  BY DEF RegInv, RegTypeOK
<1> HIDE DEF tried, p
<1> DEFINE From(f) == /\ f \in [Number -> RegistryType]
                      /\ \A h \in Number : /\ Good(f[h]) /\ Keeps(registry[h], f[h])
                                           /\ registry[h].cached \subseteq f[h].cached
                                           /\ registry[h].listed = f[h].listed
<1>7. \A h \in Number : Good(registry[h]) /\ Keeps(registry[h], registry[h])
  BY AllGood, Values DEF Keeps
<1>8. From(looked)
  <2>1. looked[g] = Looked(registry[g], tried) /\ \A h \in Number \ {g} : looked[h] = registry[h]
    BY <1>6
  <2>2. /\ Good(looked[g]) /\ Keeps(registry[g], looked[g])
        /\ looked[g].listed = registry[g].listed /\ looked[g].cached = registry[g].cached
    BY <1>7, <2>1, LookedRight
  <2>3. looked \in [Number -> RegistryType]
    BY <1>6, <2>1, <2>2 DEF Good
  <2> HIDE DEF looked
  <2> QED
    BY <1>7, <2>1, <2>2, <2>3
<1>9. chosen # 0 => From(made)
  <2> HIDE DEF looked
  <2> SUFFICES ASSUME chosen # 0 PROVE From(made)
    OBVIOUS
  <2>1. /\ made[current] = Made(looked[current], {p})
        /\ \A h \in Number \ {current} : made[h] = looked[h]
    BY <1>6, <1>8
  <2>2. Good(looked[current]) /\ {p} \in SUBSET Provider
    BY <1>5, <1>6, <1>8
  <2>3. /\ Good(made[current]) /\ Keeps(looked[current], made[current])
        /\ made[current].listed = looked[current].listed
        /\ looked[current].cached \subseteq made[current].cached
    BY <2>1, <2>2, MadeRight
  <2>4. Keeps(registry[current], made[current])
    BY <1>6, <1>7, <1>8, <2>2, <2>3, KeepsThrough DEF Good
  <2>5. made \in [Number -> RegistryType]
    BY <1>6, <1>8, <2>3 DEF Good
  <2> HIDE DEF made
  <2> QED
    BY <1>6, <1>8, <2>1, <2>3, <2>4, <2>5
<1>10. chosen # 0 => From(failed)
  <2> HIDE DEF made
  <2> SUFFICES ASSUME chosen # 0 PROVE From(failed)
    OBVIOUS
  <2>1. failed[g] = RecordFailure(made[g], p) /\ \A h \in Number \ {g} : failed[h] = made[h]
    BY <1>9
  <2>2. Good(made[g])
    BY <1>9
  <2>3. /\ Good(failed[g]) /\ Keeps(made[g], failed[g])
        /\ failed[g].listed = made[g].listed /\ failed[g].cached = made[g].cached
    BY <1>5, <2>1, <2>2, FailureRight
  <2>4. Keeps(registry[g], failed[g])
    BY <1>7, <1>9, <2>2, <2>3, KeepsThrough DEF Good
  <2>5. failed \in [Number -> RegistryType]
    BY <1>9, <2>3 DEF Good
  <2> HIDE DEF failed
  <2> QED
    BY <1>9, <2>1, <2>3, <2>4, <2>5
<1> HIDE DEF looked, made, failed
<1>11. From(registry')
  BY <1>4, <1>8, <1>9, <1>10
<1>12. \A h \in Number : Steps(h)
  BY <1>7, <1>11, KeepsHolds DEF Steps, Good
<1>13. Healthy' /\ CircuitHolds
  BY <1>11, <1>12, AllStep
<1>14. RegTypeOK'
  <2>1. RequestsOK /\ request \in [Request -> RequestType]
    BY DEF RegInv, RegTypeOK, RequestsOK
  <2>2. RequestsOK'
    <3>1. CASE Over(r)
      BY <2>1, <3>1, OverMoves
    <3>2. CASE chosen # 0 /\ request' = [request EXCEPT ![r].at = "streaming", ![r].to = p]
      <4>1. p \in Provider \union {"none"}
        BY <1>5, <3>2
      <4>2. /\ request' \in [Request -> RequestType] /\ request'[r].to = p
            /\ \A q \in Request \ {r} : request'[q] = request[q]
        BY <2>1, <3>2, <4>1 DEF RequestType
      <4> QED
        BY <1>5, <2>1, <3>2, <4>2, OneMoves
    <3> QED
      BY <1>4, <3>1, <3>2
  <2> QED
    BY <1>3, <1>11, <2>2 DEF RegInv, RegTypeOK
<1>15. (\A h \in Number : Backs(h)) /\ (\A j \in Refreshing : Asks(j))
  BY <1>3, <1>11 DEF Backs, Asks
<1> QED
  BY <1>3, <1>13, <1>14, <1>15, CalmStep

\* What a stream that is over says of its provider goes to the registry of its request.
LEMMA StreamStep ==
    ASSUME RegInv, NEW r \in Request, StreamOver(r), NEW S,
           S = RecordSuccess(registry[request[r].in], request[r].to)
           \/ S = RecordFailure(registry[request[r].in], request[r].to)
           \/ S = registry[request[r].in],
           registry' = [registry EXCEPT ![request[r].in] = S]
    PROVE  RegInv' /\ CircuitHolds
<1>1. PICK g \in Number : g = request[r].in
  BY DEF RegInv, RegTypeOK, RequestsOK, RequestType
<1>2. PICK p \in Provider : p = request[r].to
  BY DEF RegInv, RegTypeOK, RequestsOK, StreamOver
<1>3. Good(registry[g])
  BY AllGood
<1>4. /\ Good(S) /\ Holds(registry[g], S)
      /\ S.listed = registry[g].listed /\ S.cached = registry[g].cached
  <2>1. CASE S = RecordSuccess(registry[g], p)
    BY <1>3, <2>1, SuccessRight
  <2>2. CASE S = RecordFailure(registry[g], p)
    BY <1>3, <2>2, FailureRight, KeepsHolds DEF Good
  <2>3. CASE S = registry[g]
    BY <1>3, <2>3, SameHolds
  <2> QED
    BY <1>1, <1>2, <2>1, <2>2, <2>3
<1>5. /\ registry' \in [Number -> RegistryType] /\ Healthy' /\ CircuitHolds
      /\ registry'[g] = S /\ \A h \in Number \ {g} : registry'[h] = registry[h]
  BY <1>1, <1>4, OneSteps
<1>6. \A h \in Number : Backs(h)
  BY <1>4, <1>5, OneBacks
<1>7. RequestsOK'
  BY OverMoves DEF RegInv, RegTypeOK, StreamOver
<1>8. RegTypeOK'
  BY <1>5, <1>7 DEF RegInv, RegTypeOK, StreamOver
<1>9. \A j \in Refreshing : Asks(j)
  BY DEF Asks, StreamOver
<1> QED
  BY <1>5, <1>6, <1>8, <1>9, CalmStep DEF StreamOver

LEMMA StreamsStep ==
    ASSUME RegInv, NEW r \in Request,
           StreamServed(r) \/ StreamApologizes(r) \/ StreamBreaks(r) \/ StreamLeft(r)
    PROVE  RegInv' /\ CircuitHolds
<1>1. CASE StreamServed(r)
  BY <1>1, StreamStep DEF StreamServed, Report
<1>2. CASE StreamApologizes(r)
  BY <1>2, StreamStep DEF StreamApologizes, Report
<1>3. CASE StreamBreaks(r)
  BY <1>3, StreamStep DEF StreamBreaks
<1>4. CASE StreamLeft(r)
  <2>1. registry' = [registry EXCEPT ![request[r].in] = registry[request[r].in]]
    BY <1>4 DEF StreamLeft, RegInv, RegTypeOK
  <2> QED
    BY <1>4, <2>1, StreamStep DEF StreamLeft
<1> QED
  BY <1>1, <1>2, <1>3, <1>4

LEMMA RefreshMoves ==
    ASSUME RegInv, NEW j \in Refreshing, NEW e \in {"new", "asking", "done", "cancelled"},
           NEW g \in Number, NEW ps \in SUBSET Provider, RefreshBecomes(j, e, g, ps)
    PROVE  /\ refresh' \in [Refreshing -> [at : {"new", "asking", "done", "cancelled"}, in : Number,
                                           asked : SUBSET Provider]]
           /\ refresh'[j] = [at |-> e, in |-> g, asked |-> ps]
           /\ \A i \in Refreshing \ {j} : refresh'[i] = refresh[i]
  BY DEF RefreshBecomes, RegInv, RegTypeOK

LEMMA AskAllStep ==
    ASSUME RegInv, NEW j \in Refreshing, NEW ps \in SUBSET (Provider \ Keyless), AskAll(j, ps)
    PROVE  RegInv' /\ CircuitHolds
<1>1. PICK g \in Number : g = current
  BY DEF RegInv, RegTypeOK
<1>2. Good(registry[g]) /\ ps \in SUBSET Provider
  BY AllGood
<1> DEFINE S == Made(registry[g], ps)
<1>3. /\ Good(S) /\ Holds(registry[g], S)
      /\ S.listed = registry[g].listed /\ S.cached = registry[g].cached \union ps
  BY <1>2, MadeRight, KeepsHolds DEF Good
<1>4. registry' = [registry EXCEPT ![g] = S]
  BY <1>1 DEF AskAll
<1> HIDE DEF S
<1>5. /\ registry' \in [Number -> RegistryType] /\ Healthy' /\ CircuitHolds
      /\ registry'[g] = S /\ \A h \in Number \ {g} : registry'[h] = registry[h]
  BY <1>3, <1>4, OneSteps
<1>6. \A h \in Number : Backs(h)
  BY <1>3, <1>5, OneBacks
<1>7. RefreshBecomes(j, "asking", g, ps)
  BY <1>1 DEF AskAll
<1>8. /\ refresh' \in [Refreshing -> [at : {"new", "asking", "done", "cancelled"}, in : Number,
                                      asked : SUBSET Provider]]
      /\ refresh'[j] = [at |-> "asking", in |-> g, asked |-> ps]
      /\ \A i \in Refreshing \ {j} : refresh'[i] = refresh[i]
  BY <1>2, <1>7, RefreshMoves
<1>9. \A i \in Refreshing : Asks(i)
  BY <1>3, <1>5, <1>8 DEF Asks
<1>10. RegTypeOK'
  BY <1>5, <1>8 DEF RegInv, RegTypeOK, RequestsOK, AskAll
<1> QED
  BY <1>5, <1>6, <1>9, <1>10, CalmStep DEF AskAll

LEMMA TestKeylessStep ==
    ASSUME RegInv, NEW j \in Refreshing, NEW p \in Provider, TestKeyless(j, p)
    PROVE  RegInv' /\ CircuitHolds
<1>1. PICK g \in Number : g = current
  BY DEF RegInv, RegTypeOK
<1>2. Good(registry[g])
  BY AllGood
<1> DEFINE S == RecordFailure(registry[g], p)
<1>3. /\ Good(S) /\ Holds(registry[g], S)
      /\ S.listed = registry[g].listed /\ S.cached = registry[g].cached
  BY <1>2, FailureRight, KeepsHolds DEF Good
<1>4. registry' = [registry EXCEPT ![g] = S]
  BY <1>1 DEF TestKeyless
<1> HIDE DEF S
<1>5. /\ registry' \in [Number -> RegistryType] /\ Healthy' /\ CircuitHolds
      /\ registry'[g] = S /\ \A h \in Number \ {g} : registry'[h] = registry[h]
  BY <1>3, <1>4, OneSteps
<1>6. \A h \in Number : Backs(h)
  BY <1>3, <1>5, OneBacks
<1>7. /\ refresh' \in [Refreshing -> [at : {"new", "asking", "done", "cancelled"}, in : Number,
                                      asked : SUBSET Provider]]
      /\ refresh'[j] = [at |-> "done", in |-> 1, asked |-> {}]
      /\ \A i \in Refreshing \ {j} : refresh'[i] = refresh[i]
  <2>1. 1 \in Number /\ {} \in SUBSET Provider /\ "done" \in {"new", "asking", "done", "cancelled"}
    BY Numbers
  <2>2. RefreshBecomes(j, "done", 1, {})
    BY DEF TestKeyless
  <2> QED
    BY <2>1, <2>2, RefreshMoves
<1>8. \A i \in Refreshing : Asks(i)
  BY <1>7 DEF Asks
<1>9. RegTypeOK'
  BY <1>5, <1>7 DEF RegInv, RegTypeOK, RequestsOK, TestKeyless
<1> QED
  BY <1>5, <1>6, <1>8, <1>9, CalmStep DEF TestKeyless

\* Those that have answered were asked, and are there unless their registry is gone.
LEMMA AnsweredStep ==
    ASSUME RegInv, NEW j \in Refreshing, Answered(j)
    PROVE  RegInv' /\ CircuitHolds
<1>1. PICK g \in Number : g = refresh[j].in
  BY DEF RegInv, RegTypeOK
<1>2. PICK answered \in SUBSET refresh[j].asked :
          registry' = [registry EXCEPT ![g] = Listed(registry[g], refresh[j].asked, answered)]
  BY <1>1 DEF Answered
<1>3. Good(registry[g]) /\ refresh[j].asked \in SUBSET Provider
  BY AllGood DEF RegInv, RegTypeOK
<1> DEFINE S == Listed(registry[g], refresh[j].asked, answered)
<1>4. /\ Good(S) /\ Holds(registry[g], S)
      /\ S.listed = registry[g].listed \union answered /\ S.cached = registry[g].cached
  BY <1>3, ListedRight
<1>5. registry' = [registry EXCEPT ![g] = S]
  BY <1>2
<1> HIDE DEF S
<1>6. /\ registry' \in [Number -> RegistryType] /\ Healthy' /\ CircuitHolds
      /\ registry'[g] = S /\ \A h \in Number \ {g} : registry'[h] = registry[h]
  BY <1>4, <1>5, OneSteps
<1>7. /\ refresh' \in [Refreshing -> [at : {"new", "asking", "done", "cancelled"}, in : Number,
                                      asked : SUBSET Provider]]
      /\ refresh'[j] = [at |-> "done", in |-> 1, asked |-> {}]
      /\ \A i \in Refreshing \ {j} : refresh'[i] = refresh[i]
  <2>1. 1 \in Number /\ {} \in SUBSET Provider /\ "done" \in {"new", "asking", "done", "cancelled"}
    BY Numbers
  <2>2. RefreshBecomes(j, "done", 1, {})
    BY DEF Answered
  <2> QED
    BY <2>1, <2>2, RefreshMoves
<1>8. \A i \in Refreshing : Asks(i)
  BY <1>7 DEF Asks
<1>9. RegTypeOK'
  BY <1>6, <1>7 DEF RegInv, RegTypeOK, RequestsOK, Answered
<1>10. Backs(g)
  <2>1. refresh[j].asked \subseteq registry[g].cached \/ Gone(g)
    BY <1>1 DEF RegInv, Backed, Answered
  <2>2. Gone(g) => Gone(g)'
    BY DEF Gone, Answered
  <2> QED
    BY <1>4, <1>6, <2>1, <2>2 DEF Backs
<1>11. \A h \in Number : Backs(h)
  BY <1>6, <1>10 DEF Backs
<1> QED
  BY <1>6, <1>8, <1>9, <1>11, CalmStep DEF Answered

LEMMA CoolDownStep ==
    ASSUME RegInv, CoolDown
    PROVE  RegInv' /\ CircuitHolds
<1> DEFINE Cooler(R) == [R EXCEPT !.circuit = [p \in Provider |->
                             IF R.circuit[p] > 0 THEN R.circuit[p] - 1 ELSE R.circuit[p]]]
<1>1. \A g \in Number : registry'[g] = Cooler(registry[g])
  BY DEF CoolDown
<1>2. ASSUME NEW R, Good(R)
      PROVE  /\ Good(Cooler(R)) /\ Holds(R, Cooler(R))
             /\ Cooler(R).cached = R.cached /\ Cooler(R).listed = R.listed
  <2> DEFINE C == [p \in Provider |-> IF R.circuit[p] > 0 THEN R.circuit[p] - 1 ELSE R.circuit[p]]
             S == Cooler(R)
  <2>1. C \in [Provider -> -1..Cooldown]
    BY <1>2, Values, RegistryAssumption
  <2>2. \A p \in Provider : /\ C[p] < R.circuit[p] => C[p] = R.circuit[p] - 1
                            /\ C[p] # -1 => R.circuit[p] # -1
    BY <1>2, Values
  <2>3. S = [R EXCEPT !.circuit = C]
    OBVIOUS
  <2> HIDE DEF C, S
  <2>4. /\ S \in RegistryType /\ S.circuit = C /\ S.failures = R.failures
        /\ S.cached = R.cached /\ S.listed = R.listed
    BY <1>2, <2>1, <2>3 DEF Good, RegistryType
  <2>5. HealthOf(S) /\ Holds(R, S)
    BY <1>2, <2>2, <2>4, Values DEF HealthOf, Holds, Closed
  <2> QED
    BY <2>4, <2>5 DEF S, Good
<1> HIDE DEF Cooler
<1>3. \A g \in Number : /\ Steps(g)
                        /\ registry'[g].cached = registry[g].cached
                        /\ registry'[g].listed = registry[g].listed
  BY <1>1, <1>2, AllGood DEF Steps
<1>4. registry' \in [Number -> RegistryType]
  <2>1. registry' = [g \in Number |-> registry'[g]]
    BY DEF CoolDown
  <2> QED
    BY <1>3, <2>1 DEF Steps, Good
<1>5. Healthy' /\ CircuitHolds
  BY <1>3, <1>4, AllStep
<1>6. RegTypeOK'
  BY <1>4 DEF RegInv, RegTypeOK, RequestsOK, CoolDown
<1>7. (\A g \in Number : Backs(g)) /\ (\A j \in Refreshing : Asks(j))
  BY <1>3 DEF Backs, Asks, CoolDown
<1> QED
  BY <1>5, <1>6, <1>7, CalmStep DEF CoolDown

-----------------------------------------------------------------------------
(* Cleanups.                                                               *)

CleaningType == [at : {"new", "waiting", "cleaning", "done", "installed"},
                 in : Number, left : SUBSET Provider, failed : BOOLEAN]

LEMMA CleaningMoves ==
    ASSUME RegInv, NEW c \in Cleaning,
           NEW e \in {"new", "waiting", "cleaning", "done", "installed"},
           NEW g \in Number, NEW ps \in SUBSET Provider, NEW failed \in BOOLEAN,
           CleaningBecomes(c, e, g, ps, failed)
    PROVE  /\ cleaning' \in [Cleaning -> CleaningType]
           /\ cleaning'[c].at = e /\ cleaning'[c].in = g
           /\ \A d \in Cleaning \ {c} : cleaning'[d] = cleaning[d]
<1>1. cleaning \in [Cleaning -> CleaningType]
  BY DEF RegInv, RegTypeOK, CleaningType
<1>2. [at |-> e, in |-> g, left |-> ps, failed |-> failed] \in CleaningType
  BY DEF CleaningType
<1> QED
  BY <1>1, <1>2 DEF CleaningBecomes

\* A cleanup goes on, and its registry is still as it was.
LEMMA QuietStep ==
    ASSUME RegInv, NEW c \in Cleaning, cleaning[c].at \notin {"done", "installed"},
           NEW e \in {"waiting", "cleaning"}, NEW g \in Number, g <= current,
           NEW ps \in SUBSET Provider, NEW failed \in BOOLEAN,
           CleaningBecomes(c, e, g, ps, failed), UNCHANGED <<current, registry, request>>,
           refresh' \in [Refreshing -> [at : {"new", "asking", "done", "cancelled"}, in : Number,
                                        asked : SUBSET Provider]],
           \A j \in Refreshing : Asks(j)
    PROVE  RegInv' /\ CircuitHolds
<1>1. /\ cleaning' \in [Cleaning -> CleaningType]
      /\ cleaning'[c].at = e /\ cleaning'[c].in = g
      /\ \A d \in Cleaning \ {c} : cleaning'[d] = cleaning[d]
  BY CleaningMoves
<1>2. /\ registry' \in [Number -> RegistryType] /\ Healthy' /\ CircuitHolds
  BY NoneSteps
<1>3. RegTypeOK'
  BY <1>1, <1>2 DEF RegInv, RegTypeOK, RequestsOK, CleaningType
<1>4. current <= current'
  BY Numbers DEF RegInv, RegTypeOK
<1>5. \A d \in Cleaning : Follows(d)
  BY <1>1 DEF Follows
<1>6. \A h \in Number : Backs(h)
  BY DEF Backs
<1>7. Backed'
  BY <1>3, <1>4, <1>5, <1>6, BackedKept
<1>8. \A d \in Change : cleaning'[d].at = "installed" <=> cleaning[d].at = "installed"
  BY <1>1 DEF Cleaning
<1>9. Counted'
  BY <1>8, CountedKept
<1> QED
  BY <1>2, <1>3, <1>7, <1>9 DEF RegInv

LEMMA BeginCleanupStep ==
    ASSUME RegInv, NEW c \in Cleaning, BeginCleanup(c)
    PROVE  RegInv' /\ CircuitHolds
<1> DEFINE g == IF c = Shutdown THEN 1 ELSE current
<1>1. g \in Number /\ g <= current
  BY Numbers DEF RegInv, RegTypeOK
<1>2. UNCHANGED <<current, registry, request>> /\ cleaning[c].at \notin {"done", "installed"}
  BY DEF BeginCleanup
<1>3. registry[g].cached \in SUBSET Provider /\ {} \in SUBSET Provider /\ FALSE \in BOOLEAN
  BY <1>1, AllGood, Fields
<1>4. \/ RefreshBecomes(Warmup, "cancelled", 1, {}) /\ CleaningBecomes(c, "waiting", g, {}, FALSE)
      \/ CleaningBecomes(c, "cleaning", g, registry[g].cached, FALSE) /\ UNCHANGED refresh
  BY DEF BeginCleanup
<1> HIDE DEF g
<1>5. CASE RefreshBecomes(Warmup, "cancelled", 1, {}) /\ CleaningBecomes(c, "waiting", g, {}, FALSE)
  <2>1. /\ Warmup \in Refreshing /\ 1 \in Number /\ {} \in SUBSET Provider
        /\ "cancelled" \in {"new", "asking", "done", "cancelled"}
    BY Numbers DEF Refreshing
  <2>2. /\ refresh' \in [Refreshing -> [at : {"new", "asking", "done", "cancelled"}, in : Number,
                                        asked : SUBSET Provider]]
        /\ refresh'[Warmup] = [at |-> "cancelled", in |-> 1, asked |-> {}]
        /\ \A i \in Refreshing \ {Warmup} : refresh'[i] = refresh[i]
    BY <1>5, <2>1, RefreshMoves
  <2>3. \A i \in Refreshing : Asks(i)
    BY <2>2 DEF Asks
  <2>4. "waiting" \in {"waiting", "cleaning"}
    OBVIOUS
  <2> QED
    BY <1>1, <1>2, <1>3, <1>5, <2>2, <2>3, <2>4, QuietStep
<1>6. CASE CleaningBecomes(c, "cleaning", g, registry[g].cached, FALSE) /\ UNCHANGED refresh
  <2>1. /\ refresh' \in [Refreshing -> [at : {"new", "asking", "done", "cancelled"}, in : Number,
                                        asked : SUBSET Provider]]
        /\ \A i \in Refreshing : Asks(i)
    BY <1>6 DEF RegInv, RegTypeOK, Asks
  <2>2. "cleaning" \in {"waiting", "cleaning"}
    OBVIOUS
  <2> QED
    BY <1>1, <1>2, <1>3, <1>6, <2>1, <2>2, QuietStep
<1> QED
  BY <1>4, <1>5, <1>6

LEMMA CleaningGoesOn ==
    ASSUME RegInv, NEW c \in Cleaning, WarmupGone(c) \/ CleanedUp(c)
    PROVE  RegInv' /\ CircuitHolds
<1>1. PICK g \in Number : g = cleaning[c].in
  BY DEF RegInv, RegTypeOK
<1>2. g <= current
  BY <1>1 DEF RegInv, Backed
<1>3. UNCHANGED <<current, registry, request>> /\ cleaning[c].at \notin {"done", "installed"}
  BY DEF WarmupGone, CleanedUp
<1>4. /\ refresh' \in [Refreshing -> [at : {"new", "asking", "done", "cancelled"}, in : Number,
                                      asked : SUBSET Provider]]
      /\ \A i \in Refreshing : Asks(i)
  BY DEF RegInv, RegTypeOK, Asks, WarmupGone, CleanedUp
<1>5. "cleaning" \in {"waiting", "cleaning"}
  OBVIOUS
<1>6. PICK ps \in SUBSET Provider, failed \in BOOLEAN : CleaningBecomes(c, "cleaning", g, ps, failed)
  <2>1. CASE WarmupGone(c)
    <3>1. CleaningBecomes(c, "cleaning", g, registry[g].cached, FALSE)
      BY <1>1, <2>1 DEF WarmupGone
    <3>2. registry[g].cached \in SUBSET Provider /\ FALSE \in BOOLEAN
      BY AllGood, Fields
    <3> QED
      BY <3>1, <3>2
  <2>2. CASE CleanedUp(c)
    <3>1. PICK p \in cleaning[c].left, f \in BOOLEAN :
            CleaningBecomes(c, "cleaning", cleaning[c].in, cleaning[c].left \ {p},
                            f \/ cleaning[c].failed)
      BY <2>2 DEF CleanedUp
    <3>2. cleaning[c].left \ {p} \in SUBSET Provider
      BY DEF RegInv, RegTypeOK
    <3>3. (f \/ cleaning[c].failed) \in BOOLEAN
      OBVIOUS
    <3> QED
      BY <1>1, <3>1, <3>2, <3>3
  <2> QED
    BY <2>1, <2>2
<1> QED
  BY <1>2, <1>3, <1>4, <1>5, <1>6, QuietStep

\* A registry is emptied, and with it the circuits; it is gone from then on.
LEMMA EmptiedStep ==
    ASSUME RegInv, NEW g \in Number, registry' = [registry EXCEPT ![g] = Empty],
           UNCHANGED <<request, refresh>>, current' \in Number, current <= current',
           cleaning' \in [Cleaning -> CleaningType], \A d \in Cleaning : Follows(d),
           Gone(g)'
    PROVE  RegTypeOK' /\ Healthy' /\ Backed' /\ CircuitHolds
<1>1. registry[g] \in RegistryType
  BY DEF RegInv, RegTypeOK
<1>2. /\ registry' \in [Number -> RegistryType] /\ Healthy' /\ CircuitHolds
      /\ registry'[g] = Empty /\ \A h \in Number \ {g} : registry'[h] = registry[h]
  BY <1>1, EmptyRight, OneSteps
<1>3. RegTypeOK'
  BY <1>2 DEF RegInv, RegTypeOK, RequestsOK, CleaningType
<1>4. \A h \in Number : Backs(h)
  BY <1>2 DEF Backs
<1>5. \A j \in Refreshing : Asks(j)
  BY DEF Asks
<1>6. Backed'
  BY <1>3, <1>4, <1>5, BackedKept
<1> QED
  BY <1>2, <1>3, <1>6

LEMMA CutShortStep ==
    ASSUME RegInv, CutShort
    PROVE  RegInv' /\ CircuitHolds
<1>1. /\ Shutdown \in Cleaning /\ 1 \in Number /\ {} \in SUBSET Provider /\ FALSE \in BOOLEAN
      /\ "done" \in {"new", "waiting", "cleaning", "done", "installed"}
  BY Numbers DEF Cleaning
<1>2. CleaningBecomes(Shutdown, "done", 1, {}, FALSE)
  BY DEF CutShort
<1>3. /\ cleaning' \in [Cleaning -> CleaningType]
      /\ cleaning'[Shutdown].at = "done" /\ cleaning'[Shutdown].in = 1
      /\ \A d \in Cleaning \ {Shutdown} : cleaning'[d] = cleaning[d]
  BY <1>1, <1>2, CleaningMoves
<1>4. current' \in Number /\ current <= current' /\ current' >= 1
  BY Numbers DEF RegInv, RegTypeOK, CutShort
<1>5. \A d \in Cleaning : Follows(d)
  BY <1>3, <1>4 DEF Follows, CutShort
<1>6. Gone(1)'
  BY <1>1, <1>3 DEF Gone
<1>7. RegTypeOK' /\ Healthy' /\ Backed' /\ CircuitHolds
  BY <1>1, <1>3, <1>4, <1>5, <1>6, EmptiedStep DEF CutShort
<1>8. \A d \in Change : cleaning'[d].at = "installed" <=> cleaning[d].at = "installed"
  BY <1>3 DEF Cleaning, CutShort
<1>9. Counted'
  BY <1>8, CountedKept DEF CutShort
<1> QED
  BY <1>7, <1>9 DEF RegInv

\* The number that is installed is one more than the last, for another change is through.
LEMMA EndCleanupStep ==
    ASSUME RegInv, NEW c \in Cleaning, EndCleanup(c)
    PROVE  RegInv' /\ CircuitHolds
<1> DEFINE installs == c \in Change /\ ~cleaning[c].failed
           e == IF installs THEN "installed" ELSE "done"
<1>1. PICK g \in Number : g = cleaning[c].in
  BY DEF RegInv, RegTypeOK
<1>2. PICK f \in BOOLEAN : f = cleaning[c].failed
  BY DEF RegInv, RegTypeOK
<1>3. /\ CleaningBecomes(c, e, g, {}, f) /\ registry' = [registry EXCEPT ![g] = Empty]
      /\ current' = IF installs THEN Cardinality(Installed) + 2 ELSE current
      /\ UNCHANGED <<request, refresh>> /\ cleaning[c].at = "cleaning"
  BY <1>1, <1>2 DEF EndCleanup, Installed
<1>4. /\ e \in {"new", "waiting", "cleaning", "done", "installed"} /\ {} \in SUBSET Provider
      /\ e = "installed" <=> installs
      /\ e # "installed" => e = "done"
  OBVIOUS
<1> HIDE DEF e
<1>5. /\ cleaning' \in [Cleaning -> CleaningType]
      /\ cleaning'[c].at = e /\ cleaning'[c].in = g
      /\ \A d \in Cleaning \ {c} : cleaning'[d] = cleaning[d]
  BY <1>3, <1>4, CleaningMoves
<1>6. /\ IsFiniteSet(Installed) /\ Cardinality(Installed) \in Nat
      /\ current = 1 + Cardinality(Installed) /\ Installed \subseteq Change /\ g <= current
  <2>1. IsFiniteSet(Installed) /\ Installed \subseteq Change
    BY RegistryAssumption, FS_Subset DEF Installed
  <2> QED
    BY <1>1, <2>1, FS_CardinalityType DEF RegInv, Counted, Backed
<1>7. /\ installs => Installed' = Installed \union {c} /\ c \notin Installed
      /\ ~installs => Installed' = Installed
  <2>1. ~installs => c \notin Change \/ cleaning'[c].at = "done"
    BY <1>4, <1>5
  <2> QED
    BY <1>3, <1>4, <1>5, <2>1 DEF Installed, Cleaning
<1>8. current' = 1 + Cardinality(Installed') /\ current <= current' /\ (installs => g < current')
  <2>1. CASE installs
    <3>1. Cardinality(Installed') = Cardinality(Installed) + 1
      BY <1>6, <1>7, <2>1, FS_AddElement
    <3> QED
      BY <1>3, <1>6, <2>1, <3>1, Numbers
  <2>2. CASE ~installs
    BY <1>3, <1>6, <1>7, <2>2
  <2> QED
    BY <2>1, <2>2
<1>9. current' \in Number
  <2>1. Installed' \subseteq Change
    BY DEF Installed
  <2>2. Cardinality(Installed') \in Nat /\ Cardinality(Installed') <= Cardinality(Change)
    BY <2>1, RegistryAssumption, FS_Subset, FS_CardinalityType
  <2> QED
    BY <1>8, <2>2, Numbers
<1>10. \A d \in Cleaning : Follows(d)
  <2>1. current' \in Nat /\ g <= current'
    BY <1>6, <1>8, <1>9, Numbers
  <2> QED
    BY <1>3, <1>5, <2>1 DEF Follows
<1>11. Gone(g)'
  BY <1>4, <1>5, <1>8 DEF Gone
<1>12. RegTypeOK' /\ Healthy' /\ Backed' /\ CircuitHolds
  BY <1>3, <1>5, <1>8, <1>9, <1>10, <1>11, EmptiedStep
<1> QED
  BY <1>8, <1>12 DEF RegInv, Counted

-----------------------------------------------------------------------------
(* The registry's invariant and its steps.                                 *)

LEMMA RegStart ==
    ASSUME RegInit
    PROVE  RegInv
<1>1. /\ current = 1 /\ registry = [g \in Number |-> Empty]
      /\ request = [r \in Request |-> [at |-> "new", in |-> 1, to |-> "none"]]
      /\ refresh = [j \in Refreshing |-> [at |-> "new", in |-> 1, asked |-> {}]]
      /\ cleaning = [c \in Cleaning |-> [at |-> "new", in |-> 1, left |-> {}, failed |-> FALSE]]
  BY DEF RegInit
<1>2. RegTypeOK
  <2>1. registry \in [Number -> RegistryType] /\ current \in Number
    BY <1>1, EmptyRight, Numbers DEF Good
  <2>2. RequestsOK
    BY <1>1, Numbers DEF RequestsOK, RequestType
  <2>3. refresh \in [Refreshing -> [at : {"new", "asking", "done", "cancelled"}, in : Number,
                                    asked : SUBSET Provider]]
    BY <1>1, Numbers
  <2>4. cleaning \in [Cleaning -> [at : {"new", "waiting", "cleaning", "done", "installed"},
                                   in : Number, left : SUBSET Provider, failed : BOOLEAN]]
    BY <1>1, Numbers
  <2> QED
    BY <2>1, <2>2, <2>3, <2>4 DEF RegTypeOK
<1>3. Healthy
  BY <1>1, EmptyRight DEF Healthy, Good
<1>4. Counted
  <2>1. Installed = {}
    BY <1>1 DEF Installed, Cleaning
  <2> QED
    BY <1>1, <2>1, FS_EmptySet DEF Counted
<1>5. Backed
  BY <1>1, EmptyRight, Numbers DEF Backed
<1> QED
  BY <1>2, <1>3, <1>4, <1>5 DEF RegInv

LEMMA RegStep ==
    ASSUME RegInv, RegNext
    PROVE  RegInv' /\ CircuitHolds
<1>1. CASE \E r \in Request : \/ Arrive(r) \/ Serve(r) \/ StreamServed(r) \/ StreamApologizes(r)
                              \/ StreamBreaks(r) \/ StreamLeft(r)
  BY <1>1, ArriveStep, ServeStep, StreamsStep
<1>2. CASE StartWarmup
  BY <1>2, AskAllStep DEF StartWarmup, Refreshing
<1>3. CASE \E j \in Refresh : StartRefresh(j) \/ \E p \in Provider : Test(j, p) \/ TestKeyless(j, p)
  <2>1. PICK j \in Refresh : StartRefresh(j) \/ \E p \in Provider : Test(j, p) \/ TestKeyless(j, p)
    BY <1>3
  <2>2. j \in Refreshing
    BY DEF Refreshing
  <2>3. CASE StartRefresh(j)
    BY <2>2, <2>3, AskAllStep DEF StartRefresh
  <2>4. CASE \E p \in Provider : Test(j, p)
    <3>1. PICK p \in Provider : Test(j, p)
      BY <2>4
    <3>2. {p} \in SUBSET (Provider \ Keyless)
      BY <3>1 DEF Test
    <3> QED
      BY <2>2, <3>1, <3>2, AskAllStep DEF Test
  <2>5. CASE \E p \in Provider : TestKeyless(j, p)
    BY <2>2, <2>5, TestKeylessStep
  <2> QED
    BY <2>1, <2>3, <2>4, <2>5
<1>4. CASE \E j \in Refreshing : Answered(j)
  BY <1>4, AnsweredStep
<1>5. CASE \E c \in Cleaning : BeginCleanup(c) \/ WarmupGone(c) \/ CleanedUp(c) \/ EndCleanup(c)
  BY <1>5, BeginCleanupStep, CleaningGoesOn, EndCleanupStep
<1>6. CASE CutShort \/ CoolDown
  BY <1>6, CutShortStep, CoolDownStep
<1> QED
  BY <1>1, <1>2, <1>3, <1>4, <1>5, <1>6 DEF RegNext

LEMMA RegStutter ==
    ASSUME RegInv, UNCHANGED regVars
    PROVE  RegInv' /\ CircuitHolds
<1>1. UNCHANGED <<current, registry, request, refresh, cleaning>>
  BY DEF regVars
<1>2. CircuitHolds
  BY <1>1, NoneSteps
<1>3. RegTypeOK'
  BY <1>1 DEF RegInv, RegTypeOK, RequestsOK
<1>4. (\A g \in Number : Backs(g)) /\ (\A j \in Refreshing : Asks(j))
  BY <1>1 DEF Backs, Asks
<1> QED
  BY <1>1, <1>2, <1>3, <1>4, NoneSteps, CalmStep

\* A registry that is in use and whose cleanup has ended has not been replaced.
LEMMA RegSafe ==
    ASSUME RegInv
    PROVE  RegistrySound
<1>1. \A g \in Number, p \in Provider :
          registry[g].circuit[p] # Closed => registry[g].failures[p] = Threshold
  BY DEF RegInv, Healthy, HealthOf
<1>2. PICK g \in Number : g = current
  BY DEF RegInv, RegTypeOK
<1>3. ~(g < current)
  BY <1>2, Numbers
<1>4. Gone(g) => \E c \in Cleaning : cleaning[c].in = current /\ cleaning[c].at = "done"
  BY <1>2, <1>3 DEF Gone
<1>5. registry[g].listed \subseteq registry[g].cached \/ Gone(g)
  BY DEF RegInv, Backed
<1> QED
  BY <1>1, <1>2, <1>4, <1>5 DEF RegistrySound

(***************************************************************************)
(* The admin page's configuration.  The number of a registry comes from    *)
(* the applies that are done, so registries beyond the one in use are      *)
(* fresh; what is cached, or read by a request, is of the last write; and  *)
(* an instance of older settings is on its way out.                        *)
(***************************************************************************)
ApplyType == [at : {"new", "rejected", "cleanup", "restart", "done", "restarted"},
              asked : Payloads \union {Admin!NoFile}, old : Admin!Number,
              pending : SUBSET Admin!Manual]

AdminTypeOK ==
    /\ apply \in [Apply -> ApplyType]
    /\ ask \in [Ask -> [at : {"new", "settings", "done"}, settings : Nat]]
    /\ server \in [cached : Nat, registry : Admin!Number, pending : SUBSET Admin!Manual,
                   callback : BOOLEAN]
    /\ inst \in [Admin!Number -> Nat] /\ writes \in Nat

\* There is no managed file, or it has every key, in a form that a rewrite leaves alone.
WholeFile(f) == DOMAIN f = Admin!Key /\ \A k \in Admin!Key : Admin!Reread(f[k]) = f[k]
ManagedOK == managed = Admin!NoFile \/ WholeFile(managed)

Done == {a \in Apply : apply[a].at = "done"}
UnderWay == \E a \in Apply : apply[a].at \in {"cleanup", "restart"}

Fresh ==
    /\ server.registry = 1 + Cardinality(Done)
    /\ \A g \in Admin!Number : g > server.registry => inst[g] = Admin!None

UpToDate ==
    /\ server.cached \in {Admin!None, writes}
    /\ crossed \/ \A r \in Ask : ask[r].at = "settings" => ask[r].settings = writes
    /\ crossed \/ UnderWay \/ inst[server.registry] \in {Admin!None, writes}

AppliedValid == writes > 0 => Admin!Valid(Admin!Over(Admin!Locks, managed))

AdminInv == AdminTypeOK /\ ManagedOK /\ Fresh /\ UpToDate /\ AppliedValid

-----------------------------------------------------------------------------
(* Which layer a value comes from.                                         *)

LEMMA OverDomain ==
    ASSUME NEW high, NEW low
    PROVE  DOMAIN Admin!Over(high, low) = DOMAIN low \union DOMAIN high
  BY DEF Admin!Over

LEMMA LocksIs == DOMAIN Admin!Locks = Admin!Locked
  BY DEF Admin!Locks, Admin!Locked, Admin!Over

LEMMA KeyIs ==
    /\ DOMAIN Admin!Template = Admin!Key /\ DOMAIN Admin!Default = Admin!Key
    /\ DOMAIN Admin!NoFile = {} /\ Admin!Token \in Admin!Key /\ Admin!Token \notin Admin!Manual
    /\ "WHISPER_DEVICE" \in Admin!Key /\ "NVIDIA_NIM_API_KEY" \in Admin!Key
    /\ Admin!Manual \subseteq Admin!Key
  BY DEF Admin!Template, Admin!Default, Admin!NoFile, Admin!Token, Admin!Key, Admin!Manual

LEMMA ShownIs ==
    ASSUME NEW f, NEW k \in Admin!Key
    PROVE  /\ k \in Admin!Locked => Admin!Shown(f)[k] = Admin!Locks[k]
           /\ k \notin Admin!Locked /\ k \in DOMAIN f => Admin!Shown(f)[k] = f[k]
           /\ k \notin Admin!Locked /\ k \notin DOMAIN f /\ k \in DOMAIN layer.repo
                 => Admin!Shown(f)[k] = layer.repo[k]
           /\ k \notin Admin!Locked /\ k \notin DOMAIN f /\ k \notin DOMAIN layer.repo
                 => Admin!Shown(f)[k] = Admin!Template[k]
<1> DEFINE low == Admin!Over(layer.repo, Admin!Template)
           middle == Admin!Over(f, low)
<1>1. DOMAIN low = Admin!Key \union DOMAIN layer.repo
  BY OverDomain, KeyIs
<1>2. k \in DOMAIN low /\ low[k] = IF k \in DOMAIN layer.repo THEN layer.repo[k] ELSE Admin!Template[k]
  BY <1>1, KeyIs DEF Admin!Over
<1> HIDE DEF low
<1>3. k \in DOMAIN middle /\ middle[k] = IF k \in DOMAIN f THEN f[k] ELSE low[k]
  BY <1>2 DEF Admin!Over
<1> HIDE DEF middle
<1>4. Admin!Over(Admin!Locks, middle)[k] = IF k \in Admin!Locked THEN Admin!Locks[k] ELSE middle[k]
  BY <1>3, LocksIs DEF Admin!Over
<1> QED
  BY <1>2, <1>3, <1>4 DEF Admin!Shown, low, middle

LEMMA UsedIs ==
    ASSUME NEW f, NEW k \in Admin!Key
    PROVE  /\ k # Admin!Token /\ k \in Admin!Locked => Admin!Used(f)[k] = Admin!Locks[k]
           /\ k # Admin!Token /\ k \notin Admin!Locked /\ k \in DOMAIN f => Admin!Used(f)[k] = f[k]
           /\ k = Admin!Token /\ k \in DOMAIN layer.explicit => Admin!Used(f)[k] = layer.explicit[k]
           /\ k = Admin!Token /\ k \notin DOMAIN layer.explicit /\ k \in DOMAIN f
                 => Admin!Used(f)[k] = f[k]
<1> DEFINE low == Admin!Over(f, Admin!Default)
           all == Admin!Over(Admin!Locks, low)
           some == Admin!Over(layer.explicit, f)
<1>1. k \in DOMAIN low /\ low[k] = IF k \in DOMAIN f THEN f[k] ELSE Admin!Default[k]
  BY KeyIs DEF Admin!Over
<1> HIDE DEF low
<1>2. k \in DOMAIN all /\ all[k] = IF k \in Admin!Locked THEN Admin!Locks[k] ELSE low[k]
  BY <1>1, LocksIs DEF Admin!Over
<1>3. Admin!Over(layer.explicit, f) = some /\ DOMAIN some = DOMAIN f \union DOMAIN layer.explicit
  BY OverDomain
<1>4. \A t \in DOMAIN some : some[t] = IF t \in DOMAIN layer.explicit THEN layer.explicit[t] ELSE f[t]
  BY DEF Admin!Over
<1>5. Admin!Used(f) = [all EXCEPT ![Admin!Token] = IF Admin!Token \in DOMAIN some
                                                   THEN some[Admin!Token] ELSE all[Admin!Token]]
  BY DEF Admin!Used, low
<1>6. all = [t \in DOMAIN all |-> all[t]]
  BY DEF Admin!Over
<1> HIDE DEF all, some
<1>7. Admin!Used(f)[k] = IF k = Admin!Token /\ k \in DOMAIN some THEN some[k] ELSE all[k]
  BY <1>2, <1>5, <1>6
<1> QED
  BY <1>1, <1>2, <1>3, <1>4, <1>7

-----------------------------------------------------------------------------
(* What a write leaves.                                                    *)

\* The keys whose new value is taken over.
Took(p) == {k \in DOMAIN p \ Admin!Locked : ~(k \in Admin!Secret /\ p[k] = Admin!Mask)}

LEMMA TemplatePlain == \A k \in Admin!Key : Admin!Reread(Admin!Template[k]) = Admin!Template[k]
  BY DEF Admin!Template, Admin!Key, Admin!Reread, Admin!Token

LEMMA BaseIs ==
    ASSUME ManagedOK
    PROVE  /\ Admin!Key \subseteq DOMAIN Admin!Base
           /\ managed # Admin!NoFile => \A k \in Admin!Key : Admin!Base[k] = managed[k]
           /\ managed = Admin!NoFile =>
                 \A k \in Admin!Key :
                     Admin!Base[k] = IF k \in DOMAIN layer.repo \ Admin!Locked
                                     THEN layer.repo[k] ELSE Admin!Template[k]
<1>1. CASE managed # Admin!NoFile
  <2>1. DOMAIN managed = Admin!Key
    BY <1>1 DEF ManagedOK, WholeFile
  <2>2. Admin!Base = Admin!Over(managed, Admin!Template)
    BY <1>1 DEF Admin!Base
  <2> QED
    BY <1>1, <2>1, <2>2, KeyIs DEF Admin!Over
<1>2. CASE managed = Admin!NoFile
  <2> DEFINE high == [k \in DOMAIN layer.repo \ Admin!Locked |-> layer.repo[k]]
  <2>1. DOMAIN high = DOMAIN layer.repo \ Admin!Locked
        /\ \A k \in DOMAIN high : high[k] = layer.repo[k]
    OBVIOUS
  <2>2. Admin!Base = Admin!Over(high, Admin!Template)
    BY <1>2 DEF Admin!Base
  <2> HIDE DEF high
  <2> QED
    BY <1>2, <2>1, <2>2, KeyIs DEF Admin!Over
<1> QED
  BY <1>1, <1>2

LEMMA TargetIs ==
    ASSUME ManagedOK, NEW p, NEW k \in Admin!Key
    PROVE  /\ k \in DOMAIN Admin!Target(p)
           /\ Admin!Target(p)[k] = IF k \in Took(p) THEN p[k] ELSE Admin!Base[k]
<1> DEFINE high == Admin!Taken(p)
<1>1. DOMAIN high = Took(p) /\ \A l \in Took(p) : high[l] = p[l]
  BY DEF Admin!Taken, Took
<1>2. Admin!Target(p) = Admin!Over(high, Admin!Base)
  BY DEF Admin!Target
<1>3. k \in DOMAIN Admin!Base
  BY BaseIs
<1> HIDE DEF high
<1> QED
  BY <1>1, <1>2, <1>3 DEF Admin!Over

LEMMA WrittenIs ==
    ASSUME ManagedOK, NEW p
    PROVE  /\ WholeFile(Admin!Written(p))
           /\ \A k \in Admin!Key : Admin!Written(p)[k] = Admin!Reread(IF k \in Took(p) THEN p[k]
                                                                     ELSE Admin!Base[k])
<1>1. /\ DOMAIN Admin!Written(p) = Admin!Key
      /\ \A k \in Admin!Key : Admin!Written(p)[k] = Admin!Reread(Admin!Target(p)[k])
  BY DEF Admin!Written
<1>2. \A k \in Admin!Key : Admin!Target(p)[k] = IF k \in Took(p) THEN p[k] ELSE Admin!Base[k]
  BY TargetIs
<1>3. \A k \in Admin!Key : Admin!Written(p)[k] = Admin!Reread(IF k \in Took(p) THEN p[k]
                                                               ELSE Admin!Base[k])
  BY <1>1, <1>2
<1>4. \A k \in Admin!Key : Admin!Reread(Admin!Written(p)[k]) = Admin!Written(p)[k]
  BY <1>1 DEF Admin!Reread
<1> QED
  BY <1>1, <1>3, <1>4 DEF WholeFile

\* What is valid before it is written is valid when it is read again.
LEMMA WrittenValid ==
    ASSUME ManagedOK, NEW p, Admin!Valid(Admin!Over(Admin!Locks, Admin!Target(p)))
    PROVE  Admin!Valid(Admin!Over(Admin!Locks, Admin!Written(p)))
<1> DEFINE v == Admin!Over(Admin!Locks, Admin!Target(p))
           w == Admin!Over(Admin!Locks, Admin!Written(p))
<1>1. \A k \in Admin!Key :
          /\ k \in Admin!Locked => v[k] = w[k]
          /\ k \notin Admin!Locked => w[k] = Admin!Reread(v[k])
  <2> SUFFICES ASSUME NEW k \in Admin!Key
               PROVE  /\ k \in Admin!Locked => v[k] = w[k]
                      /\ k \notin Admin!Locked => w[k] = Admin!Reread(v[k])
    OBVIOUS
  <2>1. k \in DOMAIN Admin!Target(p) /\ k \in DOMAIN Admin!Written(p)
    BY TargetIs DEF Admin!Written
  <2>2. Admin!Written(p)[k] = Admin!Reread(Admin!Target(p)[k])
    BY DEF Admin!Written
  <2>3. v[k] = IF k \in Admin!Locked THEN Admin!Locks[k] ELSE Admin!Target(p)[k]
    BY <2>1, LocksIs DEF Admin!Over
  <2>4. w[k] = IF k \in Admin!Locked THEN Admin!Locks[k] ELSE Admin!Written(p)[k]
    BY <2>1, LocksIs DEF Admin!Over
  <2> QED
    BY <2>2, <2>3, <2>4
<1> HIDE DEF v, w
<1>2. \A k \in Admin!Key : /\ w[k] = "nvidia_nim" <=> v[k] = "nvidia_nim"
                           /\ w[k] = "" <=> v[k] = ""
  BY <1>1 DEF Admin!Reread
<1>3. Admin!Valid(v)
  BY DEF v
<1>4. Admin!Valid(w)
  BY <1>2, <1>3, KeyIs DEF Admin!Valid
<1> QED
  BY <1>4 DEF w

\* A write changes what it was asked to change, and reports what waits for a restart.
LEMMA WriteChanges ==
    ASSUME ManagedOK, NEW p \in Payloads, NEW f, f = Admin!Written(p)
    PROVE  /\ \A k \in Admin!Key \ Took(p) :
                 Admin!Reread(Admin!Shown(managed)[k]) = Admin!Reread(Admin!Shown(f)[k])
           /\ WholeFile(managed) =>
                 \A k \in Admin!Key \ Took(p) : Admin!Used(managed)[k] = Admin!Used(f)[k]
           /\ \A k \in Took(p) : /\ Admin!Shown(f)[k] = Admin!Reread(p[k])
                                 /\ Admin!Used(f)[k] = Admin!Reread(p[k])
           /\ WholeFile(managed) =>
                 {k \in Admin!Manual : Admin!Used(managed)[k] # Admin!Used(f)[k]}
                     \subseteq Admin!Pending(p)
<1>1. DOMAIN f = Admin!Key /\ \A k \in Admin!Key : Admin!Reread(f[k]) = f[k]
  BY WrittenIs DEF WholeFile
<1>2. \A k \in Admin!Key : f[k] = Admin!Reread(IF k \in Took(p) THEN p[k] ELSE Admin!Base[k])
  BY WrittenIs
<1>3. Took(p) \subseteq Admin!Key /\ \A k \in Took(p) : k \notin Admin!Locked
  BY AdminAssumption DEF Took
<1>4. WholeFile(managed) => managed # Admin!NoFile
  BY KeyIs DEF WholeFile
<1>5. ASSUME NEW k \in Admin!Key \ Took(p)
      PROVE  Admin!Reread(Admin!Shown(managed)[k]) = Admin!Reread(Admin!Shown(f)[k])
  <2>1. CASE k \in Admin!Locked
    BY <2>1, ShownIs
  <2>2. CASE k \notin Admin!Locked
    <3>1. Admin!Shown(f)[k] = f[k] /\ f[k] = Admin!Reread(Admin!Base[k])
      BY <1>1, <1>2, <2>2, ShownIs
    <3>2. Admin!Shown(managed)[k] = Admin!Base[k]
      <4>1. CASE managed # Admin!NoFile
        <5>1. k \in DOMAIN managed
          BY <4>1 DEF ManagedOK, WholeFile
        <5> QED
          BY <2>2, <4>1, <5>1, BaseIs, ShownIs
      <4>2. CASE managed = Admin!NoFile
        <5>1. k \notin DOMAIN managed
          BY <4>2, KeyIs
        <5> QED
          BY <2>2, <4>2, <5>1, BaseIs, ShownIs
      <4> QED
        BY <4>1, <4>2
    <3> QED
      BY <1>1, <3>1, <3>2
  <2> QED
    BY <2>1, <2>2
<1>6. ASSUME WholeFile(managed), NEW k \in Admin!Key \ Took(p)
      PROVE  Admin!Used(managed)[k] = Admin!Used(f)[k]
  <2>1. DOMAIN managed = Admin!Key /\ Admin!Reread(managed[k]) = managed[k]
    BY <1>6 DEF WholeFile
  <2>2. f[k] = managed[k]
    BY <1>2, <1>4, <1>6, <2>1, BaseIs
  <2>3. CASE k # Admin!Token
    BY <1>1, <2>1, <2>2, <2>3, UsedIs
  <2>4. CASE k = Admin!Token
    BY <1>1, <2>1, <2>2, <2>4, UsedIs
  <2> QED
    BY <2>3, <2>4
<1>7. ASSUME NEW k \in Took(p)
      PROVE  Admin!Shown(f)[k] = Admin!Reread(p[k]) /\ Admin!Used(f)[k] = Admin!Reread(p[k])
  <2>1. k \in Admin!Key /\ k \notin Admin!Locked /\ f[k] = Admin!Reread(p[k])
    BY <1>2, <1>3
  <2>2. k \notin DOMAIN layer.explicit
    BY <2>1 DEF Admin!Locked
  <2> QED
    BY <1>1, <2>1, <2>2, ShownIs, UsedIs
<1>8. ASSUME WholeFile(managed), NEW k \in Admin!Manual, Admin!Used(managed)[k] # Admin!Used(f)[k]
      PROVE  k \in Admin!Pending(p)
  <2>1. k \in Admin!Key /\ k # Admin!Token
    BY KeyIs
  <2>2. k \in Took(p)
    BY <1>6, <1>8, <2>1
  <2>3. k \in DOMAIN p /\ k \notin Admin!Locked
    BY <2>2 DEF Took
  <2>4. k \in DOMAIN managed /\ Admin!Reread(managed[k]) = managed[k]
    BY <1>8, <2>1 DEF WholeFile
  <2>5. Admin!Used(managed)[k] = managed[k] /\ Admin!Shown(managed)[k] = managed[k]
    BY <2>1, <2>3, <2>4, UsedIs, ShownIs
  <2>6. Admin!Used(f)[k] = Admin!Reread(p[k])
    BY <1>7, <2>2
  <2>7. p[k] # Admin!Shown(managed)[k]
    BY <1>8, <2>4, <2>5, <2>6
  <2> QED
    BY <2>3, <2>7 DEF Admin!Pending
<1> QED
  BY <1>5, <1>6, <1>7, <1>8

-----------------------------------------------------------------------------
(* The steps of the applies and the requests.                              *)

AdminSteps == Admin!OnlyAskedChange /\ Admin!PendingReported

\* What begins is a write.
LEMMA NoneBegins ==
    ASSUME \A a \in Apply : apply'[a].at \in {"cleanup", "restart"} => apply[a].at # "new"
    PROVE  AdminSteps
  BY DEF AdminSteps, Admin!OnlyAskedChange, Admin!PendingReported, Admin!Begins

LEMMA Applies ==
    ASSUME AdminTypeOK, NEW a \in Apply, NEW e,
           apply' \in [Apply -> ApplyType], apply'[a].at = e,
           \A b \in Apply \ {a} : apply'[b] = apply[b]
    PROVE  /\ apply[a].at # "done" /\ e # "done" => Done' = Done
           /\ apply[a].at # "done" /\ e = "done" => Done' = Done \union {a} /\ a \notin Done
           /\ e \in {"cleanup", "restart"} => UnderWay'
           /\ apply[a].at \notin {"cleanup", "restart"} /\ UnderWay => UnderWay'
  BY DEF Done, UnderWay

LEMMA AdminNumbers ==
    /\ Admin!Number \subseteq Nat /\ 1 \in Admin!Number /\ Cardinality(Apply) \in Nat
    /\ \A n \in Nat : n \in Admin!Number <=> n >= 1 /\ n <= 1 + Cardinality(Apply)
<1>1. Admin!Number = 1..(1 + Cardinality(Apply))
  BY DEF Admin!Number, Admin!Cardinality, Cardinality
<1>2. Cardinality(Apply) \in Nat
  BY AdminAssumption, FS_CardinalityType
<1> QED
  BY <1>1, <1>2

LEMMA WriteStep ==
    ASSUME AdminInv, NEW a \in Apply, NEW p \in Payloads, Admin!Write(a, p)
    PROVE  AdminInv' /\ AdminSteps
<1> DEFINE auto == Admin!Pending(p) # {} /\ server.callback
           e == IF auto THEN "restart" ELSE "cleanup"
<1>1. /\ apply[a].at = "new" /\ Admin!Valid(Admin!Over(Admin!Locks, Admin!Target(p)))
      /\ managed' = Admin!Written(p) /\ writes' = writes + 1
      /\ server' = [server EXCEPT !.cached = Admin!None, !.pending = IF auto THEN {} ELSE @]
      /\ apply' = [apply EXCEPT ![a] = [at |-> e, asked |-> p, old |-> server.registry,
                                        pending |-> Admin!Pending(p)]]
      /\ crossed' = (crossed \/ \E r \in Ask : ask[r].at = "settings")
      /\ UNCHANGED <<layer, inst, ask>>
  BY DEF Admin!Write, Admin!Forgotten
<1>2. e \in {"cleanup", "restart"}
  OBVIOUS
<1> HIDE DEF e
<1>3. Admin!Pending(p) \subseteq Admin!Manual /\ Admin!None \in Nat
  BY DEF Admin!Pending, Admin!None
<1>4. /\ apply' \in [Apply -> ApplyType]
      /\ apply'[a].at = e /\ apply'[a].asked = p /\ apply'[a].pending = Admin!Pending(p)
      /\ \A b \in Apply \ {a} : apply'[b] = apply[b]
  <2>1. [at |-> e, asked |-> p, old |-> server.registry, pending |-> Admin!Pending(p)] \in ApplyType
    BY <1>2, <1>3 DEF AdminInv, AdminTypeOK, ApplyType
  <2> QED
    BY <1>1, <2>1 DEF AdminInv, AdminTypeOK
<1>5. /\ server' \in [cached : Nat, registry : Admin!Number, pending : SUBSET Admin!Manual,
                      callback : BOOLEAN]
      /\ server'.cached = Admin!None /\ server'.registry = server.registry
  <2>1. server \in [cached : Nat, registry : Admin!Number, pending : SUBSET Admin!Manual,
                    callback : BOOLEAN]
    BY DEF AdminInv, AdminTypeOK
  <2>2. PICK ps \in SUBSET Admin!Manual : server' = [server EXCEPT !.cached = Admin!None, !.pending = ps]
    <3>1. CASE auto
      BY <1>1, <3>1
    <3>2. CASE ~auto
      BY <1>1, <2>1, <3>2
    <3> QED
      BY <3>1, <3>2
  <2> QED
    BY <1>3, <2>1, <2>2
<1>6. AdminTypeOK'
  <2>1. writes' \in Nat /\ inst' \in [Admin!Number -> Nat]
    BY <1>1 DEF AdminInv, AdminTypeOK
  <2>2. ask' \in [Ask -> [at : {"new", "settings", "done"}, settings : Nat]]
    BY <1>1 DEF AdminInv, AdminTypeOK
  <2> QED
    BY <1>4, <1>5, <2>1, <2>2 DEF AdminTypeOK
<1>7. Done' = Done /\ UnderWay'
  BY <1>1, <1>2, <1>4, Applies DEF AdminInv
<1>8. Fresh'
  BY <1>1, <1>5, <1>7 DEF AdminInv, Fresh
<1>9. UpToDate'
  BY <1>1, <1>5, <1>7 DEF AdminInv, UpToDate
<1>10. ManagedOK'
  BY <1>1, WrittenIs DEF AdminInv, ManagedOK, WholeFile
<1>11. AppliedValid'
  <2>1. Admin!Valid(Admin!Over(Admin!Locks, Admin!Written(p)))
    BY <1>1, WrittenValid DEF AdminInv
  <2>2. Admin!Locks' = Admin!Locks
    BY <1>1 DEF Admin!Locks
  <2> QED
    BY <1>1, <2>1, <2>2 DEF AppliedValid
<1>12. AdminSteps
  <2>1. \A b \in Apply : Admin!Begins(b) => b = a
    BY <1>4 DEF Admin!Begins
  <2>2. Admin!OnlyAskedChange
    <3> SUFFICES LET took == {k \in DOMAIN p \ Admin!Locked : p[k] # Admin!Mask \/ k \notin Admin!Secret}
                 IN /\ \A k \in Admin!Key \ took :
                          /\ Admin!Reread(Admin!Shown(managed)[k]) = Admin!Reread(Admin!Shown(managed')[k])
                          /\ Admin!Whole(managed) => Admin!Used(managed)[k] = Admin!Used(managed')[k]
                    /\ \A k \in took : /\ Admin!Shown(managed')[k] = Admin!Reread(p[k])
                                      /\ Admin!Used(managed')[k] = Admin!Reread(p[k])
      BY <1>4, <2>1 DEF Admin!OnlyAskedChange
    <3>1. {k \in DOMAIN p \ Admin!Locked : p[k] # Admin!Mask \/ k \notin Admin!Secret} = Took(p)
      BY DEF Took
    <3>2. Admin!Whole(managed) => WholeFile(managed)
      BY KeyIs DEF Admin!Whole, AdminInv, ManagedOK, WholeFile
    <3> QED
      BY <1>1, <3>1, <3>2, WriteChanges DEF AdminInv
  <2>3. Admin!PendingReported
    <3>1. Admin!Whole(managed) => WholeFile(managed)
      BY KeyIs DEF Admin!Whole, AdminInv, ManagedOK, WholeFile
    <3>2. WholeFile(managed) => {k \in Admin!Manual : Admin!Used(managed)[k] # Admin!Used(managed')[k]}
                                    \subseteq Admin!Pending(p)
      BY <1>1, WriteChanges DEF AdminInv
    <3> QED
      BY <1>4, <2>1, <3>1, <3>2 DEF Admin!PendingReported
  <2> QED
    BY <2>2, <2>3 DEF AdminSteps
<1> QED
  BY <1>6, <1>8, <1>9, <1>10, <1>11, <1>12 DEF AdminInv

\* The steps that write nothing.
LEMMA NothingWritten ==
    ASSUME AdminInv, UNCHANGED <<layer, managed, writes>>
    PROVE  ManagedOK' /\ AppliedValid'
<1>1. Admin!Locks' = Admin!Locks
  BY DEF Admin!Locks
<1> QED
  BY <1>1 DEF AdminInv, ManagedOK, AppliedValid, WholeFile, Admin!NoFile, Admin!Key, Admin!Valid,
              Admin!Over

LEMMA RejectStep ==
    ASSUME AdminInv, NEW a \in Apply, NEW p \in Payloads, Admin!Reject(a, p)
    PROVE  AdminInv' /\ AdminSteps
<1>1. /\ apply[a].at = "new" /\ apply' = [apply EXCEPT ![a].at = "rejected"]
      /\ UNCHANGED <<layer, managed, server, inst, writes, ask, crossed>>
  BY DEF Admin!Reject
<1>2. apply \in [Apply -> ApplyType]
  BY DEF AdminInv, AdminTypeOK
<1>3. /\ apply' \in [Apply -> ApplyType] /\ apply'[a].at = "rejected"
      /\ \A b \in Apply \ {a} : apply'[b] = apply[b]
  BY <1>1, <1>2 DEF ApplyType
<1>4. AdminTypeOK'
  BY <1>1, <1>3 DEF AdminInv, AdminTypeOK
<1>5. Done' = Done /\ (UnderWay => UnderWay')
  BY <1>1, <1>3, Applies DEF AdminInv
<1>6. Fresh'
  BY <1>1, <1>5 DEF AdminInv, Fresh
<1>7. UpToDate'
  BY <1>1, <1>5 DEF AdminInv, UpToDate
<1>8. ManagedOK' /\ AppliedValid'
  BY <1>1, NothingWritten
<1>9. AdminSteps
  BY <1>3, NoneBegins
<1> QED
  BY <1>4, <1>6, <1>7, <1>8, <1>9 DEF AdminInv

\* The registry that is installed is fresh: no instance is in it.
LEMMA ServerInstallStep ==
    ASSUME AdminInv, NEW a \in Apply, Admin!Install(a)
    PROVE  AdminInv' /\ AdminSteps
<1> DEFINE g == 1 + Cardinality(Done) + 1
           mine == [at |-> "done", asked |-> Admin!NoFile, old |-> 1, pending |-> {}]
<1>1. /\ apply[a].at = "cleanup"
      /\ inst' = [inst EXCEPT ![apply[a].old] = Admin!None]
      /\ server' = [server EXCEPT !.registry = g, !.pending = apply[a].pending]
      /\ apply' = [apply EXCEPT ![a] = mine]
      /\ UNCHANGED <<layer, managed, writes, ask, crossed>>
  BY DEF Admin!Install, Admin!Cardinality, Cardinality, Done
<1>2. /\ Admin!Number \subseteq Nat /\ 1 \in Admin!Number /\ Cardinality(Apply) \in Nat
      /\ \A n \in Nat : n \in Admin!Number <=> n >= 1 /\ n <= 1 + Cardinality(Apply)
  BY AdminNumbers
<1>3. /\ apply' \in [Apply -> ApplyType] /\ apply'[a].at = "done"
      /\ \A b \in Apply \ {a} : apply'[b] = apply[b]
  <2>1. mine \in ApplyType
    BY <1>2 DEF ApplyType
  <2> QED
    BY <1>1, <2>1 DEF AdminInv, AdminTypeOK
<1>4. Done' = Done \union {a} /\ a \notin Done
  BY <1>1, <1>3, Applies DEF AdminInv
<1>5. IsFiniteSet(Done) /\ Cardinality(Done) \in Nat
  <2>1. Done \subseteq Apply
    BY DEF Done
  <2> QED
    BY <2>1, AdminAssumption, FS_Subset, FS_CardinalityType
<1>6. g = 1 + Cardinality(Done') /\ g \in Admin!Number
  <2>1. Cardinality(Done') = Cardinality(Done) + 1
    BY <1>4, <1>5, FS_AddElement
  <2>2. Done' \subseteq Apply
    BY DEF Done
  <2>3. Cardinality(Done') <= Cardinality(Apply)
    BY <2>2, AdminAssumption, FS_Subset
  <2> QED
    BY <1>2, <1>5, <2>1, <2>3
<1>7. server.registry = 1 + Cardinality(Done) /\ g > server.registry
  BY <1>5 DEF AdminInv, Fresh
<1> HIDE DEF g
<1>8. /\ server' \in [cached : Nat, registry : Admin!Number, pending : SUBSET Admin!Manual,
                      callback : BOOLEAN]
      /\ server'.cached = server.cached /\ server'.registry = g
  <2>1. server \in [cached : Nat, registry : Admin!Number, pending : SUBSET Admin!Manual,
                    callback : BOOLEAN]
    BY DEF AdminInv, AdminTypeOK
  <2>2. apply[a].pending \in SUBSET Admin!Manual
    BY DEF AdminInv, AdminTypeOK, ApplyType
  <2> QED
    BY <1>1, <1>6, <2>1, <2>2
<1>9. /\ inst' \in [Admin!Number -> Nat]
      /\ \A h \in Admin!Number : inst'[h] = inst[h] \/ inst'[h] = Admin!None
  <2>1. inst \in [Admin!Number -> Nat] /\ Admin!None \in Nat
    BY DEF AdminInv, AdminTypeOK, Admin!None
  <2> QED
    BY <1>1, <2>1
<1>10. AdminTypeOK'
  <2>1. writes' \in Nat
    BY <1>1 DEF AdminInv, AdminTypeOK
  <2>2. ask' \in [Ask -> [at : {"new", "settings", "done"}, settings : Nat]]
    BY <1>1 DEF AdminInv, AdminTypeOK
  <2> QED
    BY <1>3, <1>8, <1>9, <2>1, <2>2 DEF AdminTypeOK
<1>11. \A h \in Admin!Number : h >= g => inst'[h] = Admin!None
  <2>1. \A h \in Admin!Number : h >= g => h > server.registry
    BY <1>2, <1>5, <1>6, <1>7
  <2> QED
    BY <1>9, <2>1 DEF AdminInv, Fresh
<1>12. Fresh'
  <2>1. \A h \in Admin!Number : h > g => h >= g
    BY <1>2, <1>6
  <2> QED
    BY <1>6, <1>8, <1>11, <2>1 DEF Fresh
<1>13. UpToDate'
  <2>1. inst'[server'.registry] = Admin!None
    BY <1>2, <1>6, <1>8, <1>11
  <2> QED
    BY <1>1, <1>8, <2>1 DEF AdminInv, UpToDate
<1>14. ManagedOK' /\ AppliedValid'
  BY <1>1, NothingWritten
<1>15. AdminSteps
  BY <1>3, NoneBegins
<1> QED
  BY <1>10, <1>12, <1>13, <1>14, <1>15 DEF AdminInv

LEMMA RestartStep ==
    ASSUME AdminInv, Admin!Restart
    PROVE  AdminInv' /\ AdminSteps
<1> DEFINE again == [at |-> "restarted", asked |-> Admin!NoFile, old |-> 1, pending |-> {}]
<1>1. /\ server' = [server EXCEPT !.cached = Admin!None, !.pending = {}]
      /\ inst' = [g \in Admin!Number |-> Admin!None]
      /\ apply' = [a \in Apply |-> IF apply[a].at = "restart" THEN again ELSE apply[a]]
      /\ UNCHANGED <<layer, managed, writes, ask, crossed>>
  BY DEF Admin!Restart
<1>2. 1 \in Admin!Number /\ Admin!None \in Nat
  BY AdminNumbers DEF Admin!None
<1>3. /\ apply' \in [Apply -> ApplyType]
      /\ \A a \in Apply : apply'[a].at = IF apply[a].at = "restart" THEN "restarted" ELSE apply[a].at
  <2>1. again \in ApplyType
    BY <1>2 DEF ApplyType
  <2> QED
    BY <1>1, <2>1 DEF AdminInv, AdminTypeOK
<1>4. /\ server' \in [cached : Nat, registry : Admin!Number, pending : SUBSET Admin!Manual,
                      callback : BOOLEAN]
      /\ server'.cached = Admin!None /\ server'.registry = server.registry
  BY <1>1, <1>2 DEF AdminInv, AdminTypeOK
<1>5. inst' \in [Admin!Number -> Nat] /\ \A g \in Admin!Number : inst'[g] = Admin!None
  BY <1>1, <1>2
<1>6. AdminTypeOK'
  <2>1. writes' \in Nat
    BY <1>1 DEF AdminInv, AdminTypeOK
  <2>2. ask' \in [Ask -> [at : {"new", "settings", "done"}, settings : Nat]]
    BY <1>1 DEF AdminInv, AdminTypeOK
  <2> QED
    BY <1>3, <1>4, <1>5, <2>1, <2>2 DEF AdminTypeOK
<1>7. Done' = Done
  BY <1>3 DEF Done
<1>8. Fresh'
  BY <1>4, <1>5, <1>7 DEF AdminInv, Fresh
<1>9. UpToDate'
  <2>1. inst'[server'.registry] = Admin!None
    BY <1>4, <1>5 DEF AdminInv, AdminTypeOK
  <2> QED
    BY <1>1, <1>4, <2>1 DEF AdminInv, UpToDate
<1>10. ManagedOK' /\ AppliedValid'
  BY <1>1, NothingWritten
<1>11. AdminSteps
  BY <1>3, NoneBegins
<1> QED
  BY <1>6, <1>8, <1>9, <1>10, <1>11 DEF AdminInv

LEMMA ReadSettingsStep ==
    ASSUME AdminInv, NEW r \in Ask, Admin!ReadSettings(r)
    PROVE  AdminInv' /\ AdminSteps
<1> DEFINE s == IF server.cached = Admin!None THEN writes ELSE server.cached
<1>1. /\ ask' = [ask EXCEPT ![r] = [at |-> "settings", settings |-> s]]
      /\ server' = [server EXCEPT !.cached = s]
      /\ UNCHANGED <<layer, managed, inst, writes, apply, crossed>>
  BY DEF Admin!ReadSettings
<1>2. s = writes /\ s \in Nat
  BY DEF AdminInv, UpToDate, AdminTypeOK
<1> HIDE DEF s
<1>3. /\ ask' \in [Ask -> [at : {"new", "settings", "done"}, settings : Nat]]
      /\ ask'[r].settings = writes /\ \A q \in Ask \ {r} : ask'[q] = ask[q]
  BY <1>1, <1>2 DEF AdminInv, AdminTypeOK
<1>4. /\ server' \in [cached : Nat, registry : Admin!Number, pending : SUBSET Admin!Manual,
                      callback : BOOLEAN]
      /\ server'.cached = writes /\ server'.registry = server.registry
  BY <1>1, <1>2 DEF AdminInv, AdminTypeOK
<1>5. AdminTypeOK'
  BY <1>1, <1>3, <1>4 DEF AdminInv, AdminTypeOK
<1>6. Done' = Done /\ UnderWay' = UnderWay
  BY <1>1 DEF Done, UnderWay
<1>7. Fresh'
  BY <1>1, <1>4, <1>6 DEF AdminInv, Fresh
<1>8. UpToDate'
  BY <1>1, <1>3, <1>4, <1>6 DEF AdminInv, UpToDate
<1>9. ManagedOK' /\ AppliedValid'
  BY <1>1, NothingWritten
<1>10. AdminSteps
  BY <1>1, NoneBegins
<1> QED
  BY <1>5, <1>7, <1>8, <1>9, <1>10 DEF AdminInv

LEMMA UseProviderStep ==
    ASSUME AdminInv, NEW r \in Ask, Admin!UseProvider(r)
    PROVE  AdminInv' /\ AdminSteps
<1>1. PICK g \in Admin!Number : g = server.registry
  BY DEF AdminInv, AdminTypeOK
<1>2. /\ ask[r].at = "settings" /\ ask' = [ask EXCEPT ![r].at = "done"]
      /\ inst' = [inst EXCEPT ![g] = IF inst[g] = Admin!None THEN ask[r].settings ELSE inst[g]]
      /\ UNCHANGED <<layer, managed, server, writes, apply, crossed>>
  BY <1>1 DEF Admin!UseProvider
<1>3. /\ ask' \in [Ask -> [at : {"new", "settings", "done"}, settings : Nat]]
      /\ ask'[r].at = "done" /\ \A q \in Ask \ {r} : ask'[q] = ask[q]
  BY <1>2 DEF AdminInv, AdminTypeOK
<1>4. /\ inst' \in [Admin!Number -> Nat]
      /\ inst'[g] = IF inst[g] = Admin!None THEN ask[r].settings ELSE inst[g]
      /\ \A h \in Admin!Number \ {g} : inst'[h] = inst[h]
  BY <1>2 DEF AdminInv, AdminTypeOK
<1>5. AdminTypeOK'
  BY <1>2, <1>3, <1>4 DEF AdminInv, AdminTypeOK
<1>6. Done' = Done /\ UnderWay' = UnderWay
  BY <1>2 DEF Done, UnderWay
<1>7. Fresh'
  <2>1. \A h \in Admin!Number : h > g => h # g
    BY AdminNumbers
  <2> QED
    BY <1>1, <1>2, <1>4, <1>6, <2>1 DEF AdminInv, Fresh
<1>8. UpToDate'
  BY <1>1, <1>2, <1>3, <1>4, <1>6 DEF AdminInv, UpToDate
<1>9. ManagedOK' /\ AppliedValid'
  BY <1>2, NothingWritten
<1>10. AdminSteps
  BY <1>2, NoneBegins
<1> QED
  BY <1>5, <1>7, <1>8, <1>9, <1>10 DEF AdminInv

-----------------------------------------------------------------------------
(* The page's invariant, and both parts within the whole.                  *)

LEMMA AdminStart ==
    ASSUME Admin!AdminInit
    PROVE  AdminInv
<1>1. /\ managed \in {Admin!NoFile, [k \in Admin!Key |-> IF k = "NVIDIA_NIM_API_KEY" THEN "key"
                                                         ELSE Admin!Template[k]]}
      /\ server \in [cached : {Admin!None}, registry : {1}, pending : {{}}, callback : BOOLEAN]
      /\ inst = [g \in Admin!Number |-> Admin!None] /\ writes = 0 /\ crossed = FALSE
      /\ apply = [a \in Apply |-> [at |-> "new", asked |-> Admin!NoFile, old |-> 1, pending |-> {}]]
      /\ ask = [r \in Ask |-> [at |-> "new", settings |-> Admin!None]]
  BY DEF Admin!AdminInit
<1>2. 1 \in Admin!Number /\ Admin!None \in Nat
  BY AdminNumbers DEF Admin!None
<1>3. AdminTypeOK
  <2>1. apply \in [Apply -> ApplyType]
    BY <1>1, <1>2 DEF ApplyType
  <2>2. ask \in [Ask -> [at : {"new", "settings", "done"}, settings : Nat]]
    BY <1>1, <1>2
  <2>3. server \in [cached : Nat, registry : Admin!Number, pending : SUBSET Admin!Manual,
                    callback : BOOLEAN]
    BY <1>1, <1>2
  <2>4. inst \in [Admin!Number -> Nat] /\ writes \in Nat
    BY <1>1, <1>2
  <2> QED
    BY <2>1, <2>2, <2>3, <2>4 DEF AdminTypeOK
<1>4. ManagedOK
  <2> DEFINE f == [k \in Admin!Key |-> IF k = "NVIDIA_NIM_API_KEY" THEN "key" ELSE Admin!Template[k]]
  <2>1. WholeFile(f)
    BY TemplatePlain DEF WholeFile, Admin!Reread
  <2> QED
    BY <1>1, <2>1 DEF ManagedOK
<1>5. Fresh
  <2>1. Done = {}
    BY <1>1 DEF Done
  <2> QED
    BY <1>1, <2>1, FS_EmptySet DEF Fresh
<1>6. UpToDate
  <2>1. inst[server.registry] = Admin!None /\ server.cached = Admin!None
    BY <1>1, <1>2
  <2> QED
    BY <1>1, <2>1 DEF UpToDate
<1>7. AppliedValid
  BY <1>1 DEF AppliedValid
<1> QED
  BY <1>3, <1>4, <1>5, <1>6, <1>7 DEF AdminInv

LEMMA AdminStep ==
    ASSUME AdminInv, Admin!AdminNext
    PROVE  AdminInv' /\ AdminSteps
<1>1. \/ \E a \in Apply, p \in Payloads : Admin!Write(a, p) \/ Admin!Reject(a, p)
      \/ \E a \in Apply : Admin!Install(a)
      \/ Admin!Restart
      \/ \E r \in Ask : Admin!ReadSettings(r) \/ Admin!UseProvider(r)
  BY DEF Admin!AdminNext
<1> QED
  BY <1>1, WriteStep, RejectStep, ServerInstallStep, RestartStep, ReadSettingsStep, UseProviderStep

LEMMA AdminStutter ==
    ASSUME AdminInv, UNCHANGED <<layer, managed, server, inst, writes, apply, ask, crossed>>
    PROVE  AdminInv' /\ AdminSteps
<1>1. AdminTypeOK'
  BY DEF AdminInv, AdminTypeOK
<1>2. Done' = Done /\ UnderWay' = UnderWay
  BY DEF Done, UnderWay
<1>3. Fresh' /\ UpToDate'
  BY <1>2 DEF AdminInv, Fresh, UpToDate
<1>4. ManagedOK' /\ AppliedValid'
  BY NothingWritten
<1>5. AdminSteps
  BY NoneBegins
<1> QED
  BY <1>1, <1>3, <1>4, <1>5 DEF AdminInv

LEMMA AdminSafe ==
    ASSUME AdminInv
    PROVE  Admin!AppliedInUse
<1> SUFFICES ASSUME \A a \in Apply : apply[a].at \notin {"cleanup", "restart"}
             PROVE  /\ ~crossed => /\ inst[server.registry] \in {Admin!None, writes}
                                   /\ server.cached \in {Admin!None, writes}
                    /\ writes > 0 => Admin!Valid(Admin!Over(Admin!Locks, managed))
  BY DEF Admin!AppliedInUse
<1>1. ~UnderWay
  BY DEF UnderWay
<1> QED
  BY <1>1 DEF AdminInv, UpToDate, AppliedValid

\* Whatever part is looked at, the others keep what they have.
LEMMA PartsStep ==
    ASSUME [Next]_vars
    PROVE  /\ RegNext \/ UNCHANGED regVars
           /\ Admin!AdminNext
              \/ UNCHANGED <<layer, managed, server, inst, writes, apply, ask, crossed>>
<1>1. CASE Next
  BY <1>1 DEF Next, admin
<1>2. CASE UNCHANGED vars
  BY <1>2 DEF vars, admin
<1> QED
  BY <1>1, <1>2

LEMMA ProxyInvariant == Spec => [](RegInv /\ AdminInv)
<1>1. Init => RegInv /\ AdminInv
  BY RegStart, AdminStart DEF Init
<1>2. RegInv /\ AdminInv /\ [Next]_vars => (RegInv /\ AdminInv)'
  BY PartsStep, RegStep, RegStutter, AdminStep, AdminStutter
<1> QED
  BY <1>1, <1>2, PTL DEF Spec

\* The registry keeps a provider from requests only for Threshold failures on record, and
\* lists models of providers that are there; the page's applies are what is in use.
THEOREM ProxyStateSoundCorrect == Spec => []ProxyStateSound
<1>1. RegInv /\ AdminInv => ProxyStateSound
  BY RegSafe, AdminSafe DEF ProxyStateSound
<1> QED
  BY <1>1, ProxyInvariant, PTL

\* No step of the registry's closes an open circuit but a tick or a success, and none of the
\* page's changes a key that it was not asked to, or keeps quiet about what is pending.
THEOREM ProxyStepsCorrect == Spec => ProxySteps
<1> DEFINE Sound == /\ part = "registry" => CircuitHolds
                    /\ part = "admin" => Admin!OnlyAskedChange /\ Admin!PendingReported
<1>1. RegInv /\ AdminInv /\ [Next]_vars => [Sound]_vars
  BY PartsStep, RegStep, RegStutter, AdminStep, AdminStutter DEF AdminSteps
<1> QED
  BY <1>1, ProxyInvariant, PTL DEF Spec, ProxySteps
-----------------------------------------------------------------------------
(* Voice notes, platform calls and the runtime: the call of a platform is  *)
(* there only where it is looked at.                                       *)

PlatformInv == VoiceInv /\ (part = "chat calls" => CallInv) /\ RunInv

LEMMA PlatformStep ==
    ASSUME [Next]_vars
    PROVE  /\ UNCHANGED part
           /\ Voice!VoiceNext \/ UNCHANGED voice
           /\ Chat!CallNext \/ UNCHANGED chatCalls
           /\ Runtime!RuntimeNext \/ UNCHANGED runtime
<1>1. CASE Next
  BY <1>1 DEF Next
<1>2. CASE UNCHANGED vars
  BY <1>2 DEF vars
<1> QED
  BY <1>1, <1>2

LEMMA PlatformInvariant == Spec => []PlatformInv
<1>1. Init => PlatformInv
  BY VoiceStart, CallStart, RunStart DEF Init, PlatformInv
<1>2. PlatformInv /\ [Next]_vars => PlatformInv'
  BY PlatformStep, VoiceStep, VoiceStutter, ChatCallStep, ChatCallStutter, RunStep, RunStutter DEF PlatformInv
<1> QED
  BY <1>1, <1>2, PTL DEF Spec

------------------------------------------------------------------------------
(* Those on a project's files: each invariant holds in the behaviours of   *)
(* the other parts too, but for the walks, whose variables are theirs      *)
(* only.                                                                   *)

WorkspaceInv ==
    /\ TermInv /\ BootInv /\ LoadInv /\ MemInv /\ DebuggerInv
    /\ part = "walks" => WalkInv

\* Whatever part is looked at, the others keep what they have.
LEMMA WorkspaceStep ==
    ASSUME [Next]_vars
    PROVE  /\ UNCHANGED part
           /\ Terminals!TermNext \/ UNCHANGED terminals
           /\ Boot!BootNext \/ UNCHANGED bootstrap
           /\ Walk!WalkNext \/ UNCHANGED walks
           /\ Load!GraphNext \/ UNCHANGED loads
           /\ Memory!HandoffNext \/ UNCHANGED memory
           /\ Debugger!QueueNext \/ UNCHANGED debugger
<1>1. CASE Next
  BY <1>1 DEF Next
<1>2. CASE UNCHANGED vars
  BY <1>2 DEF vars
<1> QED
  BY <1>1, <1>2

LEMMA WorkspaceMoves ==
    ASSUME WorkspaceInv, [Next]_vars
    PROVE  /\ WorkspaceInv'
           /\ Terminals!FinishesWithItsOwn /\ Boot!UserContentKept /\ Load!LoneLoadIsRight /\ Memory!HandoffKept
<1>1. TermInv' /\ Terminals!FinishesWithItsOwn
  BY WorkspaceStep, TerminalsStep, TerminalsStutter DEF WorkspaceInv, terminals
<1>2. BootInv' /\ Boot!UserContentKept
  BY WorkspaceStep, BootStep, BootStutter DEF WorkspaceInv
<1>3. LoadInv' /\ Load!LoneLoadIsRight
  BY WorkspaceStep, LoadsStep, LoadsUnchanged DEF WorkspaceInv, loads
<1>4. MemInv' /\ Memory!HandoffKept
  BY WorkspaceStep, MemStep, MemStutter DEF WorkspaceInv
<1>5. DebuggerInv'
  BY WorkspaceStep, DebuggerStep, DebuggerStutter DEF WorkspaceInv, debugger
<1>6. (part = "walks" => WalkInv)'
  BY WorkspaceStep, WalksStep, WalksStutter DEF WorkspaceInv
<1> QED
  BY <1>1, <1>2, <1>3, <1>4, <1>5, <1>6 DEF WorkspaceInv

LEMMA WorkspaceInvariant == Spec => []WorkspaceInv
<1>1. Init => WorkspaceInv
  <2> SUFFICES ASSUME Init
               PROVE  WorkspaceInv
    OBVIOUS
  <2>1. /\ Terminals!TermInit /\ Boot!BootInit /\ Load!GraphInit /\ Debugger!QueueInit /\ Memory!HandoffInit
        /\ part = "walks" => Walk!WalkInit
    BY DEF Init
  <2> QED
    BY <2>1, TerminalsStart, BootStart, LoadsStart, DebuggerStart, MemStart, WalksStart, TerminalAssumption
       DEF WorkspaceInv
<1>2. WorkspaceInv /\ [Next]_vars => WorkspaceInv'
  BY WorkspaceMoves
<1> QED
  BY <1>1, <1>2, PTL DEF Spec

\* A voice note of which /clear says that it is cancelled is no turn, a call of a platform
\* that returns was carried out, and no turn is forgotten that had ended before the flush; a
\* terminal session that runs is offered to no other terminal, a bootstrap that ends well is
\* complete, readers of the code graph see whole graphs, its walks find what they were asked
\* for, no task of the debugger is lost, or given up as corrupt once it was shown, and no
\* lock of it is removed that was live when it was read.
THEOREM SidePartsSoundCorrect == Spec => []SidePartsSound
<1>1. PlatformInv => /\ part = "voice" => Voice!VoiceNotesSound
                     /\ part = "chat calls" => Chat!CallsSettle
                     /\ part = "runtime" => Runtime!RuntimeSound
  BY VoiceSafe, RunSafe DEF PlatformInv, CallInv
<1>2. WorkspaceInv => /\ part = "terminals" => Terminals!TerminalSessionsSound
                      /\ part = "bootstrap" => Boot!CompleteWhenDone
                      /\ part = "loads" => Load!GraphLoadSound
                      /\ part = "walks" => Walk!WalksRight
                      /\ part = "debugger" => Debugger!DebuggerQueueSound
  BY TerminalsSafe, BootSafe, LoadsSafe, WalksSafe, DebuggerSafe DEF WorkspaceInv
<1>3. PlatformInv /\ WorkspaceInv => SidePartsSound
  BY <1>1, <1>2 DEF SidePartsSound
<1> QED
  BY <1>3, PlatformInvariant, WorkspaceInvariant, PTL

\* A terminal session ends with its own conversation, no bootstrap takes away what a user
\* wrote, a load that is alone leaves its graph, and no decision leaves the handoff.
THEOREM SidePartsStepsCorrect == Spec => SidePartsSteps
<1> DEFINE Sound == /\ part = "terminals" => Terminals!FinishesWithItsOwn
                    /\ part = "bootstrap" => Boot!UserContentKept
                    /\ part = "loads" => Load!LoneLoadIsRight
                    /\ part = "memory" => Memory!HandoffKept
<1>1. WorkspaceInv /\ [Next]_vars => [Sound]_vars
  BY WorkspaceMoves
<1> QED
  BY <1>1, WorkspaceInvariant, PTL DEF Spec, SidePartsSteps

==============================================================================
