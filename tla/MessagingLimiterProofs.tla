----------------------- MODULE MessagingLimiterProofs -----------------------
(***************************************************************************)
(* Theorems about MessagingLimiter, for any number of keys, requests and   *)
(* retries.                                                                *)
(***************************************************************************)
EXTENDS MessagingLimiter, SlidingWindowProofs

(***************************************************************************)
(* CallersTracked is not inductive alone: a request that is enqueued must  *)
(* not be known anywhere yet, and the worker must have forgotten those it  *)
(* answered before it takes the next key.                                  *)
(***************************************************************************)
QueueTyped ==
    /\ keyOf \in [Request -> Key \cup {NoKey}]
    /\ caller \in [Request ->
                     {"none", "waiting", "sleeping", "done", "failed", "cancelled"}]
    /\ queue \in Seq(Key)
    /\ func \in [Key -> 0..MaxRequests]
    /\ futures \in [Key -> SUBSET Request]
    /\ answering \in SUBSET Request

TrackedInv ==
    /\ QueueTyped
    /\ CallersTracked
    /\ \A r \in Request : caller[r] \in {"none", "sleeping"} =>
          r \notin answering /\ \A k \in Key : r \notin futures[k]
    /\ \A r \in Request : caller[r] # "none" => keyOf[r] \in Key
    /\ \A r \in Request : caller[r] = "none" => keyOf[r] = NoKey
    /\ worker = "idle" => answering = {}

LEMMA TrackedInit == Init => TrackedInv
  BY EmptySeq, LimiterAssumption DEF Init, TrackedInv, QueueTyped, CallersTracked, Request

\* Enqueueing a request that nobody knows keeps queue and map in agreement.
LEMMA EnqueueTracks ==
    ASSUME TrackedInv, NEW r \in Request, NEW k \in Key, Enqueue(k, r),
           caller[r] \in {"none", "sleeping"},
           caller' = [caller EXCEPT ![r] = "waiting"],
           keyOf' = [keyOf EXCEPT ![r] = k],
           UNCHANGED <<worker, answering>>
    PROVE  TrackedInv'
<1> USE LimiterAssumption DEF Request
<1>1. /\ func' = [func EXCEPT ![k] = r]
      /\ futures' = [futures EXCEPT ![k] = @ \cup {r}]
      /\ queue' = IF func[k] = 0 THEN Append(queue, k) ELSE queue
  BY DEF Enqueue, Compacted
<1>2. /\ queue' \in Seq(Key)
      /\ func[k] = 0 => /\ Len(queue') = Len(queue) + 1
                        /\ \A i \in 1..Len(queue) : queue'[i] = queue[i]
                        /\ queue'[Len(queue) + 1] = k
      /\ Len(queue) \in Nat
  BY <1>1, AppendProperties, LenProperties DEF TrackedInv, QueueTyped
<1>3. QueueTyped'
  BY <1>1, <1>2 DEF TrackedInv, QueueTyped
<1>4. \A j \in Key : (func'[j] # 0) <=> \E i \in 1..Len(queue') : queue'[i] = j
  <2>1. CASE func[k] = 0
    BY <1>1, <1>2, <2>1 DEF TrackedInv, QueueTyped, CallersTracked
  <2>2. CASE func[k] # 0
    BY <1>1, <1>2, <2>2 DEF TrackedInv, QueueTyped, CallersTracked
  <2> QED
    BY <2>1, <2>2
<1>5. \A i, j \in 1..Len(queue') : queue'[i] = queue'[j] => i = j
  <2>1. CASE func[k] = 0
    <3>1. \A i \in 1..Len(queue) : queue[i] # k
      BY <2>1 DEF TrackedInv, CallersTracked
    <3> QED
      BY <1>2, <2>1, <3>1 DEF TrackedInv, CallersTracked
  <2>2. CASE func[k] # 0
    BY <1>1, <2>2 DEF TrackedInv, CallersTracked
  <2> QED
    BY <2>1, <2>2
<1>6. /\ \A j \in Key : func'[j] = 0 => futures'[j] = {}
      /\ \A q \in Request : caller'[q] = "waiting" =>
            (q \in answering') # (q \in futures'[keyOf'[q]])
      /\ \A j \in Key : \A q \in futures'[j] : keyOf'[q] = j
  BY <1>1 DEF TrackedInv, QueueTyped, CallersTracked
<1>7. \A q \in Request : caller'[q] \in {"none", "sleeping"} =>
          q \notin answering' /\ \A j \in Key : q \notin futures'[j]
  BY <1>1 DEF TrackedInv, QueueTyped
<1>8. /\ \A q \in Request : caller'[q] # "none" => keyOf'[q] \in Key
      /\ \A q \in Request : caller'[q] = "none" => keyOf'[q] = NoKey
      /\ worker' = "idle" => answering' = {}
  BY DEF TrackedInv, QueueTyped
<1>9. CallersTracked'
  BY <1>4, <1>5, <1>6 DEF CallersTracked
<1> QED
  BY <1>3, <1>7, <1>8, <1>9 DEF TrackedInv

\* The worker takes the callers of the oldest key over from the map.
LEMMA TakeTracks ==
    ASSUME TrackedInv, Take
    PROVE  TrackedInv'
<1> DEFINE k == Head(queue)
<1>1. /\ k \in Key
      /\ Len(queue) \in Nat \ {0} /\ k = queue[1]
      /\ queue' \in Seq(Key)
      /\ Len(queue') = Len(queue) - 1
      /\ \A i \in 1..Len(queue') : queue'[i] = queue[i + 1]
  BY HeadTailProperties, LenProperties, EmptySeq DEF Take, TrackedInv, QueueTyped
<1>2. /\ answering = {} /\ answering' = futures[k]
      /\ func' = [func EXCEPT ![k] = 0]
      /\ futures' = [futures EXCEPT ![k] = {}]
      /\ worker' = "taken" /\ UNCHANGED <<keyOf, caller>>
  BY DEF Take, TrackedInv, callerVars
<1>3. QueueTyped'
  BY <1>1, <1>2, LimiterAssumption DEF TrackedInv, QueueTyped, Request
<1>4. \A j \in Key : (func'[j] # 0) <=> \E i \in 1..Len(queue') : queue'[i] = j
  <2> SUFFICES ASSUME NEW j \in Key
               PROVE  (func'[j] # 0) <=> \E i \in 1..Len(queue') : queue'[i] = j
    OBVIOUS
  <2>1. CASE j = k
    BY <1>1, <1>2, <2>1 DEF TrackedInv, QueueTyped, CallersTracked
  <2>2. CASE j # k
    <3>1. func'[j] = func[j]
      BY <1>2, <2>2 DEF TrackedInv, QueueTyped
    <3>2. ASSUME NEW i \in 1..Len(queue), queue[i] = j
          PROVE  i - 1 \in 1..Len(queue') /\ queue'[i - 1] = j
      BY <1>1, <2>2, <3>2
    <3>3. ASSUME NEW i \in 1..Len(queue'), queue'[i] = j
          PROVE  i + 1 \in 1..Len(queue) /\ queue[i + 1] = j
      BY <1>1, <3>3
    <3> QED
      BY <3>1, <3>2, <3>3 DEF TrackedInv, CallersTracked
  <2> QED
    BY <2>1, <2>2
<1>5. \A i, j \in 1..Len(queue') : queue'[i] = queue'[j] => i = j
  BY <1>1 DEF TrackedInv, CallersTracked
<1>6. /\ \A j \in Key : func'[j] = 0 => futures'[j] = {}
      /\ \A q \in Request : caller'[q] = "waiting" =>
            (q \in answering') # (q \in futures'[keyOf'[q]])
      /\ \A j \in Key : \A q \in futures'[j] : keyOf'[q] = j
  BY <1>1, <1>2 DEF TrackedInv, QueueTyped, CallersTracked
<1> QED
  BY <1>1, <1>2, <1>3, <1>4, <1>5, <1>6 DEF TrackedInv, QueueTyped, CallersTracked

\* Steps that leave the queue and the map alone, start no request, and forget the
\* callers being answered only when none of them waits any more.
LEMMA QuietTracks ==
    ASSUME TrackedInv, UNCHANGED <<queueVars, keyOf>>,
           caller' \in [Request ->
                     {"none", "waiting", "sleeping", "done", "failed", "cancelled"}],
           \A r \in Request :
              /\ caller'[r] = "waiting" => caller[r] = "waiting"
              /\ caller'[r] = "none" <=> caller[r] = "none"
              /\ caller'[r] = "sleeping" =>
                    \/ caller[r] = "sleeping"
                    \/ caller[r] = "waiting" /\ r \in answering /\ answering' = {},
           \/ answering' = answering
           \/ answering' = {} /\ \A r \in answering : caller'[r] # "waiting",
           worker' = "idle" => answering' = {}
    PROVE  TrackedInv'
<1>1. QueueTyped'
  BY DEF TrackedInv, QueueTyped, queueVars
<1>2. CallersTracked'
  BY DEF TrackedInv, QueueTyped, CallersTracked, queueVars
<1>3. \A r \in Request : caller'[r] \in {"none", "sleeping"} =>
          r \notin answering' /\ \A k \in Key : r \notin futures'[k]
  <2> SUFFICES ASSUME NEW r \in Request, caller'[r] \in {"none", "sleeping"}
               PROVE  r \notin answering' /\ \A k \in Key : r \notin futures'[k]
    OBVIOUS
  <2>1. CASE caller[r] \in {"none", "sleeping"}
    BY <2>1 DEF TrackedInv, queueVars
  <2>2. CASE caller[r] = "waiting" /\ r \in answering /\ answering' = {}
    <3>1. r \notin futures[keyOf[r]]
      BY <2>2 DEF TrackedInv, CallersTracked
    <3> QED
      BY <2>2, <3>1 DEF TrackedInv, CallersTracked, queueVars
  <2> QED
    BY <2>1, <2>2
<1> QED
  BY <1>1, <1>2, <1>3 DEF TrackedInv

LEMMA TrackedStep == TrackedInv /\ [Next]_vars => TrackedInv'
<1> SUFFICES ASSUME TrackedInv, [Next]_vars PROVE TrackedInv'
  OBVIOUS
<1>1. ASSUME NEW r \in Request, NEW k \in Key, Issue(r, k) PROVE TrackedInv'
  BY <1>1, EnqueueTracks, LimiterAssumption DEF Issue, TrackedInv, workerVars
<1>2. ASSUME NEW r \in Request, Retry(r) PROVE TrackedInv'
  <2>1. keyOf[r] \in Key /\ keyOf' = [keyOf EXCEPT ![r] = keyOf[r]]
    BY <1>2 DEF Retry, TrackedInv, QueueTyped
  <2> QED
    BY <1>2, <2>1, EnqueueTracks DEF Retry, workerVars
<1>3. ASSUME NEW r \in Request, Abandon(r) PROVE TrackedInv'
  BY <1>3, QuietTracks DEF Abandon, TrackedInv, QueueTyped, workerVars
<1>4. CASE Take
  BY <1>4, TakeTracks
<1>5. CASE PauseOver \/ Send
  BY <1>5, QuietTracks DEF PauseOver, Send, TrackedInv, QueueTyped, callerVars
<1>6. CASE SendSucceeds
  <2>1. /\ UNCHANGED <<queueVars, keyOf>> /\ answering' = {}
        /\ caller' = [r \in Request |->
              IF r \in answering /\ caller[r] = "waiting" THEN "done" ELSE caller[r]]
    BY <1>6 DEF SendSucceeds, Done
  <2> QED
    BY <2>1, QuietTracks DEF TrackedInv, QueueTyped
<1>7. CASE SendFails
  <2>1. PICK transient \in BOOLEAN, flood \in BOOLEAN : CallersTold(transient, flood)
    BY <1>7 DEF SendFails
  <2> DEFINE retrying == {r \in Told(flood) : Retries(r, transient)}
  <2>2. /\ UNCHANGED <<queueVars, keyOf>> /\ answering' = {}
        /\ caller' = [r \in Request |-> IF r \in retrying THEN "sleeping"
                        ELSE IF r \in Told(flood) THEN "failed" ELSE caller[r]]
        /\ retrying \subseteq Told(flood)
    BY <1>7, <2>1 DEF SendFails, Done, CallersTold
  <2> HIDE DEF retrying
  <2> QED
    BY <2>2, QuietTracks DEF TrackedInv, QueueTyped, Told
<1>8. CASE Shutdown
  BY <1>8, QuietTracks DEF Shutdown, TrackedInv, QueueTyped, callerVars
<1>9. CASE Tick
  BY <1>9, QuietTracks DEF Tick, TrackedInv, QueueTyped, workerVars
<1>10. CASE UNCHANGED vars
  BY <1>10, QuietTracks
     DEF vars, callerVars, workerVars, TrackedInv, QueueTyped
<1> QED
  BY <1>1, <1>2, <1>3, <1>4, <1>5, <1>6, <1>7, <1>8, <1>9, <1>10 DEF Next, SendEnds

\* However compaction, retries, abandoned callers and a shutdown interleave, the
\* queue and the map agree, and every waiting caller is known in one place.
THEOREM CallersTrackedCorrect == Spec => []CallersTracked
<1>1. TrackedInv => CallersTracked
  BY DEF TrackedInv
<1> QED
  BY <1>1, TrackedInit, TrackedStep, PTL DEF Spec




-----------------------------------------------------------------------------
(***************************************************************************)
(* Types.  TrackedInv says where requests are; the rest is each variable's *)
(* own.  The record of the sent requests is typed by the window.           *)
(***************************************************************************)
RateInv == Tracks(times, sent)

\* A step that sends nothing leaves the window and its record alone, unless it is a tick.
LEMMA RateStep == RateInv /\ [Next]_vars => RateInv'
<1> SUFFICES ASSUME RateInv, [Next]_vars PROVE RateInv'
  OBVIOUS
<1>1. CASE Send
  BY <1>1, TracksAcquire DEF Send, RateInv
<1>2. CASE Tick
  BY <1>2, TracksTick DEF Tick, RateInv
<1>3. CASE UNCHANGED <<times, sent>>
  BY <1>3 DEF RateInv
<1> QED
  BY <1>1, <1>2, <1>3
     DEF Next, SendEnds, Issue, Retry, Abandon, Take, PauseOver, SendSucceeds, SendFails, Shutdown,
         vars, timeVars

\* "at most rate_limit acquisitions in any interval of length rate_window": however
\* pauses, retries and ticks interleave, the requests sent in the last Window ticks
\* are never more than the limit.
THEOREM RateRespectedCorrect == Spec => []RateRespected
<1>1. Init => RateInv
  BY TracksInit DEF Init, RateInv
<1>2. RateInv => RateRespected
  BY DEF RateInv, Tracks, RateRespected
<1> QED
  BY <1>1, <1>2, RateStep, PTL DEF Spec

LimiterTypeInv == TypeOK /\ TrackedInv /\ RateInv

LEMMA AgesTyped == RateInv => times \in Seq(0..Window) /\ sent \in Seq(0..Window)
  BY UnexpiredIs DEF RateInv, Tracks

LEMMA TypeStep == LimiterTypeInv /\ [Next]_vars => LimiterTypeInv'
<1> SUFFICES ASSUME LimiterTypeInv, [Next]_vars PROVE LimiterTypeInv'
  OBVIOUS
<1> USE LimiterAssumption, BackoffAssumption DEF Request
<1>1. TrackedInv' /\ RateInv'
  BY TrackedStep, RateStep DEF LimiterTypeInv
<1>2. /\ (keyOf \in [Request -> Key \cup {NoKey}])'
      /\ (caller \in [Request ->
                     {"none", "waiting", "sleeping", "done", "failed", "cancelled"}])'
      /\ (queue \in Seq(Key))' /\ (func \in [Key -> 0..MaxRequests])'
      /\ (futures \in [Key -> SUBSET Request])' /\ (answering \in SUBSET Request)'
      /\ (times \in Seq(0..Window))' /\ (sent \in Seq(0..Window))'
  BY <1>1, AgesTyped, PTL DEF TrackedInv, QueueTyped
<1>3. TypeOK /\ TrackedInv
  BY DEF LimiterTypeInv
<1>4. shutdown' \in BOOLEAN
  <2>1. shutdown' = shutdown \/ shutdown' = TRUE
    BY DEF Next, SendEnds, Issue, Retry, Abandon, Take, PauseOver, Send, SendSucceeds, SendFails,
           Shutdown, Tick, vars
  <2>2. shutdown \in BOOLEAN
    BY <1>3 DEF TypeOK
  <2> QED
    BY <2>1, <2>2, Zenon
<1>5. CASE SendFails
  <2>1. PICK transient \in BOOLEAN, flood \in BOOLEAN :
            /\ CallersTold(transient, flood)
            /\ IF flood THEN paused' \in 1..MaxPause ELSE UNCHANGED paused
    BY <1>5 DEF SendFails
  <2> DEFINE retrying == {r \in Told(flood) : Retries(r, transient)}
  <2>2. /\ attempt' = [r \in Request |-> attempt[r] + (IF r \in retrying THEN 1 ELSE 0)]
        /\ backoff' = [r \in Request |-> IF r \in retrying THEN 2^attempt[r] ELSE backoff[r]]
        /\ \A r \in retrying : attempt[r] < MaxRetries
    BY <2>1 DEF CallersTold, Retries
  <2> HIDE DEF retrying
  <2>3. attempt' \in [Request -> 0..MaxRetries]
    <3>1. \A r \in Request : attempt[r] \in 0..MaxRetries
      BY <1>3 DEF TypeOK
    <3>2. ASSUME NEW r \in Request
          PROVE  attempt[r] + (IF r \in retrying THEN 1 ELSE 0) \in 0..MaxRetries
      BY <2>2, <3>1
    <3> QED
      BY <2>2, <3>2
  <2>4. backoff' \in [Request -> Nat]
    BY <1>3, <2>2 DEF TypeOK
  <2>5. /\ worker' = "idle" /\ sending' = 0 /\ UNCHANGED shutdown
        /\ shown' = [shown EXCEPT ![keyOf[sending]] = sending] \/ UNCHANGED shown
        /\ paused' \in 0..MaxPause
    BY <1>3, <1>5, <2>1 DEF SendFails, Done, Shown, TypeOK
  <2>6. shown' \in [Key -> 0..MaxRequests]
    BY <1>3, <2>5 DEF TypeOK
  <2>7. worker' \in {"idle", "taken", "ready", "sending", "stopped"} /\ sending' \in 0..MaxRequests
    BY <2>5
  <2>8. TypeOK'
    BY <1>2, <1>4, <2>3, <2>4, <2>5, <2>6, <2>7 DEF TypeOK
  <2> QED
    BY <1>1, <2>8 DEF LimiterTypeInv
<1>6. CASE Take
  <2>1. sending' \in 0..MaxRequests
    <3>1. Head(queue) \in Key
      BY <1>3, <1>6, HeadTailProperties DEF Take, TypeOK
    <3> QED
      BY <1>3, <1>6, <3>1 DEF Take, TypeOK
  <2> QED
    BY <1>1, <1>2, <1>3, <1>4, <1>6, <2>1 DEF Take, LimiterTypeInv, TypeOK, callerVars, timeVars
<1>7. CASE SendSucceeds \/ Shutdown
  <2>1. shown' \in [Key -> 0..MaxRequests]
    BY <1>3, <1>7 DEF SendSucceeds, Shutdown, Shown, TypeOK
  <2>2. CASE SendSucceeds
    <3>1. /\ worker' = "idle" /\ sending' = 0
          /\ UNCHANGED <<attempt, backoff, paused>>
      BY <2>2 DEF SendSucceeds, Done, timeVars
    <3>2. sending' \in 0..MaxRequests
      BY <3>1
    <3>3. TypeOK'
      BY <1>2, <1>3, <1>4, <2>1, <3>1, <3>2 DEF TypeOK
    <3> QED
      BY <1>1, <3>3 DEF LimiterTypeInv
  <2>3. CASE Shutdown
    BY <1>1, <1>2, <1>3, <1>4, <2>1, <2>3
       DEF Shutdown, LimiterTypeInv, TypeOK, callerVars, timeVars
  <2> QED
    BY <1>7, <2>2, <2>3
<1>8. CASE Send
  BY <1>1, <1>2, <1>3, <1>4, <1>8 DEF Send, LimiterTypeInv, TypeOK, callerVars
<1>12. CASE PauseOver
  BY <1>1, <1>2, <1>3, <1>4, <1>12 DEF PauseOver, LimiterTypeInv, TypeOK, callerVars, timeVars
<1>9. CASE Tick
  <2>1. paused' \in 0..MaxPause /\ backoff' \in [Request -> Nat]
    BY <1>3, <1>9 DEF Tick, Less, TypeOK
  <2> QED
    BY <1>1, <1>2, <1>3, <1>4, <1>9, <2>1 DEF Tick, LimiterTypeInv, TypeOK, workerVars
<1>10. ASSUME NEW r \in Request,
             (\E k \in Key : Issue(r, k)) \/ Retry(r) \/ Abandon(r)
      PROVE  LimiterTypeInv'
  BY <1>1, <1>2, <1>3, <1>4, <1>10
     DEF Issue, Retry, Abandon, LimiterTypeInv, TypeOK, workerVars, timeVars
<1>11. CASE UNCHANGED vars
  BY <1>1, <1>2, <1>3, <1>4, <1>11
     DEF vars, callerVars, workerVars, timeVars, LimiterTypeInv, TypeOK
<1> QED
  BY <1>5, <1>6, <1>7, <1>8, <1>9, <1>10, <1>11, <1>12 DEF Next, SendEnds

LEMMA TypeInit == Init => LimiterTypeInv
<1>1. Init => TypeOK
  <2>1. << >> \in Seq(Key) /\ << >> \in Seq(0..Window)
    BY EmptySeq
  <2>2. Init => shutdown \in BOOLEAN
    BY Zenon DEF Init
  <2> QED
    BY <2>1, <2>2, LimiterAssumption DEF Init, TypeOK, Request
<1>2. Init => RateInv
  BY TracksInit DEF Init, RateInv
<1> QED
  BY <1>1, <1>2, TrackedInit DEF LimiterTypeInv

\* Every reachable state of the limiter is well typed; above all, no task of
\* fire_and_forget counts more attempts than max_retries.
THEOREM LimiterTypeCorrect == Spec => []TypeOK
<1>1. LimiterTypeInv => TypeOK
  BY DEF LimiterTypeInv
<1> QED
  BY <1>1, TypeInit, TypeStep, PTL DEF Spec

-----------------------------------------------------------------------------
(***************************************************************************)
(* "Only the latest version is processed."  What a request may take the    *)
(* place of: an earlier one, or anything once its task retries.  The       *)
(* request to send for a key may take the place of every caller that waits *)
(* for it, of the request that is being sent and of the text shown.        *)
(***************************************************************************)
MayReplace(tries, new, old) == new >= old \/ tries[new] > 0

LatestInv ==
    /\ \A r \in Request : caller[r] = "sleeping" => attempt[r] > 0
    /\ \A k \in Key : func[k] # 0 =>
          /\ keyOf[func[k]] = k
          /\ MayReplace(attempt, func[k], shown[k])
          /\ \A r \in futures[k] : MayReplace(attempt, func[k], r)
    /\ \A k \in Key : shown[k] # 0 => keyOf[shown[k]] = k
    /\ worker \in {"taken", "ready", "sending"} =>
          /\ sending # 0 /\ keyOf[sending] \in Key
          /\ \A r \in answering : MayReplace(attempt, sending, r)
          /\ MayReplace(attempt, sending, shown[keyOf[sending]])
          /\ func[keyOf[sending]] # 0 => MayReplace(attempt, func[keyOf[sending]], sending)

\* What a proof about the order of requests needs of the types.
Ordered ==
    /\ keyOf \in [Request -> Key \cup {NoKey}] /\ attempt \in [Request -> Nat]
    /\ func \in [Key -> {0} \cup Request] /\ shown \in [Key -> {0} \cup Request]
    /\ sending \in {0} \cup Request /\ answering \in SUBSET Request
    /\ futures \in [Key -> SUBSET Request]
    /\ \A k \in Key : \A r \in futures[k] : keyOf[r] = k

LEMMA OrderedHolds == LimiterTypeInv => Ordered
  BY LimiterAssumption DEF LimiterTypeInv, TypeOK, TrackedInv, CallersTracked, Ordered, Request

\* A request that is newer than all issued, or that retries, takes the place of whatever
\* was queued for its key.
LEMMA EnqueueLatest ==
    ASSUME Ordered, LatestInv, NEW r \in Request, NEW k \in Key, Enqueue(k, r),
           keyOf' = [keyOf EXCEPT ![r] = k], keyOf[r] \in {k, NoKey},
           caller' = [caller EXCEPT ![r] = "waiting"],
           \/ attempt[r] > 0
           \/ \A q \in Request : keyOf[q] \in Key => q < r,
           UNCHANGED <<attempt, worker, sending, answering, shown>>
    PROVE  LatestInv'
<1>1. /\ func' = [func EXCEPT ![k] = r]
      /\ futures' = [futures EXCEPT ![k] = @ \cup {r}]
  BY DEF Enqueue, Compacted
<1>2. /\ Request \subseteq Nat \ {0} /\ NoKey \notin Key
      /\ \A q \in Request : keyOf[q] \in Key => keyOf'[q] = keyOf[q]
  BY LimiterAssumption DEF Request, Ordered
<1>3. \A q \in {0} \cup Request : (q # 0 => keyOf[q] \in Key) => MayReplace(attempt, r, q)
  BY <1>2 DEF MayReplace
<1>4. \A q \in Request : caller'[q] = "sleeping" => attempt'[q] > 0
  BY DEF LatestInv
<1>5. ASSUME NEW j \in Key, func'[j] # 0
      PROVE  /\ keyOf'[func'[j]] = j
             /\ MayReplace(attempt', func'[j], shown'[j])
             /\ \A q \in futures'[j] : MayReplace(attempt', func'[j], q)
  <2>1. CASE j = k
    <3>1. func'[j] = r /\ futures'[j] = futures[k] \cup {r} /\ keyOf'[r] = k
      BY <1>1, <2>1 DEF Ordered
    <3>2. MayReplace(attempt, r, shown[k])
      BY <1>3 DEF Ordered, LatestInv
    <3>3. MayReplace(attempt, r, r)
      BY <1>2 DEF MayReplace
    <3>4. \A q \in futures[k] : MayReplace(attempt, r, q)
      BY <1>3 DEF Ordered
    <3> QED
      BY <2>1, <3>1, <3>2, <3>3, <3>4
  <2>2. CASE j # k
    <3>1. func'[j] = func[j] /\ futures'[j] = futures[j] /\ func[j] # 0
      BY <1>1, <1>5, <2>2 DEF Ordered
    <3>2. /\ keyOf[func[j]] = j /\ func[j] \in Request
          /\ MayReplace(attempt, func[j], shown[j])
          /\ \A q \in futures[j] : MayReplace(attempt, func[j], q)
      BY <3>1 DEF Ordered, LatestInv
    <3>3. keyOf'[func[j]] = j
      BY <1>2, <3>2
    <3> QED
      BY <3>1, <3>2, <3>3
  <2> QED
    BY <2>1, <2>2
<1>6. \A j \in Key : shown'[j] # 0 => keyOf'[shown'[j]] = j
  BY <1>2 DEF Ordered, LatestInv
<1>7. ASSUME worker' \in {"taken", "ready", "sending"}
      PROVE  /\ sending' # 0 /\ keyOf'[sending'] \in Key
             /\ \A q \in answering' : MayReplace(attempt', sending', q)
             /\ MayReplace(attempt', sending', shown'[keyOf'[sending']])
             /\ func'[keyOf'[sending']] # 0 => MayReplace(attempt', func'[keyOf'[sending']], sending')
  <2>1. /\ sending \in Request /\ keyOf[sending] \in Key /\ keyOf'[sending] = keyOf[sending]
        /\ \A q \in answering : MayReplace(attempt, sending, q)
        /\ MayReplace(attempt, sending, shown[keyOf[sending]])
        /\ func[keyOf[sending]] # 0 => MayReplace(attempt, func[keyOf[sending]], sending)
    BY <1>2, <1>7 DEF Ordered, LatestInv
  <2>2. MayReplace(attempt, r, sending)
    BY <1>3, <2>1
  <2>3. func'[keyOf[sending]] = IF keyOf[sending] = k THEN r ELSE func[keyOf[sending]]
    BY <1>1, <2>1 DEF Ordered
  <2> QED
    BY <1>2, <2>1, <2>2, <2>3
<1> QED
  BY <1>4, <1>5, <1>6, <1>7 DEF LatestInv, MayReplace

\* Steps after which each request has as many attempts or more, and nothing new is queued.
LEMMA QuietLatest ==
    ASSUME Ordered, LatestInv, UNCHANGED <<keyOf, func, futures>>, attempt' \in [Request -> Nat],
           \A r \in Request :
              /\ attempt'[r] >= attempt[r]
              /\ caller'[r] = "sleeping" => caller[r] = "sleeping" \/ attempt'[r] > 0,
           \/ UNCHANGED shown
           \/ worker = "sending" /\ shown' = [shown EXCEPT ![keyOf[sending]] = sending],
           \/ worker' \notin {"taken", "ready", "sending"}
           \/ worker \in {"taken", "ready", "sending"} /\ UNCHANGED <<sending, answering, shown>>
    PROVE  LatestInv'
<1>1. Request \subseteq Nat \ {0} /\ NoKey \notin Key
  BY LimiterAssumption DEF Request
<1>2. ASSUME NEW n \in Request, NEW o \in {0} \cup Request, MayReplace(attempt, n, o)
      PROVE  MayReplace(attempt', n, o)
  BY <1>1, <1>2 DEF Ordered, MayReplace
<1>3. \A r \in Request : caller'[r] = "sleeping" => attempt'[r] > 0
  BY <1>1 DEF Ordered, LatestInv
<1>4. ASSUME NEW k \in Key
      PROVE  /\ shown'[k] # 0 => keyOf[shown'[k]] = k
             /\ shown'[k] \in {0} \cup Request
             /\ func[k] # 0 => MayReplace(attempt, func[k], shown'[k])
  BY <1>1 DEF Ordered, LatestInv
<1>5. ASSUME NEW k \in Key, func[k] # 0
      PROVE  /\ keyOf'[func'[k]] = k
             /\ MayReplace(attempt', func'[k], shown'[k])
             /\ \A r \in futures'[k] : MayReplace(attempt', func'[k], r)
  <2>1. func[k] \in Request /\ MayReplace(attempt, func[k], shown'[k])
    BY <1>4, <1>5 DEF Ordered
  <2>2. keyOf[func[k]] = k /\ \A r \in futures[k] : r \in Request /\ MayReplace(attempt, func[k], r)
    BY <1>5 DEF Ordered, LatestInv
  <2> QED
    BY <1>2, <1>4, <2>1, <2>2 DEF MayReplace
<1>6. ASSUME worker' \in {"taken", "ready", "sending"}
      PROVE  /\ sending' # 0 /\ keyOf'[sending'] \in Key
             /\ \A q \in answering' : MayReplace(attempt', sending', q)
             /\ MayReplace(attempt', sending', shown'[keyOf'[sending']])
             /\ func'[keyOf'[sending']] # 0 => MayReplace(attempt', func'[keyOf'[sending']], sending')
  <2>1. UNCHANGED <<sending, answering, shown>> /\ worker \in {"taken", "ready", "sending"}
    BY <1>6
  <2>2. /\ sending \in Request /\ keyOf[sending] \in Key
        /\ \A q \in answering : q \in Request /\ MayReplace(attempt, sending, q)
        /\ shown[keyOf[sending]] \in {0} \cup Request
        /\ MayReplace(attempt, sending, shown[keyOf[sending]])
        /\ func[keyOf[sending]] # 0 =>
              func[keyOf[sending]] \in Request /\ MayReplace(attempt, func[keyOf[sending]], sending)
    BY <2>1 DEF Ordered, LatestInv
  <2> QED
    BY <1>1, <1>2, <2>1, <2>2
<1> QED
  BY <1>3, <1>4, <1>5, <1>6 DEF LatestInv, MayReplace

\* The worker takes over the request to send, with everyone it may answer.
LEMMA TakeLatest ==
    ASSUME Ordered, TrackedInv, LatestInv, Take
    PROVE  LatestInv'
<1> DEFINE k == Head(queue)
<1>1. k \in Key /\ func[k] # 0
  <2>1. k \in Key /\ 1 \in 1..Len(queue) /\ queue[1] = k
    BY HeadTailProperties, LenProperties, EmptySeq DEF Take, TrackedInv, QueueTyped
  <2> QED
    BY <2>1 DEF TrackedInv, CallersTracked
<1>2. /\ sending' = func[k] /\ answering' = futures[k]
      /\ func' = [func EXCEPT ![k] = 0] /\ futures' = [futures EXCEPT ![k] = {}]
      /\ UNCHANGED <<keyOf, caller, attempt, shown>>
  BY DEF Take, callerVars
<1> HIDE DEF k
<1>3. \A j \in Key : func'[j] = (IF j = k THEN 0 ELSE func[j]) /\ futures'[j] \subseteq futures[j]
  BY <1>2 DEF Ordered
<1>4. /\ sending' # 0 /\ keyOf[sending'] = k
      /\ \A r \in answering' : MayReplace(attempt, sending', r)
      /\ MayReplace(attempt, sending', shown[k])
  BY <1>1, <1>2 DEF LatestInv
<1> QED
  BY <1>1, <1>2, <1>3, <1>4 DEF LatestInv

LEMMA LatestStep == LimiterTypeInv /\ LatestInv /\ [Next]_vars => LatestInv'
<1> SUFFICES ASSUME LimiterTypeInv, LatestInv, [Next]_vars PROVE LatestInv'
  OBVIOUS
<1>1. Ordered /\ TrackedInv
  BY OrderedHolds DEF LimiterTypeInv
<1>2. ASSUME NEW r \in Request, NEW k \in Key, Issue(r, k) PROVE LatestInv'
  <2>1. \A q \in Request : keyOf[q] \in Key => q < r
    BY <1>2, LimiterAssumption DEF Issue, Issued, Request
  <2> QED
    BY <1>1, <1>2, <2>1, EnqueueLatest DEF Issue, workerVars
<1>3. ASSUME NEW r \in Request, Retry(r) PROVE LatestInv'
  <2>1. /\ keyOf[r] \in Key /\ keyOf' = [keyOf EXCEPT ![r] = keyOf[r]]
        /\ attempt[r] > 0
    BY <1>1, <1>3 DEF Retry, TrackedInv, QueueTyped, LatestInv
  <2> QED
    BY <1>1, <1>3, <2>1, EnqueueLatest DEF Retry, workerVars
<1>4. CASE Take
  BY <1>1, <1>4, TakeLatest
<1>5. CASE SendFails
  <2>1. PICK transient \in BOOLEAN, flood \in BOOLEAN : CallersTold(transient, flood)
    BY <1>5 DEF SendFails
  <2> DEFINE retrying == {r \in Told(flood) : Retries(r, transient)}
  <2>2. /\ attempt' = [r \in Request |-> attempt[r] + (IF r \in retrying THEN 1 ELSE 0)]
        /\ caller' = [r \in Request |-> IF r \in retrying THEN "sleeping"
                        ELSE IF r \in Told(flood) THEN "failed" ELSE caller[r]]
    BY <2>1 DEF CallersTold
  <2> HIDE DEF retrying
  <2>3. \A r \in Request : attempt[r] \in Nat
    BY <1>1 DEF Ordered
  <2>4. /\ attempt' \in [Request -> Nat]
        /\ \A r \in Request :
              /\ attempt'[r] >= attempt[r]
              /\ caller'[r] = "sleeping" => caller[r] = "sleeping" \/ attempt'[r] > 0
    BY <2>2, <2>3
  <2>5. /\ UNCHANGED <<keyOf, func, futures>> /\ worker = "sending" /\ worker' = "idle"
        /\ shown' = [shown EXCEPT ![keyOf[sending]] = sending] \/ UNCHANGED shown
    BY <1>5 DEF SendFails, Done, Shown, queueVars
  <2> QED
    BY <1>1, <2>4, <2>5, QuietLatest
<1>6. ASSUME UNCHANGED <<keyOf, func, futures, attempt>>,
             \A r \in Request : caller'[r] = "sleeping" => caller[r] = "sleeping",
             \/ UNCHANGED shown
             \/ worker = "sending" /\ shown' = [shown EXCEPT ![keyOf[sending]] = sending],
             \/ worker' \notin {"taken", "ready", "sending"}
             \/ worker \in {"taken", "ready", "sending"} /\ UNCHANGED <<sending, answering, shown>>
      PROVE  LatestInv'
  <2>1. attempt' \in [Request -> Nat] /\ \A r \in Request : attempt'[r] >= attempt[r]
    BY <1>1, <1>6 DEF Ordered
  <2> QED
    BY <1>1, <1>6, <2>1, QuietLatest
<1>7. CASE SendSucceeds
  <2>1. \A r \in Request : caller'[r] = "sleeping" => caller[r] = "sleeping"
    BY <1>7 DEF SendSucceeds
  <2> QED
    BY <1>6, <1>7, <2>1 DEF SendSucceeds, Done, Shown, queueVars
<1>8. CASE Shutdown
  BY <1>6, <1>8 DEF Shutdown, Shown, queueVars, callerVars
<1>9. ASSUME NEW r \in Request, Abandon(r) PROVE LatestInv'
  <2>1. \A q \in Request : caller'[q] = "sleeping" => caller[q] = "sleeping"
    BY <1>1, <1>9 DEF Abandon, TrackedInv, QueueTyped
  <2> QED
    BY <1>6, <1>9, <2>1 DEF Abandon, queueVars, workerVars
<1>10. CASE PauseOver \/ Send
  BY <1>6, <1>10 DEF PauseOver, Send, queueVars, callerVars
<1>11. CASE Tick
  BY <1>6, <1>11 DEF Tick, queueVars, workerVars
<1>12. CASE UNCHANGED vars
  BY <1>6, <1>12 DEF vars, queueVars, callerVars, workerVars
<1> QED
  BY <1>2, <1>3, <1>4, <1>5, <1>7, <1>8, <1>9, <1>10, <1>11, <1>12 DEF Next, SendEnds

\* "only the latest version of a message update is processed": nobody is told of a
\* success that was an older text's, and no text takes the place of a later one, unless
\* a retry enqueued it anew.
THEOREM LatestWinsCorrect == Spec => LatestWins
<1> DEFINE LatestWinsStep ==
        /\ \A r \in Request : caller[r] = "waiting" /\ caller'[r] = "done" =>
              sending >= r \/ attempt[sending] > 0
        /\ \A k \in Key : shown'[k] < shown[k] => attempt[shown'[k]] > 0
<1>1. Init => LimiterTypeInv /\ LatestInv
  <2>1. Init => LatestInv
    BY LimiterAssumption DEF Init, LatestInv
  <2> QED
    BY <2>1, TypeInit
<1>2. LimiterTypeInv /\ LatestInv /\ [Next]_vars => [LatestWinsStep]_vars
  <2> SUFFICES ASSUME LimiterTypeInv, LatestInv, [Next]_vars
               PROVE  LatestWinsStep \/ UNCHANGED vars
    OBVIOUS
  <2>1. Ordered
    BY OrderedHolds
  <2>2. Request \subseteq Nat \ {0}
    BY LimiterAssumption DEF Request
  <2>3. \A k \in Key : shown[k] \in Nat
    BY LimiterAssumption DEF LimiterTypeInv, TypeOK
  <2>4. ASSUME NEW r \in Request, caller[r] = "waiting", caller'[r] = "done"
        PROVE  sending >= r \/ attempt[sending] > 0
    <3>1. CASE SendSucceeds
      <4>1. r \in answering /\ worker = "sending"
        BY <2>4, <3>1 DEF SendSucceeds
      <4> QED
        BY <4>1 DEF LatestInv, MayReplace
    <3>2. CASE ~SendSucceeds
      <4>1. caller'[r] # "done"
        BY <2>4, <3>2 DEF LimiterTypeInv, TypeOK, Next, SendEnds, Issue, Retry, Abandon, Take, PauseOver,
              Send, SendFails, CallersTold, Shutdown, Tick, vars, callerVars
      <4> QED
        BY <2>4, <4>1
    <3> QED
      BY <3>1, <3>2
  <2>5. ASSUME NEW k \in Key, shown'[k] < shown[k]
        PROVE  attempt[shown'[k]] > 0
    <3>1. shown' = shown \/ (worker = "sending" /\ Shown)
      BY DEF Next, SendEnds, Issue, Retry, Abandon, Take, PauseOver, Send, SendSucceeds, SendFails,
             Shutdown, Tick, vars
    <3>2. shown[k] \in Nat
      BY <2>3
    <3>3. /\ worker = "sending" /\ keyOf[sending] = k /\ shown'[k] = sending
      BY <2>1, <2>5, <3>1, <3>2 DEF Ordered, Shown
    <3>4. sending \in Nat /\ MayReplace(attempt, sending, shown[k])
      BY <2>1, <2>2, <3>3 DEF Ordered, LatestInv
    <3> QED
      BY <2>5, <3>2, <3>3, <3>4 DEF MayReplace
  <2> QED
    BY <2>4, <2>5
<1> HIDE DEF LatestWinsStep
<1> QED
  BY <1>1, <1>2, TypeStep, LatestStep, PTL DEF Spec, LatestWins, LatestWinsStep
=============================================================================
