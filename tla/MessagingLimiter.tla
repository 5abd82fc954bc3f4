-------------------------- MODULE MessagingLimiter --------------------------
(***************************************************************************)
(* messaging/limiter.py: the queue of platform requests with compaction by *)
(* key, the worker that sends them within the rate limit and pauses when   *)
(* it is told to, and the callers, who wait for the answer (enqueue) or    *)
(* retry in a task of their own (fire_and_forget).                         *)
(*                                                                         *)
(* A request is a number, given in the order of issue; requests of one key *)
(* are successive texts of one status message.  Nothing suspends with the  *)
(* condition's lock held, so its critical sections are atomic.             *)
(***************************************************************************)
EXTENDS Naturals, Sequences, FiniteSets, SlidingWindow

CONSTANTS
    Key,          \* dedup keys
    NoKey,
    Awaited,      \* keys whose requests are made with enqueue, not fire_and_forget
    MaxRequests,  \* bound on the requests issued
    MaxRetries,   \* max_retries of fire_and_forget
    MaxPause      \* bound on the pause a platform asks for, in ticks

ASSUME LimiterAssumption ==
    /\ NoKey \notin Key /\ Awaited \subseteq Key
    /\ MaxRequests \in Nat /\ MaxRetries \in Nat /\ MaxPause \in Nat \ {0}

\* Arithmetic, stated because the prover knows nothing of powers.
ASSUME BackoffAssumption == \A n \in 0..MaxRetries : 2^n \in Nat

VARIABLES
    keyOf,     \* the key of each request issued
    caller,    \* where the caller of each request stands
    attempt,   \* attempt of each fire_and_forget task
    backoff,   \* ticks left of its asyncio.sleep
    queue,     \* _queue_list
    func,      \* _queue_map: the request to send for each key, 0 if none
    futures,   \* _queue_map: the callers to answer for each key
    worker,    \* where the worker stands: idle, taken (a request, and looks whether to
               \* pause), ready (waits for the rate limit), sending, stopped
    sending,   \* the request the worker has popped
    answering, \* and the callers it will answer
    paused,    \* ticks until _paused_until
    times,     \* _times of the sliding window
    sent,      \* ages of the requests sent in the last Window ticks
    shown,     \* the request whose text the platform shows for each key
    shutdown   \* _shutdown

queueVars == <<queue, func, futures>>
callerVars == <<keyOf, caller, attempt, backoff>>
workerVars == <<worker, sending, answering>>
timeVars == <<paused, times, sent>>
vars == <<queueVars, callerVars, workerVars, timeVars, shown, shutdown>>

Request == 1..MaxRequests
Issued == {r \in Request : keyOf[r] # NoKey}
Waits(r) == caller[r] \in {"waiting", "sleeping"}

Init ==
    /\ keyOf = [r \in Request |-> NoKey]
    /\ caller = [r \in Request |-> "none"]
    /\ attempt = [r \in Request |-> 0]
    /\ backoff = [r \in Request |-> 0]
    /\ queue = << >>
    /\ func = [k \in Key |-> 0]
    /\ futures = [k \in Key |-> {}]
    /\ worker = "idle"
    /\ sending = 0
    /\ answering = {}
    /\ paused = 0
    /\ times = << >>
    /\ sent = << >>
    /\ shown = [k \in Key |-> 0]
    /\ shutdown = FALSE

-----------------------------------------------------------------------------
(* Callers.                                                                *)

\* A slip of the compaction: the request already queued is kept.
CompactedOld(k, r) == IF func[k] # 0 THEN func[k] ELSE r

\* The request that is sent for k from now on.
Compacted(k, r) == r

\* A slip of the compaction: the callers of the replaced request are forgotten.
EnqueueForgets(k, r) ==
    /\ func' = [func EXCEPT ![k] = Compacted(k, r)]
    /\ futures' = [futures EXCEPT ![k] = {r}]
    /\ queue' = IF func[k] = 0 THEN Append(queue, k) ELSE queue

Enqueue(k, r) ==
    /\ func' = [func EXCEPT ![k] = Compacted(k, r)]
    /\ futures' = [futures EXCEPT ![k] = @ \cup {r}]
    /\ queue' = IF func[k] = 0 THEN Append(queue, k) ELSE queue

\* enqueue, or the first attempt of fire_and_forget.
Issue(r, k) ==
    /\ keyOf[r] = NoKey
    /\ Issued = 1..(r - 1)
    /\ keyOf' = [keyOf EXCEPT ![r] = k]
    /\ caller' = [caller EXCEPT ![r] = "waiting"]
    /\ Enqueue(k, r)
    /\ UNCHANGED <<attempt, backoff, workerVars, timeVars, shown, shutdown>>

\* The sleep of a failed fire_and_forget task is over: it enqueues its request
\* again.  Sleeps that end in the same tick may end in any order.
Retry(r) ==
    /\ caller[r] = "sleeping"
    /\ backoff[r] = 0
    /\ caller' = [caller EXCEPT ![r] = "waiting"]
    /\ Enqueue(keyOf[r], r)
    /\ UNCHANGED <<keyOf, attempt, backoff, workerVars, timeVars, shown, shutdown>>

\* A caller of enqueue is cancelled; its request stays queued.
Abandon(r) ==
    /\ caller[r] = "waiting"
    /\ keyOf[r] \in Awaited
    /\ caller' = [caller EXCEPT ![r] = "cancelled"]
    /\ UNCHANGED <<keyOf, attempt, backoff, queueVars, workerVars, timeVars,
                   shown, shutdown>>

-----------------------------------------------------------------------------
(* The worker.                                                             *)

Take ==
    /\ worker = "idle"
    /\ queue # << >>
    /\ LET k == Head(queue)
       IN  /\ sending' = func[k]
           /\ answering' = futures[k]
           /\ func' = [func EXCEPT ![k] = 0]
           /\ futures' = [futures EXCEPT ![k] = {}]
    /\ queue' = Tail(queue)
    /\ worker' = "taken"
    /\ UNCHANGED <<callerVars, timeVars, shown, shutdown>>

\* asyncio.sleep until _paused_until, if that is still to come; nobody but the worker
\* sets it.
PauseOver ==
    /\ worker = "taken"
    /\ paused = 0
    /\ worker' = "ready"
    /\ UNCHANGED <<queueVars, callerVars, sending, answering, timeVars, shown, shutdown>>

\* acquire() of the limiter, after which the request is made without suspending.
Send ==
    /\ worker = "ready"
    /\ HasRoom(times)
    /\ times' = Acquired(times)
    /\ sent' = Append(sent, 0)
    /\ worker' = "sending"
    /\ UNCHANGED <<queueVars, callerVars, sending, answering, paused, shown, shutdown>>

Done ==
    /\ worker' = "idle"
    /\ sending' = 0
    /\ answering' = {}

Shown == shown' = [shown EXCEPT ![keyOf[sending]] = sending]

SendSucceeds ==
    /\ worker = "sending"
    /\ Shown
    /\ caller' = [r \in Request |->
                    IF r \in answering /\ caller[r] = "waiting" THEN "done" ELSE caller[r]]
    /\ Done
    /\ UNCHANGED <<queueVars, keyOf, attempt, backoff, timeVars, shutdown>>

\* A slip: one attempt too many.
RetriesOnceMore(r, transient) ==
    keyOf[r] \notin Awaited /\ transient /\ attempt[r] <= MaxRetries

\* The task of fire_and_forget tries a request that failed this way once more.
Retries(r, transient) == keyOf[r] \notin Awaited /\ transient /\ attempt[r] < MaxRetries

\* A slip: callers hear of nothing when the platform asks for a pause.
ToldUnlessFlood(flood) == {r \in answering : caller[r] = "waiting" /\ ~flood}

\* Every caller that still waits gets the exception.
Told(flood) == {r \in answering : caller[r] = "waiting"}

CallersTold(transient, flood) ==
    LET retrying == {r \in Told(flood) : Retries(r, transient)}
    IN  /\ caller' = [r \in Request |-> IF r \in retrying THEN "sleeping"
                                         ELSE IF r \in Told(flood) THEN "failed" ELSE caller[r]]
        /\ attempt' = [r \in Request |-> attempt[r] + (IF r \in retrying THEN 1 ELSE 0)]
        /\ backoff' = [r \in Request |-> IF r \in retrying THEN 2^attempt[r] ELSE backoff[r]]

\* The request failed, as far as the client can tell: it may have got through.
\* The text of the exception says whether to pause, and whether to retry.
SendFails ==
    /\ worker = "sending"
    /\ Shown \/ UNCHANGED shown
    /\ \E transient, flood \in BOOLEAN :
          /\ CallersTold(transient, flood)
          /\ IF flood THEN paused' \in 1..MaxPause ELSE UNCHANGED paused
    /\ Done
    /\ UNCHANGED <<queueVars, keyOf, times, sent, shutdown>>

\* shutdown() cancels the worker, wherever it is; nobody answers its callers.
Shutdown ==
    /\ ~shutdown
    /\ shutdown' = TRUE
    /\ worker' = "stopped"
    /\ \/ worker = "sending" /\ Shown
       \/ UNCHANGED shown
    /\ UNCHANGED <<queueVars, callerVars, sending, answering, timeVars>>

-----------------------------------------------------------------------------
Less(n) == IF n = 0 THEN 0 ELSE n - 1

\* One tick of the clock, while anything depends on it.
Tick ==
    /\ \/ paused > 0
       \/ \E r \in Request : backoff[r] > 0
       \/ Unexpired(times) # << >> \/ sent # << >>
    /\ paused' = Less(paused)
    /\ backoff' = [r \in Request |-> Less(backoff[r])]
    /\ times' = Aged(times)
    /\ sent' = Recent(Aged(sent))
    /\ UNCHANGED <<queueVars, keyOf, caller, attempt, workerVars, shown, shutdown>>

SendEnds == SendSucceeds \/ SendFails

Next ==
    \/ \E r \in Request : (\E k \in Key : Issue(r, k)) \/ Retry(r) \/ Abandon(r)
    \/ Take \/ PauseOver \/ Send \/ SendEnds \/ Shutdown \/ Tick

Spec == Init /\ [][Next]_vars

\* The worker and the retrying tasks run when they can, a request to the platform
\* ends (the client libraries have timeouts), and time passes.
Fairness ==
    /\ WF_vars(Take) /\ WF_vars(PauseOver) /\ WF_vars(Send) /\ WF_vars(SendEnds)
    /\ WF_vars(Tick)
    /\ \A r \in Request : WF_vars(Retry(r))

FairSpec == Spec /\ Fairness

-----------------------------------------------------------------------------
(* Properties.                                                             *)

TypeOK ==
    /\ keyOf \in [Request -> Key \cup {NoKey}]
    /\ caller \in [Request ->
                     {"none", "waiting", "sleeping", "done", "failed", "cancelled"}]
    /\ attempt \in [Request -> 0..MaxRetries]
    /\ backoff \in [Request -> Nat]
    /\ queue \in Seq(Key)
    /\ func \in [Key -> 0..MaxRequests]
    /\ futures \in [Key -> SUBSET Request]
    /\ worker \in {"idle", "taken", "ready", "sending", "stopped"}
    /\ sending \in 0..MaxRequests
    /\ answering \in SUBSET Request
    /\ paused \in 0..MaxPause
    /\ times \in Seq(0..Window)
    /\ sent \in Seq(0..Window)
    /\ shown \in [Key -> 0..MaxRequests]
    /\ shutdown \in BOOLEAN

\* _queue_list and _queue_map agree, and every caller that waits for a future is
\* known in exactly one place, under its own key: compaction and retries neither
\* lose a caller nor answer it twice.
CallersTracked ==
    /\ \A k \in Key : (func[k] # 0) <=> \E i \in 1..Len(queue) : queue[i] = k
    /\ \A i, j \in 1..Len(queue) : queue[i] = queue[j] => i = j
    /\ \A k \in Key : func[k] = 0 => futures[k] = {}
    /\ \A r \in Request : caller[r] = "waiting" =>
          (r \in answering) # (r \in futures[keyOf[r]])
    /\ \A k \in Key : \A r \in futures[k] : keyOf[r] = k

\* "at most rate_limit acquisitions in any interval of length rate_window".
RateRespected == Len(sent) <= RateLimit

\* "only the latest version of a message update is processed": a caller is told of
\* success only when its own text or a later one was sent, and a text never takes
\* the place of a later one.  Except by a retry: the task of fire_and_forget
\* enqueues the text it was made for, over whatever was queued or shown since.
LatestWins ==
    [][/\ \A r \in Request : caller[r] = "waiting" /\ caller'[r] = "done" =>
             sending >= r \/ attempt[sending] > 0
       /\ \A k \in Key : shown'[k] < shown[k] => attempt[shown'[k]] > 0]_vars



\* Every caller hears of its request in the end, unless the limiter is shut down.
CallersAnswered ==
    \A r \in Request : Waits(r) ~> (~Waits(r) \/ shutdown)

=============================================================================
