-------------------------- MODULE ProviderLimiter --------------------------
(***************************************************************************)
(* providers/rate_limit.py: the streams of one provider behind their       *)
(* GlobalRateLimiter.  A stream takes a concurrency slot (an asyncio       *)
(* semaphore, first come first served), and keeps it while it calls        *)
(* upstream, backs off, calls again, and streams to its client.  Before    *)
(* each call it waits for the block that a failure of any stream has set,  *)
(* and then for the sliding window.                                        *)
(*                                                                         *)
(* Times are ticks to go or ticks gone by.  Nothing is suspended between a *)
(* look at the block and the first look at the window, nor between room in *)
(* the window and the call.                                                *)
(***************************************************************************)
EXTENDS Naturals, Sequences, FiniteSets, SlidingWindow

CONSTANTS
    Caller,          \* streams of the provider
    MaxConcurrency,
    MaxRetries,      \* of one execute_with_retry
    Rounds,          \* how often a request is made: 2 if its body is changed after a 400
    LongBlock        \* set_blocked() with its default, after a 429 nobody retries

ASSUME ProviderLimiterAssumption ==
    /\ MaxConcurrency \in Nat \ {0} /\ MaxRetries \in Nat
    /\ Rounds \in {1, 2} /\ LongBlock \in Nat

\* Arithmetic, stated because the prover knows nothing of powers.
ASSUME BackoffAssumption == \A n \in 0..MaxRetries : 2^n \in Nat

VARIABLES
    stage,      \* where each stream stands
    slots,      \* the value of the semaphore
    waiters,    \* streams that wait for a slot, in order
    sleep,      \* ticks left of a stream's asyncio.sleep
    attempt,    \* of the current execute_with_retry
    round,
    blocked,    \* ticks until _blocked_until
    missed,     \* waiting streams that have looked at the block before it was set
    times,      \* _times of the sliding window
    calls       \* ages of the calls made in the last Window ticks

tries == <<attempt, round>>
limitVars == <<stage, slots, waiters, sleep, tries, blocked, missed, times, calls>>

Finished == {"done", "failed", "gone"}
Holding == {"blocked", "window", "calling", "backoff", "streaming", "failing"}
Holders == {s \in Caller : stage[s] \in Holding}

LimitInit ==
    /\ stage = [s \in Caller |-> "new"]
    /\ slots = MaxConcurrency /\ waiters = <<>>
    /\ sleep = [s \in Caller |-> 0]
    /\ attempt = [s \in Caller |-> 0] /\ round = [s \in Caller |-> 1]
    /\ blocked = 0 /\ missed = {}
    /\ times = <<>> /\ calls = <<>>

\* The call goes out if the window has room.
CallOrWait(s) ==
    IF HasRoom(times)
    THEN /\ stage' = [stage EXCEPT ![s] = "calling"] /\ missed' = missed \ {s}
         /\ times' = Acquired(times) /\ calls' = Append(calls, 0)
    ELSE /\ stage' = [stage EXCEPT ![s] = "window"]
         /\ times' = Unexpired(times) /\ UNCHANGED <<missed, calls>>

\* A slip: only the window is waited for.
WaitForWindow(s) == CallOrWait(s) /\ UNCHANGED sleep

\* wait_if_blocked: the block is looked at once, before the window.
WaitIfBlocked(s) ==
    IF blocked > 0
    THEN /\ stage' = [stage EXCEPT ![s] = "blocked"]
         /\ sleep' = [sleep EXCEPT ![s] = blocked]
         /\ UNCHANGED <<missed, times, calls>>
    ELSE CallOrWait(s) /\ UNCHANGED sleep

-----------------------------------------------------------------------------
\* concurrency_slot(): a slot is free, and nobody waits for one.
TakeSlot(s) ==
    /\ stage[s] = "new" /\ slots > 0 /\ waiters = <<>>
    /\ slots' = slots - 1
    /\ WaitIfBlocked(s)
    /\ UNCHANGED <<waiters, tries, blocked>>

Queue(s) ==
    /\ stage[s] = "new" /\ (slots = 0 \/ waiters # <<>>)
    /\ stage' = [stage EXCEPT ![s] = "queued"]
    /\ waiters' = Append(waiters, s)
    /\ UNCHANGED <<slots, sleep, tries, blocked, missed, times, calls>>

\* The slot a stream was given while it waited: it goes on.
GoOn(s) ==
    /\ stage[s] = "given"
    /\ WaitIfBlocked(s)
    /\ UNCHANGED <<slots, waiters, tries, blocked>>

\* A slip: the slot is released, the first in line is not woken.
LeaveSilently(s, end) ==
    /\ slots' = slots + 1 /\ UNCHANGED waiters
    /\ stage' = [stage EXCEPT ![s] = end]

\* A stream that leaves gives its slot to the first that waits.
Leave(s, end) ==
    IF waiters = <<>>
    THEN /\ slots' = slots + 1 /\ UNCHANGED waiters
         /\ stage' = [stage EXCEPT ![s] = end]
    ELSE /\ waiters' = Tail(waiters) /\ UNCHANGED slots
         /\ stage' = [stage EXCEPT ![s] = end, ![Head(waiters)] = "given"]

\* The sleep of wait_if_blocked is over: the block is not looked at again.
BlockOver(s) ==
    /\ stage[s] = "blocked" /\ sleep[s] = 0
    /\ CallOrWait(s)
    /\ UNCHANGED <<slots, waiters, sleep, tries, blocked>>

\* acquire() finds room after a sleep.
RoomAtLast(s) ==
    /\ stage[s] = "window" /\ HasRoom(times)
    /\ CallOrWait(s)
    /\ UNCHANGED <<slots, waiters, sleep, tries, blocked>>

\* The call returns a stream.
CallSucceeds(s) ==
    /\ stage[s] = "calling"
    /\ stage' = [stage EXCEPT ![s] = "streaming"]
    /\ UNCHANGED <<slots, waiters, sleep, tries, blocked, missed, times, calls>>

Block(ticks) ==
    /\ blocked' = ticks
    /\ missed' = {s \in Caller : stage[s] \in {"blocked", "window"}}

\* Exponential, up to a maximum, and randomly a little longer.
Delays(n) == {IF 2^n < LongBlock THEN 2^n ELSE LongBlock} \union {2^n + 1}

\* 429 or a server error: all streams are blocked, and this one sleeps as long.
CallBacksOff(s) ==
    /\ stage[s] = "calling" /\ attempt[s] < MaxRetries
    /\ \E delay \in Delays(attempt[s]) :
            Block(delay) /\ sleep' = [sleep EXCEPT ![s] = delay]
    /\ stage' = [stage EXCEPT ![s] = "backoff"]
    /\ UNCHANGED <<slots, waiters, tries, times, calls>>

Retry(s) ==
    /\ stage[s] = "backoff" /\ sleep[s] = 0
    /\ attempt' = [attempt EXCEPT ![s] = @ + 1]
    /\ WaitIfBlocked(s)
    /\ UNCHANGED <<slots, waiters, round, blocked>>

\* A slip: a request is made again for ever.
CallRejectedAgain(s) ==
    /\ stage[s] = "calling"
    /\ attempt' = [attempt EXCEPT ![s] = 0]
    /\ WaitIfBlocked(s)
    /\ UNCHANGED <<slots, waiters, round, blocked>>

\* 400, and the request body can be changed: once more from the start.
CallRejected(s) ==
    /\ stage[s] = "calling" /\ round[s] < Rounds
    /\ round' = [round EXCEPT ![s] = @ + 1] /\ attempt' = [attempt EXCEPT ![s] = 0]
    /\ WaitIfBlocked(s)
    /\ UNCHANGED <<slots, waiters, blocked>>

\* The call fails for good, or the stream breaks; map_error blocks everyone on 429.
\* A 429 or a server error does so only after the last retry.
StreamFails(s) ==
    /\ stage[s] \in {"calling", "streaming"}
    /\ stage' = [stage EXCEPT ![s] = "failing"]
    /\ \/ (stage[s] = "streaming" \/ attempt[s] = MaxRetries) /\ Block(LongBlock)
       \/ UNCHANGED <<blocked, missed>>
    /\ UNCHANGED <<slots, waiters, sleep, tries, times, calls>>

\* The counters are local to a call that is over.
Forget(s) == attempt' = [attempt EXCEPT ![s] = 0] /\ round' = [round EXCEPT ![s] = 1]

\* The client has taken what the stream still had to say.
StreamEnds(s) ==
    /\ stage[s] \in {"streaming", "failing"}
    /\ Leave(s, IF stage[s] = "streaming" THEN "done" ELSE "failed")
    /\ Forget(s)
    /\ UNCHANGED <<sleep, blocked, missed, times, calls>>

\* A cancelled waiter takes itself off the deque.
Remove(s) ==
    \E i \in 1..Len(waiters) :
        /\ waiters[i] = s
        /\ waiters' = SubSeq(waiters, 1, i - 1) \o SubSeq(waiters, i + 1, Len(waiters))

\* The client is gone.
Cancel(s) ==
    /\ stage[s] \in {"queued", "given"} \union Holding
    /\ IF stage[s] = "queued"
       THEN /\ Remove(s) /\ UNCHANGED slots
            /\ stage' = [stage EXCEPT ![s] = "gone"]
       ELSE Leave(s, "gone")
    /\ sleep' = [sleep EXCEPT ![s] = 0] /\ missed' = missed \ {s}
    /\ Forget(s)
    /\ UNCHANGED <<blocked, times, calls>>

Less(n) == IF n = 0 THEN 0 ELSE n - 1

\* One tick of the clock, while anything depends on it.
LimitTick ==
    /\ blocked > 0 \/ calls # <<>> \/ times # <<>> \/ \E s \in Caller : sleep[s] > 0
    /\ blocked' = Less(blocked)
    /\ sleep' = [s \in Caller |-> Less(sleep[s])]
    /\ times' = Unexpired(Aged(times))
    /\ calls' = Recent(Aged(calls))
    /\ UNCHANGED <<stage, slots, waiters, tries, missed>>

CallEnds(s) ==
    CallSucceeds(s) \/ CallBacksOff(s) \/ CallRejected(s) \/ StreamFails(s) \/ StreamEnds(s)

GoesOn(s) == GoOn(s) \/ BlockOver(s) \/ RoomAtLast(s) \/ Retry(s)

LimitNext ==
    \/ \E s \in Caller : TakeSlot(s) \/ Queue(s) \/ GoesOn(s) \/ CallEnds(s) \/ Cancel(s)
    \/ LimitTick

LimitSpec == LimitInit /\ [][LimitNext]_limitVars

\* The clock goes on; so does a stream whose slot, block, window or backoff is over; and
\* an upstream ends a call that it has taken.  Clients need not leave.
Fairness ==
    /\ WF_limitVars(LimitTick)
    /\ \A s \in Caller : WF_limitVars(GoesOn(s)) /\ WF_limitVars(CallEnds(s))

FairSpec == LimitSpec /\ Fairness

-----------------------------------------------------------------------------
\* Slots are neither lost nor made up, whoever leaves at which point, and nobody
\* waits while one is free.  In any Window ticks there are at most RateLimit calls,
\* however retries and fresh streams interleave.
SlotsAndRate ==
    /\ slots + Cardinality(Holders) + Cardinality({s \in Caller : stage[s] = "given"}) = MaxConcurrency
    /\ waiters # <<>> => slots = 0
    /\ Len(calls) <= RateLimit

\* A call goes out during a block only if its stream had looked before the block was
\* set, and was then waiting for an earlier block or for the window.
BlocksHeeded ==
    [][\A s \in Caller :
         blocked > 0 /\ stage'[s] = "calling" /\ (stage[s] # "calling" \/ round'[s] # round[s])
         => s \in missed]_limitVars

\* Every stream that waits for a slot, a block, the window or a backoff gets to its
\* end, although streams keep their slots through all of that.
CallersServed == \A s \in Caller : stage[s] # "new" ~> stage[s] \in Finished

=============================================================================
